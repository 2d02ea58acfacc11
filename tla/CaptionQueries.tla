--------------------------- MODULE CaptionQueries ---------------------------
(***************************************************************************)
(* The questions a client may ask of the rows CaptionWorkflow keeps, with  *)
(* the quality rules and the WebVTT track of QualityRules in place: which  *)
(* segments a reviewer should sample, what a revision changed, whether a   *)
(* release verifies.  A query runs in a transaction of its own and writes  *)
(* nothing; its answer is an operator of the state.                        *)
(***************************************************************************)
EXTENDS CaptionWorkflow

CONSTANTS
  Duration,       \* of every programme
  Spelling,       \* of identifiers that are not a line of words: see QualityRules
  VerifyLimit,    \* events Verify reads: 10000 in code
  RecordLimit,    \* events VerifyAndRecord reads: 100000 in code
  IntegrityLimit  \* events the integrity check reads: a million in code

Rules == INSTANCE QualityRules

\* The parameters of CaptionDomain are what QualityRules defines.
ASSUME QueriesAssumption ==
  /\ \A content \in Contents :
       /\ Rules!IsSegmentList(content)
       /\ Rules!ValidateSegments(content, Duration)
       /\ WebVTT[content] = Rules!BuildWebVTT(content)
  /\ \A profile \in Profiles :
       profile \in KnownProfiles <=> Rules!RuleSetForProfile(profile) # None
  /\ \A profile \in KnownProfiles, content \in Contents :
       Evaluate[profile, content] =
         Rules!EvaluateRules(Rules!RuleSetForProfile(profile), content)
  /\ Blocking = {issue \in Issues : Rules!Severity(issue) = "blocking"}
  /\ None \notin [start : Seq(Int), end : Seq(Int)]
  /\ VerifyLimit \in Nat /\ RecordLimit \in Nat /\ IntegrityLimit \in Nat
----------------------------------------------------------------------------
(***************************************************************************)
(* Sampling.                                                               *)
(***************************************************************************)
FirstAndMiddle(content) ==
  {content[1].id, content[(Len(content) \div 2) + 1].id}

\* The first segment, the last, and the middle one of three or more.
Marked(content) ==
  LET n == Len(content) IN
  {content[1].id, content[n].id}
    \cup (IF n > 2 THEN {content[(n \div 2) + 1].id} ELSE {})

FoundIn(r) == {issue \in Issues : findings[r][issue] # "absent"}

\* Of a blocking finding, the first segment it names.
Suspect(r) ==
  {issue.ids[1] : issue \in {i \in FoundIn(r) \cap Blocking : i.ids # <<>>}}

FirstSegments(content, m) == {content[n].id : n \in 1..m}

\* Filled up, from the start of the text, to the least number a review needs.
Sampling(r) ==
  LET content == ContentOf(r)
      n       == Len(content)
      minimum == IF n < 3 THEN n ELSE 3
      chosen  == Marked(content) \cup Suspect(r)
      Enough(m) == Cardinality(chosen \cup FirstSegments(content, m)) >= minimum
      filled  == CHOOSE m \in 0..n : Enough(m) /\ \A k \in 0..(m - 1) : ~Enough(k)
  IN [minimum |-> minimum, ids |-> chosen \cup FirstSegments(content, filled)]
----------------------------------------------------------------------------
(***************************************************************************)
(* Diff of a revision and its parent.                                      *)
(***************************************************************************)
MayDiff(from, to) ==
  /\ revisions[from].job # None
  /\ revisions[to].job = revisions[from].job
  /\ revisions[to].parent = from

ChangeOfText(before, after, id) ==
  CASE id \notin SegmentIDs(before) -> "added"
    [] id \notin SegmentIDs(after)  -> "removed"
    [] /\ id \in SegmentIDs(before) \cap SegmentIDs(after)
       /\ SegmentOf(before, id).text # SegmentOf(after, id).text -> "changed"
    [] OTHER -> "none"

\* Segments are matched by identifier, wherever in the text they stand.
ChangeOf(before, after, id) ==
  CASE id \notin SegmentIDs(before) -> "added"
    [] id \notin SegmentIDs(after)  -> "removed"
    [] /\ id \in SegmentIDs(before) \cap SegmentIDs(after)
       /\ SegmentOf(before, id) # SegmentOf(after, id) -> "changed"
    [] OTHER -> "none"

SegmentChanges(before, after, kind) ==
  {id \in SegmentIDs(before) \cup SegmentIDs(after) :
     ChangeOf(before, after, id) = kind}

\* Findings are matched by rule and segment: one on two segments counts twice.
FindingKeys(r) ==
  UNION {{<<issue.rule, issue.ids[n]>> : n \in DOMAIN issue.ids} :
         issue \in FoundIn(r)}

FindingChanges(from, to) ==
  [resolved      |-> FindingKeys(from) \ FindingKeys(to),
   new           |-> FindingKeys(to) \ FindingKeys(from),
   still_present |-> FindingKeys(from) \cap FindingKeys(to)]
----------------------------------------------------------------------------
(***************************************************************************)
(* Verification without a record, and the readers of the audit chain.      *)
(***************************************************************************)
LatestAudit(j, limit) ==
  SubSeq(audit[j], IF limit < Len(audit[j]) THEN Len(audit[j]) - limit + 1 ELSE 1,
         Len(audit[j]))

\* The oldest events come first, and it is the newest a limit leaves out.
ListAudit(j, limit) ==
  SubSeq(audit[j], 1, IF limit < Len(audit[j]) THEN limit ELSE Len(audit[j]))

VerifyOnly(j, limit) ==
  [valid |-> VerifyRelease(artifacts[j], ListAudit(j, limit)),
   head  |-> VerifiedHead(ListAudit(j, limit))]
----------------------------------------------------------------------------
(***************************************************************************)
(* Properties.                                                             *)
(***************************************************************************)
Drawn == {r \in Revisions : revisions[r].job # None}

\* What the desk suggests to sample is a sample an approval is accepted with,
\* whatever the text and the findings on it.
SampleIsAccepted ==
  \A r \in Drawn : ValidateSample(ContentOf(r), Sampling(r).ids, "approve")

\* The preflight's counts and the diff shown later tell the same of a revision.
DiffMatchesSummary ==
  \A from, to \in Revisions :
    MayDiff(from, to) =>
      LET before  == ContentOf(from)
          after   == ContentOf(to)
          summary == Summarize(before, after)
          Count(kind) == Cardinality(SegmentChanges(before, after, kind))
          fields  == summary.textChanged + summary.timingChanged
                       + summary.speakerChanged
      IN
      /\ Count("added") = summary.added
      /\ Count("removed") = summary.removed
      /\ Count("changed") <= fields /\ fields <= 3 * Count("changed")

\* The rules that look at one segment.
SegmentRules ==
  {"EMPTY_TEXT", "DURATION_SHORT", "DURATION_LONG", "LINE_LENGTH", "READING_SPEED"}

\* The two halves of a diff agree once both revisions are checked: where a
\* finding on one segment came or went, the segment is among the changes.
FindingsFollowChanges ==
  \A from, to \in Revisions :
    MayDiff(from, to) /\ batches[from] > 0 /\ batches[to] > 0 =>
      LET changes == FindingChanges(from, to) IN
      \A key \in changes.resolved \cup changes.new :
        key[1] \in SegmentRules =>
          ChangeOf(ContentOf(from), ContentOf(to), key[2]) # "none"

ShownTogether(a, b) ==
  a.time.start < b.time.end /\ b.time.start < a.time.end

\* No release has two captions on the screen together unless somebody looked at
\* an overlap the rules found in it and dismissed it.
NothingShownUnseen ==
  \A j \in Jobs : artifacts[j] # None =>
    LET r == artifacts[j].revision
        content == ContentOf(r)
    IN
    (\E m, n \in DOMAIN content : m # n /\ ShownTogether(content[m], content[n]))
      => \E issue \in FoundIn(r) :
           issue.rule = "OVERLAP" /\ findings[r][issue] = "false_positive"

\* The three readers of a chain come to the same verdict although each stops at
\* a limit of its own.
VerdictWithoutLimit ==
  \A j \in Jobs :
    /\ VerifyAudit(ListAudit(j, IntegrityLimit)) = VerifyAudit(audit[j])
    /\ artifacts[j] # None =>
         \A limit \in {VerifyLimit, RecordLimit} :
           VerifyOnly(j, limit).valid = VerifyRelease(artifacts[j], audit[j])
=============================================================================
