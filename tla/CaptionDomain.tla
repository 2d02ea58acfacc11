--------------------------- MODULE CaptionDomain ---------------------------
(***************************************************************************)
(* The domain rules of the caption audit desk, as pure operators: which    *)
(* findings let a revision go to review, what a disposition, a review and  *)
(* a new revision must satisfy, how two segment lists are summarised, and  *)
(* the digest of an audit event.  They are the functions of                *)
(* internal/domain and internal/evidence that the service calls inside     *)
(* its transactions; the state they are applied to is in CaptionWorkflow.  *)
(*                                                                         *)
(* Cryptographic digests are perfect: the digest of a text is a value that *)
(* determines the text, so two digests are equal exactly when the digested *)
(* texts are.                                                              *)
(***************************************************************************)
EXTENDS Integers, Sequences, FiniteSets

CONSTANTS
  None,          \* the empty identifier, and a row that is not there
  People,        \* editors, reviewers, publishers and verifiers
  Contents,      \* segment lists that ValidateSegments accepts
  Profiles,      \* profile codes a job may name
  KnownProfiles, \* the codes that RuleSetForProfile recognises
  Issues,        \* (rule, segment) pairs that a check can report
  Blocking,      \* the issues whose rule has severity "blocking"
  Evaluate,      \* what the rules of a profile report on a segment list
  WebVTT         \* the WebVTT track built from a segment list

ASSUME DomainAssumption ==
  /\ None \notin People /\ None \notin Contents /\ None \notin Profiles
  /\ KnownProfiles \subseteq Profiles
  /\ Blocking \subseteq Issues
  /\ Evaluate \in [KnownProfiles \X Contents -> SUBSET Issues]
  /\ Contents \subseteq DOMAIN WebVTT

Statuses == {"draft", "remediating", "review_ready", "approved", "frozen"}

\* A finding is a row of the pair (revision, issue); "absent" is no row.
Resolutions  == {"confirmed", "false_positive", "needs_fix"}
Dispositions == {"absent", "open"} \cup Resolutions

Decisions == {"approve", "reject"}
----------------------------------------------------------------------------
(***************************************************************************)
(* Quality findings and the gate to review.                                *)
(***************************************************************************)

\* The weaker test kept beside the gate in quality.go: some blocking finding
\* has not been dismissed as a false positive.
HasBlockingOpen(rows) ==
  \E i \in Blocking : rows[i] \notin {"absent", "false_positive"}

NoBlockingOpen(rows) == ~HasBlockingOpen(rows)

\* Every finding is disposed of, none is left to fix, and every blocking one
\* was dismissed as a false positive.
FindingsPermitReview(rows) ==
  \A i \in Issues :
    /\ rows[i] \notin {"open", "needs_fix"}
    /\ i \in Blocking => rows[i] \in {"absent", "false_positive"}

ReviewReadyAlways(rows) == "review_ready"

\* The status every operation that touches findings leaves the job in.
StatusAfterFindings(rows) ==
  IF FindingsPermitReview(rows) THEN "review_ready" ELSE "remediating"

ValidateDisposition(old, new) == old = "open" /\ new \in Resolutions

\* Findings Evaluate reports become open rows of the checked revision.
FindingRows(profile, content) ==
  [i \in Issues |-> IF i \in Evaluate[profile, content]
                    THEN "open" ELSE "absent"]
----------------------------------------------------------------------------
(***************************************************************************)
(* Segment lists.  A segment is [id, time, speaker, text].                 *)
(***************************************************************************)
SegmentIDs(list) == {list[n].id : n \in DOMAIN list}

SegmentOf(list, id) == list[CHOOSE n \in DOMAIN list : list[n].id = id]

\* The change summary a preflight returns, whose digest covers these counts.
Summarize(before, after) ==
  LET kept == SegmentIDs(before) \cap SegmentIDs(after)
      Changed(field) ==
        Cardinality({id \in kept : SegmentOf(before, id)[field]
                                     # SegmentOf(after, id)[field]})
  IN [added          |-> Cardinality(SegmentIDs(after) \ SegmentIDs(before)),
      removed        |-> Cardinality(SegmentIDs(before) \ SegmentIDs(after)),
      textChanged    |-> Changed("text"),
      timingChanged  |-> Changed("time"),
      speakerChanged |-> Changed("speaker")]

\* What a review's sample must be.  A list with a repeated ID is refused, so
\* a sample is a set.
ValidateSample(content, sample, decision) ==
  LET n == Len(content) IN
  /\ sample # {}
  /\ sample \subseteq SegmentIDs(content)
  /\ decision = "approve" =>
       /\ Cardinality(sample) >= IF n < 3 THEN n ELSE 3
       /\ n > 1 => {content[1].id, content[n].id} \subseteq sample
----------------------------------------------------------------------------
(***************************************************************************)
(* The audit chain.  An event carries the digest of its predecessor and    *)
(* its own digest, computed over that digest and its own fields.  A digest *)
(* is the sequence of bodies it covers; actor, payload and time stay out   *)
(* of the body: the position in its chain already tells an event apart.    *)
(***************************************************************************)
AuditBody(job, type) == [job |-> job, type |-> type]

AuditDigest(prev, body) == Append(prev, body)

AuditEvent(prev, body) ==
  [body |-> body, prev |-> prev, digest |-> AuditDigest(prev, body)]

\* The digest the next event must chain to; <<>> stands for "".
ChainHead(events) ==
  IF events = <<>> THEN <<>> ELSE events[Len(events)].digest

VerifyAudit(events) ==
  \A n \in 1..Len(events) :
    /\ events[n].prev = IF n = 1 THEN <<>> ELSE events[n - 1].digest
    /\ events[n].digest = AuditDigest(events[n].prev, events[n].body)
============================================================================
