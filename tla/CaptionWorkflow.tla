-------------------------- MODULE CaptionWorkflow --------------------------
(***************************************************************************)
(* The commands of application.Service over the rows it keeps: create a    *)
(* captioning job, submit revisions, run the quality rules, dispose of     *)
(* findings, review, freeze a release and verify it.                       *)
(*                                                                         *)
(* A command runs inside one store transaction, so it is one step here:    *)
(* either every row of it is committed or, when a check fails, none is.    *)
(* Commands of any clients interleave, each with the version its client    *)
(* expects and an idempotency key, any of which may be sent again.  A      *)
(* command that is refused changes nothing and is not a step.              *)
(*                                                                         *)
(* Rows are keyed by the identifiers newID draws.  Clock values, titles,   *)
(* comments, rationales and the actors no rule looks at are left out.      *)
(***************************************************************************)
EXTENDS CaptionDomain

CONSTANTS
  Jobs,         \* identifiers newID("job") may draw
  Revisions,    \* identifiers newID("rev") may draw
  Keys,         \* idempotency keys that validateKey accepts
  MaxBatch,     \* the most findings one batch command may name: 100 in code
  MaxVersion,   \* bound: a job is not written to beyond this version
  MaxReceipts   \* bound: preflights, and previews, that clients hold

ASSUME WorkflowAssumption ==
  /\ None \notin Jobs /\ None \notin Revisions
  /\ IsFiniteSet(Revisions)
  /\ MaxBatch \in Nat /\ MaxVersion \in Nat /\ MaxReceipts \in Nat

VARIABLES
  jobs,          \* caption_jobs; status "absent" is an id not drawn yet
  revisions,     \* caption_revisions; job None is an id not drawn yet
  findings,      \* quality_findings: for each revision, a row per issue
  batches,       \* quality_check_batches: how many name the revision
  reviews,       \* review_decisions of a job, oldest first
  artifacts,     \* release_artifacts: the job's release, or None
  verifications, \* verification_records of a job, oldest first
  audit,         \* audit_events of a job, oldest first
  idempotency,   \* idempotency_records: the effect a key already had
  preflights,    \* answers of PreflightRevision that clients hold
  previews       \* answers of FreezePreview that clients hold

evidence == <<revisions, findings, batches, reviews, artifacts, verifications>>
ledger   == <<jobs, audit, idempotency>>
receipts == <<preflights, previews>>
vars     == <<evidence, ledger, receipts>>

\* The operation column of idempotency_records.  Each operation writes one
\* type of audit event, named here by the operation.
Ops == {"create_job", "submit_revision", "run_quality", "disposition_finding",
        "batch_disposition", "review", "freeze", "verify"}

AbsentJob == [status |-> "absent", profile |-> None, current |-> None,
              version |-> 0]

AbsentRevision == [job |-> None, parent |-> None, sequence |-> 0,
                   author |-> None, content |-> None]

Init ==
  /\ jobs          = [j \in Jobs |-> AbsentJob]
  /\ revisions     = [r \in Revisions |-> AbsentRevision]
  /\ findings      = [r \in Revisions |-> [i \in Issues |-> "absent"]]
  /\ batches       = [r \in Revisions |-> 0]
  /\ reviews       = [j \in Jobs |-> <<>>]
  /\ artifacts     = [j \in Jobs |-> None]
  /\ verifications = [j \in Jobs |-> <<>>]
  /\ audit         = [j \in Jobs |-> <<>>]
  /\ idempotency   = [op \in Ops |-> [k \in Keys |-> None]]
  /\ preflights    = {}
  /\ previews      = {}
----------------------------------------------------------------------------
(***************************************************************************)
(* What the commands share.                                                *)
(***************************************************************************)
Current(j) == jobs[j].current

ContentOf(r) == revisions[r].content

RevisionsOf(j) == {r \in Revisions : revisions[r].job = j}

AnyStatus(j) == TRUE

EnsureMutable(j) == jobs[j].status # "frozen"

KeyNeverLookedUp(op, key) == TRUE

KeyUnused(op, key) == idempotency[op][key] = None

\* UpdateJob repeats the test of expectVersion in its WHERE clause.
ExpectVersion(j, expected) == jobs[j].version = expected

\* The head of a command on an existing job, before its own checks.
Admit(op, j, expected, key) ==
  /\ KeyUnused(op, key)
  /\ jobs[j].status # "absent"
  /\ ExpectVersion(j, expected)
  /\ jobs[j].version < MaxVersion

ForgetKey(op, key, j, version) == idempotency

ForgetFreeze(op, key, j, version) ==
  IF op = "freeze" THEN idempotency
  ELSE [idempotency EXCEPT ![op][key] = [job |-> j, version |-> version]]

RememberKey(op, key, j, version) ==
  [idempotency EXCEPT ![op][key] = [job |-> j, version |-> version]]

ChainToFirst(events, body) ==
  Append(events, AuditEvent(IF events = <<>> THEN <<>> ELSE events[1].digest,
                            body))

AppendAudit(events, body) == Append(events, AuditEvent(ChainHead(events), body))

\* The tail of a command: the job row with its version raised, the audit
\* event, and the result kept under the key.
Commit(op, j, key, row) ==
  LET version == jobs[j].version + 1 IN
  /\ jobs' = [jobs EXCEPT ![j] = [row EXCEPT !.version = version]]
  /\ audit' = [audit EXCEPT ![j] = AppendAudit(@, AuditBody(j, op))]
  /\ idempotency' = RememberKey(op, key, j, version)
----------------------------------------------------------------------------
(***************************************************************************)
(* Jobs and revisions.                                                     *)
(***************************************************************************)
CreateJob(j, key) ==
  /\ KeyUnused("create_job", key)
  /\ jobs[j].status = "absent"
  /\ \E profile \in Profiles :
       Commit("create_job", j, key,
              [AbsentJob EXCEPT !.status = "draft", !.profile = profile])
  /\ UNCHANGED <<evidence, receipts>>

NextSequence(j) == Cardinality(RevisionsOf(j)) + 1

NewRevisionOfMutable(j, parent) == EnsureMutable(j)

\* The first revision has no parent, a later one follows the current one.
ValidateNewRevision(j, parent) ==
  /\ EnsureMutable(j)
  /\ IF Current(j) = None
     THEN parent = None /\ NextSequence(j) = 1
     ELSE parent = Current(j) /\ NextSequence(j) >= 2

ParentContent(parent) == IF parent = None THEN <<>> ELSE ContentOf(parent)

\* A submission that quotes a preflight repeats its digest and, unless the
\* client leaves the version out, the version it was computed at.
PreflightAccepted(j, parent, content, receipt, quotesVersion) ==
  /\ quotesVersion => receipt.version = jobs[j].version
  /\ Summarize(ParentContent(parent), content) = receipt.digest

SubmitRevision(j, expected, key) ==
  /\ Admit("submit_revision", j, expected, key)
  /\ \E r \in Revisions, parent \in Revisions \cup {None},
        author \in People, content \in Contents :
       /\ revisions[r].job = None
       /\ ValidateNewRevision(j, parent)
       /\ \E quoted \in preflights \cup {None}, quotesVersion \in BOOLEAN :
            quoted # None =>
              PreflightAccepted(j, parent, content, quoted, quotesVersion)
       /\ revisions' = [revisions EXCEPT ![r] =
            [job |-> j, parent |-> parent, sequence |-> NextSequence(j),
             author |-> author, content |-> content]]
       /\ Commit("submit_revision", j, key,
                 [jobs[j] EXCEPT
                    !.current = r,
                    !.status = IF NextSequence(j) > 1
                               THEN "remediating" ELSE "draft"])
  /\ UNCHANGED <<findings, batches, reviews, artifacts, verifications, receipts>>

\* Read only: tells a client what submitting these segments would change.
PreflightRevision(j, expected) ==
  /\ jobs[j].status # "absent"
  /\ ExpectVersion(j, expected)
  /\ Cardinality(preflights) < MaxReceipts
  /\ \E parent \in Revisions \cup {None}, content \in Contents :
       /\ ValidateNewRevision(j, parent)
       /\ preflights' = preflights \cup
            {[job |-> j, parent |-> parent, content |-> content,
              version |-> jobs[j].version,
              digest |-> Summarize(ParentContent(parent), content)]}
  /\ UNCHANGED <<evidence, ledger, previews>>
----------------------------------------------------------------------------
(***************************************************************************)
(* Quality findings and their dispositions.                                *)
(***************************************************************************)
\* RunQuality looks for rows of an earlier run, not for the run itself.
NoFindings(r) == \A i \in Issues : findings[r][i] = "absent"

RunWithoutRules(j, expected, key) ==
  LET r == Current(j) IN
  /\ Admit("run_quality", j, expected, key)
  /\ EnsureMutable(j)
  /\ r # None
  /\ batches' = [batches EXCEPT ![r] = @ + 1]
  /\ Commit("run_quality", j, key, [jobs[j] EXCEPT !.status = "review_ready"])
  /\ UNCHANGED <<revisions, findings, reviews, artifacts, verifications, receipts>>

RunQuality(j, expected, key) ==
  LET r == Current(j)
      rows == FindingRows(jobs[j].profile, ContentOf(r))
  IN
  /\ Admit("run_quality", j, expected, key)
  /\ EnsureMutable(j)
  /\ r # None
  /\ NoFindings(r)
  /\ jobs[j].profile \in KnownProfiles
  /\ findings' = [findings EXCEPT ![r] = rows]
  /\ batches' = [batches EXCEPT ![r] = @ + 1]
  /\ Commit("run_quality", j, key,
            [jobs[j] EXCEPT !.status = StatusAfterFindings(rows)])
  /\ UNCHANGED <<revisions, reviews, artifacts, verifications, receipts>>

\* The rows once each named issue has its new disposition.
Resolved(rows, chosen) ==
  [i \in Issues |-> IF i \in DOMAIN chosen THEN chosen[i] ELSE rows[i]]

\* Writes dispositions chosen for findings of the current revision, reads the
\* rows back and leaves the job in the status they call for.
Dispose(op, j, key, chosen) ==
  LET r == Current(j)
      rows == Resolved(findings[r], chosen)
  IN
  /\ r # None
  /\ \A i \in DOMAIN chosen : ValidateDisposition(findings[r][i], chosen[i])
  /\ findings' = [findings EXCEPT ![r] = rows]
  /\ Commit(op, j, key, [jobs[j] EXCEPT !.status = StatusAfterFindings(rows)])
  /\ UNCHANGED <<revisions, batches, reviews, artifacts, verifications, receipts>>

DispositionFinding(j, expected, key) ==
  /\ Admit("disposition_finding", j, expected, key)
  /\ EnsureMutable(j)
  /\ \E i \in Issues : \E chosen \in [{i} -> Resolutions] :
       Dispose("disposition_finding", j, key, chosen)

\* Unlike its single form, the batch does not ask whether the job is frozen.
BatchDisposition(j, expected, key) ==
  /\ Admit("batch_disposition", j, expected, key)
  /\ \E named \in SUBSET Issues :
       /\ Cardinality(named) \in 1..MaxBatch
       /\ \E chosen \in [named -> Resolutions] :
            Dispose("batch_disposition", j, key, chosen)
----------------------------------------------------------------------------
(***************************************************************************)
(* Review and release.                                                     *)
(***************************************************************************)
ReviewedByAnyone(j, reviewer) == jobs[j].status = "review_ready"

\* Who may review what: ValidateReview's checks of the job and its author.
MayReview(j, reviewer) ==
  /\ jobs[j].status = "review_ready"
  /\ reviewer # revisions[Current(j)].author
  /\ FindingsPermitReview(findings[Current(j)])

DecisionAsStatus(decision) == decision

StatusAfterReview(decision) ==
  IF decision = "approve" THEN "approved" ELSE "remediating"

Review(j, expected, key) ==
  /\ Admit("review", j, expected, key)
  /\ Current(j) # None
  /\ \E reviewer \in People, decision \in Decisions,
        sample \in SUBSET SegmentIDs(ContentOf(Current(j))) :
       /\ MayReview(j, reviewer)
       /\ ValidateSample(ContentOf(Current(j)), sample, decision)
       /\ reviews' = [reviews EXCEPT ![j] = Append(@,
            [revision |-> Current(j), reviewer |-> reviewer,
             sample |-> sample, decision |-> decision])]
       /\ Commit("review", j, key,
                 [jobs[j] EXCEPT !.status = StatusAfterReview(decision)])
  /\ UNCHANGED <<revisions, findings, batches, artifacts, verifications, receipts>>

LastReviewer(j) ==
  IF reviews[j] = <<>> THEN None ELSE reviews[j][Len(reviews[j])].reviewer

NothingUnresolved(r) ==
  \A i \in Issues : findings[r][i] \notin {"open", "needs_fix"}

DigestWithoutHead(j) == <<ContentOf(Current(j)), LastReviewer(j)>>

\* What FreezePreview hashes and Freeze hashes again.
ConfirmationDigest(j) ==
  <<ContentOf(Current(j)), ChainHead(audit[j]), LastReviewer(j)>>

ConfirmationAccepted(j, preview) ==
  /\ preview.digest = ConfirmationDigest(j)
  /\ NothingUnresolved(Current(j))

ReviewReadyOrApproved(j) == jobs[j].status \in {"review_ready", "approved"}

ValidateFreeze(j) == jobs[j].status = "approved"

\* Read only: what a publisher is asked to confirm.
FreezePreview(j, expected) ==
  /\ jobs[j].status # "absent"
  /\ ExpectVersion(j, expected)
  /\ Cardinality(previews) < MaxReceipts
  /\ ValidateFreeze(j)
  /\ Current(j) # None
  /\ previews' = previews \cup
       {[job |-> j, version |-> jobs[j].version, revision |-> Current(j),
         digest |-> ConfirmationDigest(j)]}
  /\ UNCHANGED <<evidence, ledger, preflights>>

BuildManifest(r, head) ==
  [revision |-> r, content |-> ContentOf(r), head |-> head]

Freeze(j, expected, key) ==
  LET r == Current(j)
      head == ChainHead(audit[j])
  IN
  /\ Admit("freeze", j, expected, key)
  /\ ValidateFreeze(j)
  /\ r # None
  /\ \E confirmed \in previews \cup {None} :
       confirmed # None => ConfirmationAccepted(j, confirmed)
  /\ artifacts[j] = None
  /\ artifacts' = [artifacts EXCEPT ![j] =
       [revision |-> r, track |-> WebVTT[ContentOf(r)],
        manifest |-> BuildManifest(r, head), head |-> head,
        status |-> "pending"]]
  /\ Commit("freeze", j, key, [jobs[j] EXCEPT !.status = "frozen"])
  /\ UNCHANGED <<revisions, findings, batches, reviews, verifications, receipts>>

VerifyRelease(artifact, events) ==
  /\ artifact.track = WebVTT[ContentOf(artifact.revision)]
  /\ artifact.manifest.revision = artifact.revision
  /\ artifact.manifest.content = ContentOf(artifact.revision)
  /\ VerifyAudit(events)
  /\ artifact.manifest.head = artifact.head

\* The head VerifyAudit returns, "" when the chain does not verify.
VerifiedHead(events) == IF VerifyAudit(events) THEN ChainHead(events) ELSE <<>>

\* Raises the version of a frozen job, and appends to its chain.
VerifyAndRecord(j, expected, key) ==
  /\ Admit("verify", j, expected, key)
  /\ artifacts[j] # None
  /\ LET valid == VerifyRelease(artifacts[j], audit[j]) IN
       /\ verifications' = [verifications EXCEPT ![j] = Append(@,
            [valid |-> valid, head |-> VerifiedHead(audit[j])])]
       /\ artifacts' = [artifacts EXCEPT ![j].status =
            IF valid THEN "verified" ELSE "failed"]
  /\ Commit("verify", j, key, jobs[j])
  /\ UNCHANGED <<revisions, findings, batches, reviews, receipts>>
----------------------------------------------------------------------------
\* A command sent again under a key that had its effect is answered with the
\* result kept for the key, whatever job or version it names.
Replay(op, key) ==
  /\ idempotency[op][key] # None
  /\ UNCHANGED vars

Command(j, expected, key) ==
  \/ SubmitRevision(j, expected, key)
  \/ RunQuality(j, expected, key)
  \/ DispositionFinding(j, expected, key)
  \/ BatchDisposition(j, expected, key)
  \/ Review(j, expected, key)
  \/ Freeze(j, expected, key)
  \/ VerifyAndRecord(j, expected, key)

Inquiry(j, expected) ==
  \/ PreflightRevision(j, expected)
  \/ FreezePreview(j, expected)

Next ==
  \/ \E j \in Jobs, key \in Keys : CreateJob(j, key)
  \/ \E j \in Jobs, expected \in 1..MaxVersion, key \in Keys :
       Command(j, expected, key)
  \/ \E j \in Jobs, expected \in 1..MaxVersion : Inquiry(j, expected)
  \/ \E op \in Ops, key \in Keys : Replay(op, key)

Spec == Init /\ [][Next]_vars
----------------------------------------------------------------------------
(***************************************************************************)
(* Properties.                                                             *)
(***************************************************************************)
Digests == Seq([job : Jobs, type : Ops])

AuditEvents == [body : [job : Jobs, type : Ops], prev : Digests, digest : Digests]

JobRows == [status  : Statuses \cup {"absent"}, profile : Profiles \cup {None},
            current : Revisions \cup {None},    version : Nat]

RevisionRows ==
  [job : Jobs, parent : Revisions \cup {None}, sequence : Nat,
   author : People, content : Contents]

SegmentNames == UNION {SegmentIDs(c) : c \in Contents}

ReviewRows == [revision : Revisions, reviewer : People,
               sample : SUBSET SegmentNames, decision : Decisions]

ArtifactRows ==
  [revision : Revisions, track : {WebVTT[c] : c \in Contents}, head : Digests,
   manifest : [revision : Revisions, content : Contents, head : Digests],
   status : {"pending", "verified", "failed"}]

EffectRows == [job : Jobs, version : Nat]

\* A missing row is none of the rows that could be there.
ASSUME NoneIsNoRow ==
  /\ None \notin ArtifactRows /\ None \notin EffectRows
  /\ None \notin [content : Contents, author : People]

VerificationRows == [valid : BOOLEAN, head : Digests]

\* Every row has the shape its table and its Go type give it.
LedgerTypeOK ==
  /\ jobs \in [Jobs -> JobRows]
  /\ audit \in [Jobs -> Seq(AuditEvents)]
  /\ idempotency \in [Ops -> [Keys -> {None} \cup EffectRows]]

EvidenceTypeOK ==
  /\ revisions \in [Revisions -> {AbsentRevision} \cup RevisionRows]
  /\ findings \in [Revisions -> [Issues -> Dispositions]]
  /\ batches \in [Revisions -> Nat]
  /\ reviews \in [Jobs -> Seq(ReviewRows)]
  /\ artifacts \in [Jobs -> {None} \cup ArtifactRows]
  /\ verifications \in [Jobs -> Seq(VerificationRows)]

TypeOK == LedgerTypeOK /\ EvidenceTypeOK

PastGate(j) ==
  jobs[j].status \in {"review_ready", "approved", "frozen"} =>
    /\ Current(j) # None
    /\ batches[Current(j)] > 0
    /\ FindingsPermitReview(findings[Current(j)])

\* A job that is up for review, approved or frozen has a current revision that
\* the rules were run on, with every finding disposed of, none left to fix and
\* no blocking one standing.  Status and findings are written apart, by four
\* commands, and BatchDisposition does not look at the status at all.
ReviewGate == \A j \in Jobs : PastGate(j)

\* The last decision on the job approved its current revision, by somebody
\* other than its author and over a sample that covers it.
PassedReview(j) ==
  LET last == reviews[j][Len(reviews[j])] IN
  /\ Current(j) # None
  /\ reviews[j] # <<>>
  /\ last.revision = Current(j)
  /\ last.decision = "approve"
  /\ last.reviewer # revisions[Current(j)].author
  /\ ValidateSample(ContentOf(Current(j)), last.sample, "approve")

ReleaseStands(j) ==
  /\ jobs[j].status \in {"approved", "frozen"} => PassedReview(j)
  /\ jobs[j].status = "frozen" <=> artifacts[j] # None
  /\ artifacts[j] # None =>
       /\ artifacts[j].revision = Current(j)
       /\ artifacts[j].track = WebVTT[ContentOf(Current(j))]

\* A job is frozen exactly when it has a release; the release is the track of
\* its current revision, and that revision passed a review that still stands.
ReleaseWasReviewed == \A j \in Jobs : ReleaseStands(j)

RevisionsLinked(j) ==
  LET n == Cardinality(RevisionsOf(j)) IN
  /\ {revisions[r].sequence : r \in RevisionsOf(j)} = 1..n
  /\ \A r \in RevisionsOf(j) :
       IF revisions[r].sequence = 1
       THEN revisions[r].parent = None
       ELSE /\ revisions[r].parent \in RevisionsOf(j)
            /\ revisions[revisions[r].parent].sequence
                 = revisions[r].sequence - 1
  /\ IF n = 0
     THEN Current(j) = None
     ELSE Current(j) \in RevisionsOf(j) /\ revisions[Current(j)].sequence = n

\* The revisions of a job are numbered 1, 2, ... without gaps or repeats, each
\* the child of the one before, and the last is current.  Sequence numbers are
\* counted from the rows, parents come from the client.
RevisionChain == \A j \in Jobs : RevisionsLinked(j)

MadeBy(j, n, op, key) == idempotency[op][key] = [job |-> j, version |-> n]

\* Every version of a job was made by one command: its audit event at that
\* position, and exactly one idempotency record, of that operation.  So no key
\* takes effect twice, on one job or on two, and no effect is left without the
\* record that would answer its retry.
OneEffectPerKey ==
  \A j \in Jobs :
    /\ Len(audit[j]) = jobs[j].version
    /\ \A n \in 1..jobs[j].version : \E op \in Ops, key \in Keys :
         /\ MadeBy(j, n, op, key)
         /\ op = audit[j][n].body.type
         /\ \A other \in Ops, k \in Keys :
              MadeBy(j, n, other, k) => other = op /\ k = key

\* A job of a profile that has no rules stays in drafting, with no run, no
\* finding, no review and no release: it is created without a look at the
\* profile, and no later command gets it past the run of the rules.
NothingWithoutRules ==
  \A j \in Jobs : jobs[j].status # "absent" /\ jobs[j].profile \notin KnownProfiles =>
    /\ jobs[j].status \in {"draft", "remediating"}
    /\ reviews[j] = <<>> /\ artifacts[j] = None
    /\ \A r \in RevisionsOf(j) : batches[r] = 0 /\ NoFindings(r)

VerdictsStand(j) ==
  \A n \in DOMAIN verifications[j] :
    /\ verifications[j][n].valid
    /\ \E m \in 1..Len(audit[j]) : verifications[j][n].head = audit[j][m].prev

ReleaseVerifies(j) ==
  artifacts[j] # None =>
    VerifyRelease(artifacts[j], audit[j]) /\ artifacts[j].status # "failed"

\* The chain of every job verifies and so does every release, at any version
\* after the freeze: its manifest holds the head the freeze was chained to, not
\* the head at the time of verification.  Every verdict so far was good, and
\* names a head that a later event of the job is chained to.
ReleasesVerify ==
  \A j \in Jobs :
    VerifyAudit(audit[j]) /\ VerdictsStand(j) /\ ReleaseVerifies(j)

\* A release confirmation is bound to the job and version it was previewed at,
\* although the digest the client returns names neither.
ConfirmationBindsVersion ==
  \A preview \in previews, j \in Jobs :
    ValidateFreeze(j) /\ ConfirmationAccepted(j, preview) =>
      /\ preview.job = j
      /\ preview.version = jobs[j].version
      /\ preview.revision = Current(j)

\* The current revision of a job is one of its own.
CurrentOwned ==
  \A j \in Jobs : Current(j) # None => revisions[Current(j)].job = j

\* Findings come from a run of the rules.
FindingsFromRuns == \A r \in Revisions : NoFindings(r) \/ batches[r] > 0

\* What a step needs of the state before it for these to hold after it.
IInv ==
  /\ TypeOK
  /\ CurrentOwned
  /\ FindingsFromRuns
  /\ ReviewGate
  /\ ReleaseWasReviewed

KeepsFrozen(j) ==
  jobs[j].status = "frozen" =>
    /\ jobs'[j] = [jobs[j] EXCEPT !.version = jobs'[j].version]
    /\ reviews'[j] = reviews[j]
    /\ artifacts'[j] = [artifacts[j] EXCEPT !.status = artifacts'[j].status]
    /\ RevisionsOf(j)' = RevisionsOf(j)
    /\ \A r \in RevisionsOf(j) :
         /\ revisions'[r] = revisions[r]
         /\ findings'[r] = findings[r]
         /\ batches'[r] = batches[r]

\* Once a job is frozen no command changes the evidence behind its release:
\* its revisions, findings, checks, reviews, and the release itself but for
\* the verification status.
FrozenEvidenceKept == [][\A j \in Jobs : KeepsFrozen(j)]_vars

Extends(longer, shorter) ==
  /\ Len(shorter) <= Len(longer)
  /\ \A n \in 1..Len(shorter) : longer[n] = shorter[n]

RevisionKept(r) ==
  /\ revisions[r].job # None => revisions'[r] = revisions[r]
  /\ \A i \in Issues :
       /\ findings[r][i] \in Resolutions => findings'[r][i] = findings[r][i]
       /\ findings[r][i] = "open" => findings'[r][i] # "absent"

LogsExtended(j) ==
  /\ Extends(reviews'[j], reviews[j])
  /\ Extends(verifications'[j], verifications[j])
  /\ Extends(audit'[j], audit[j])

ResultsKept ==
  \A op \in Ops, key \in Keys :
    idempotency[op][key] # None => idempotency'[op][key] = idempotency[op][key]

EvidenceGrows ==
  /\ \A r \in Revisions : RevisionKept(r)
  /\ \A j \in Jobs : LogsExtended(j)
  /\ ResultsKept

\* Evidence is only added to: a revision is never rewritten, a finding is
\* disposed of once and never deleted, reviews, verifications and audit events
\* are appended, and the result kept for a key never changes.
EvidenceAppendOnly == [][EvidenceGrows]_vars
----------------------------------------------------------------------------
(***************************************************************************)
(* The commands implement the lifecycle of a caption.                      *)
(***************************************************************************)
Phase(status) ==
  CASE status = "absent"                    -> "unknown"
    [] status \in {"draft", "remediating"} -> "writing"
    [] status = "review_ready"              -> "examined"
    [] status = "approved"                  -> "passed"
    [] status = "frozen"                    -> "published"

TextOf(j) ==
  IF Current(j) = None THEN None
  ELSE [content |-> ContentOf(Current(j)),
        author  |-> revisions[Current(j)].author]

PassedByOf(j) ==
  IF jobs[j].status \in {"approved", "frozen"} THEN LastReviewer(j) ELSE None

TrackOf(j) == IF artifacts[j] = None THEN None ELSE artifacts[j].track

Phases      == [j \in Jobs |-> Phase(jobs[j].status)]
WorkingText == [j \in Jobs |-> TextOf(j)]
Passers     == [j \in Jobs |-> PassedByOf(j)]
Tracks      == [j \in Jobs |-> TrackOf(j)]

Lifecycle == INSTANCE CaptionLifecycle WITH
  phase <- Phases, text <- WorkingText, passedBy <- Passers, track <- Tracks

\* Whatever order commands arrive in, what users see is a text written by one
\* person, passed by another and published unchanged, for good.
ImplementsLifecycle == Lifecycle!Spec

\* A key is looked up within its operation.
Versions == [j \in Jobs |-> jobs[j].version]
Results  == [p \in Ops \X Keys |-> idempotency[p[1]][p[2]]]

Ledger == INSTANCE SerialLedger WITH
  Keys <- Ops \X Keys, First <- 0, version <- Versions, result <- Results

\* Whatever a command does, to the ledger it is one step of one job under a key
\* not used before; every other step leaves all versions and results alone.
ImplementsLedger == Ledger!Spec
----------------------------------------------------------------------------
(***************************************************************************)
(* What the program's texts say and its code does not do.                  *)
(***************************************************************************)

\* "The job and its evidence cannot be modified once frozen": taken at its
\* word, neither the job row nor the release row changes.
FrozenJobImmutable ==
  [][\A j \in Jobs : jobs[j].status = "frozen" =>
       /\ jobs'[j] = jobs[j]
       /\ artifacts'[j] = artifacts[j]]_vars

\* "The current revision has already been checked": the refusal that is to
\* keep the rules from being run twice on a revision.
QualityOncePerRevision == \A r \in Revisions : batches[r] <= 1

\* "The submitted content does not match the preflight": a submission that
\* quotes a preflight of this version carries the content that was checked.
PreflightBindsContent ==
  \A receipt \in preflights, content \in Contents :
    LET j == receipt.job IN
    ValidateNewRevision(j, receipt.parent)
      /\ PreflightAccepted(j, receipt.parent, content, receipt, TRUE)
    => content = receipt.content
============================================================================
