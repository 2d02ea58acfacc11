----------------------- MODULE CaptionWorkflowProofs -----------------------
(***************************************************************************)
(* Theorems about CaptionWorkflow, for any set of jobs, revisions, people, *)
(* texts and keys, any rules and any bounds.                               *)
(*                                                                         *)
(* IInv is the inductive invariant.  Its parts lean on each other: a       *)
(* command writes the rows of the current revision, so to know that it     *)
(* leaves other jobs alone takes CurrentOwned; and only ReviewGate keeps   *)
(* BatchDisposition off a frozen job, since it does not look at the        *)
(* status.                                                                 *)
(***************************************************************************)
EXTENDS CaptionWorkflow, FiniteSetTheorems, TLAPS

(***************************************************************************)
(* What the operators return.                                              *)
(***************************************************************************)

\* StatusAfterFindings writes one of two statuses.
LEMMA StatusAfterFindingsType ==
  ASSUME NEW rows
  PROVE  StatusAfterFindings(rows) \in {"review_ready", "remediating"}
  BY DEF StatusAfterFindings

\* Evaluate writes open findings only.
LEMMA FindingRowsType ==
  ASSUME NEW profile, NEW content
  PROVE  FindingRows(profile, content) \in [Issues -> {"absent", "open"}]
  BY DEF FindingRows

\* The digest of a chain of events is a digest.
LEMMA ChainHeadType ==
  ASSUME NEW events \in Seq(AuditEvents)
  PROVE  ChainHead(events) \in Digests
<1>1. CASE events = <<>>
  BY <1>1 DEF ChainHead, Digests
<1>2. CASE events # <<>>
  <2>1. Len(events) \in 1..Len(events)
    BY <1>2
  <2>2. events[Len(events)] \in AuditEvents
    BY <2>1
  <2> QED
    BY <1>2, <2>2 DEF ChainHead, AuditEvents
<1> QED
  BY <1>1, <1>2

\* Appending an event of a job to a chain gives a chain one event longer.
LEMMA AppendAuditType ==
  ASSUME NEW events \in Seq(AuditEvents), NEW j \in Jobs, NEW op \in Ops
  PROVE  AppendAudit(events, AuditBody(j, op)) \in Seq(AuditEvents)
<1>1. ChainHead(events) \in Digests
  BY ChainHeadType
<1>2. AuditBody(j, op) \in [job : Jobs, type : Ops]
  BY DEF AuditBody
<1>3. AuditDigest(ChainHead(events), AuditBody(j, op)) \in Digests
  BY <1>1, <1>2 DEF AuditDigest, Digests
<1>4. AuditEvent(ChainHead(events), AuditBody(j, op)) \in AuditEvents
  BY <1>1, <1>2, <1>3 DEF AuditEvent, AuditEvents
<1> QED
  BY <1>4 DEF AppendAudit

\* The tail every command shares keeps the ledger well formed.
LEMMA CommitType ==
  ASSUME LedgerTypeOK,
         NEW op \in Ops, NEW j \in Jobs, NEW key \in Keys, NEW row \in JobRows,
         Commit(op, j, key, row)
  PROVE  LedgerTypeOK'
<1>1. jobs[j].version + 1 \in Nat
  BY DEF LedgerTypeOK, JobRows
<1>2. [row EXCEPT !.version = jobs[j].version + 1] \in JobRows
  BY <1>1 DEF JobRows
<1>3. jobs' \in [Jobs -> JobRows]
  BY <1>2 DEF Commit, LedgerTypeOK
<1>4. audit' \in [Jobs -> Seq(AuditEvents)]
  BY AppendAuditType DEF Commit, LedgerTypeOK
<1>5. idempotency' \in [Ops -> [Keys -> {None} \cup EffectRows]]
  BY <1>1 DEF Commit, RememberKey, LedgerTypeOK, EffectRows
<1> QED
  BY <1>3, <1>4, <1>5 DEF LedgerTypeOK
----------------------------------------------------------------------------
(***************************************************************************)
(* Type correctness, with CurrentOwned, which it needs: that a row refers  *)
(* to a text holds because the current revision is a row and not an        *)
(* identifier yet to be drawn.                                             *)
(***************************************************************************)
\* The empty tables are well formed.
LEMMA TypeInit ==
  ASSUME Init
  PROVE  TypeOK /\ CurrentOwned
<1> USE DEF Init
<1>1. AbsentJob \in JobRows
  BY DEF AbsentJob, JobRows
<1>2. <<>> \in Seq(AuditEvents) /\ <<>> \in Seq(ReviewRows)
      /\ <<>> \in Seq(VerificationRows)
  OBVIOUS
<1>3. LedgerTypeOK
  BY <1>1, <1>2 DEF LedgerTypeOK
<1>4. EvidenceTypeOK
  BY <1>2 DEF EvidenceTypeOK, Dispositions
<1>5. CurrentOwned
  BY DEF CurrentOwned, Current, AbsentJob
<1> QED
  BY <1>3, <1>4, <1>5 DEF TypeOK

\* The current revision of a job is a row, with a text and an author.
LEMMA CurrentIsRow ==
  ASSUME TypeOK, CurrentOwned, NEW j \in Jobs, Current(j) # None
  PROVE  /\ Current(j) \in Revisions
         /\ revisions[Current(j)] \in RevisionRows
         /\ revisions[Current(j)].job = j
         /\ ContentOf(Current(j)) \in Contents
         /\ revisions[Current(j)].author \in People
<1>1. Current(j) \in Revisions
  BY DEF Current, TypeOK, LedgerTypeOK, JobRows
<1>2. revisions[Current(j)].job = j
  BY DEF CurrentOwned
<1>3. revisions[Current(j)] # AbsentRevision
  BY <1>2, WorkflowAssumption DEF AbsentRevision
<1>4. revisions[Current(j)] \in RevisionRows
  BY <1>1, <1>3 DEF TypeOK, EvidenceTypeOK
<1> QED
  BY <1>1, <1>2, <1>4 DEF RevisionRows, ContentOf

\* A new job row is well formed and owns no revision yet.
LEMMA CreateJobTypes ==
  ASSUME TypeOK, CurrentOwned, NEW j \in Jobs, NEW key \in Keys,
         CreateJob(j, key)
  PROVE  TypeOK' /\ CurrentOwned'
<1>1. PICK profile \in Profiles :
        Commit("create_job", j, key,
               [AbsentJob EXCEPT !.status = "draft", !.profile = profile])
  BY DEF CreateJob
<1> DEFINE row == [AbsentJob EXCEPT !.status = "draft", !.profile = profile]
<1>2. row \in JobRows
  BY DEF AbsentJob, JobRows, Statuses
<1>3. LedgerTypeOK'
  BY <1>1, <1>2, CommitType DEF TypeOK, Ops
<1>4. EvidenceTypeOK'
  BY DEF CreateJob, evidence, TypeOK, EvidenceTypeOK
<1>5. row.current = None
  BY DEF AbsentJob
<1>6. CurrentOwned'
  BY <1>1, <1>5 DEF CreateJob, Commit, CurrentOwned, Current, evidence,
                    TypeOK, LedgerTypeOK
<1> QED
  BY <1>3, <1>4, <1>6 DEF TypeOK

\* The new revision is a row of its job, and becomes its current one.
LEMMA SubmitRevisionTypes ==
  ASSUME TypeOK, CurrentOwned, NEW j \in Jobs, NEW expected, NEW key \in Keys,
         SubmitRevision(j, expected, key)
  PROVE  TypeOK' /\ CurrentOwned'
<1>1. PICK r \in Revisions, parent \in Revisions \cup {None},
           author \in People, content \in Contents :
        /\ revisions[r].job = None
        /\ revisions' = [revisions EXCEPT ![r] =
             [job |-> j, parent |-> parent, sequence |-> NextSequence(j),
              author |-> author, content |-> content]]
        /\ Commit("submit_revision", j, key,
                  [jobs[j] EXCEPT
                     !.current = r,
                     !.status = IF NextSequence(j) > 1
                                THEN "remediating" ELSE "draft"])
  BY DEF SubmitRevision
<1> DEFINE row == [jobs[j] EXCEPT
                     !.current = r,
                     !.status = IF NextSequence(j) > 1
                                THEN "remediating" ELSE "draft"]
<1>2. NextSequence(j) \in Nat
  <2>1. IsFiniteSet(RevisionsOf(j))
    BY WorkflowAssumption, FS_Subset DEF RevisionsOf
  <2>2. Cardinality(RevisionsOf(j)) \in Nat
    BY <2>1, FS_CardinalityType
  <2> QED
    BY <2>2 DEF NextSequence
<1>3. row \in JobRows
  BY DEF TypeOK, LedgerTypeOK, JobRows, Statuses
<1>4. LedgerTypeOK'
  BY <1>1, <1>3, CommitType DEF TypeOK, Ops
<1>5. [job |-> j, parent |-> parent, sequence |-> NextSequence(j),
       author |-> author, content |-> content] \in RevisionRows
  BY <1>2 DEF RevisionRows
<1>6. revisions' \in [Revisions -> {AbsentRevision} \cup RevisionRows]
  BY <1>1, <1>5 DEF TypeOK, EvidenceTypeOK
<1>7. EvidenceTypeOK'
  BY <1>6 DEF SubmitRevision, TypeOK, EvidenceTypeOK
<1>8. jobs' = [jobs EXCEPT ![j] = [row EXCEPT !.version = jobs[j].version + 1]]
  BY <1>1 DEF Commit
<1>9. row.current = r /\ jobs'[j].current = r
  BY <1>8 DEF TypeOK, LedgerTypeOK, JobRows
<1>10. revisions'[r].job = j
  BY <1>1 DEF TypeOK, EvidenceTypeOK
<1>11. ASSUME NEW k \in Jobs, k # j, jobs'[k].current # None
       PROVE  revisions'[jobs'[k].current].job = k
  <2>1. jobs'[k] = jobs[k]
    BY <1>8, <1>11 DEF TypeOK, LedgerTypeOK
  <2>2. jobs[k].current \in Revisions /\ revisions[jobs[k].current].job = k
    BY <2>1, <1>11, CurrentIsRow DEF Current
  <2>3. jobs[k].current # r
    BY <2>2, <1>1, WorkflowAssumption
  <2> QED
    BY <1>1, <2>1, <2>2, <2>3 DEF TypeOK, EvidenceTypeOK
<1>12. CurrentOwned'
  BY <1>9, <1>10, <1>11 DEF CurrentOwned, Current
<1> QED
  BY <1>4, <1>7, <1>12 DEF TypeOK

\* A command that leaves revisions and the current revision alone.
LEMMA CommitKeepsCurrent ==
  ASSUME TypeOK, CurrentOwned, NEW op, NEW j \in Jobs, NEW key,
         NEW row \in JobRows, row.current = jobs[j].current,
         Commit(op, j, key, row), UNCHANGED revisions
  PROVE  CurrentOwned' /\ \A k \in Jobs : Current(k)' = Current(k)
<1>1. jobs' = [jobs EXCEPT ![j] = [row EXCEPT !.version = jobs[j].version + 1]]
  BY DEF Commit
<1>2. \A k \in Jobs : Current(k)' = Current(k)
  BY <1>1 DEF TypeOK, LedgerTypeOK, JobRows, Current
<1> QED
  BY <1>2 DEF CurrentOwned

\* A job row with another status is a job row of the same current revision.
LEMMA StatusRowType ==
  ASSUME TypeOK, NEW j \in Jobs, NEW status \in Statuses
  PROVE  /\ [jobs[j] EXCEPT !.status = status] \in JobRows
         /\ [jobs[j] EXCEPT !.status = status].current = jobs[j].current
  BY DEF TypeOK, LedgerTypeOK, JobRows

\* The findings of a run are rows, open or absent.
LEMMA RunQualityTypes ==
  ASSUME TypeOK, CurrentOwned, NEW j \in Jobs, NEW expected, NEW key \in Keys,
         RunQuality(j, expected, key)
  PROVE  TypeOK' /\ CurrentOwned'
<1> DEFINE r    == Current(j)
           rows == FindingRows(jobs[j].profile, ContentOf(r))
           row  == [jobs[j] EXCEPT !.status = StatusAfterFindings(rows)]
<1>1. Commit("run_quality", j, key, row)
  BY DEF RunQuality
<1>2. row \in JobRows /\ row.current = jobs[j].current
  <2>1. StatusAfterFindings(rows) \in Statuses
    BY StatusAfterFindingsType DEF Statuses
  <2> QED
    BY <2>1, StatusRowType
<1>3. LedgerTypeOK'
  BY <1>1, <1>2, CommitType DEF TypeOK, Ops
<1>4. rows \in [Issues -> Dispositions]
  BY FindingRowsType DEF Dispositions
<1>5. findings' \in [Revisions -> [Issues -> Dispositions]]
  BY <1>4 DEF RunQuality, TypeOK, EvidenceTypeOK
<1>6. batches' \in [Revisions -> Nat]
  <2>1. batches' = [batches EXCEPT ![r] = @ + 1]
    BY DEF RunQuality
  <2>2. r \in Revisions
    BY CurrentIsRow DEF RunQuality
  <2>3. batches \in [Revisions -> Nat] /\ batches[r] + 1 \in Nat
    BY <2>2 DEF TypeOK, EvidenceTypeOK
  <2> HIDE DEF r
  <2> QED
    BY <2>1, <2>3
<1>7. EvidenceTypeOK'
  BY <1>5, <1>6 DEF RunQuality, TypeOK, EvidenceTypeOK
<1>8. CurrentOwned'
  BY <1>1, <1>2, CommitKeepsCurrent DEF RunQuality
<1> QED
  BY <1>3, <1>7, <1>8 DEF TypeOK

\* Dispositions, single or in a batch, leave rows that are rows.
LEMMA DisposeTypes ==
  ASSUME TypeOK, CurrentOwned, NEW op \in Ops, NEW j \in Jobs,
         NEW key \in Keys, NEW chosen, Dispose(op, j, key, chosen)
  PROVE  TypeOK' /\ CurrentOwned'
<1> DEFINE r    == Current(j)
           rows == Resolved(findings[r], chosen)
           row  == [jobs[j] EXCEPT !.status = StatusAfterFindings(rows)]
<1>1. Commit(op, j, key, row)
  BY DEF Dispose
<1>2. row \in JobRows /\ row.current = jobs[j].current
  <2>1. StatusAfterFindings(rows) \in Statuses
    BY StatusAfterFindingsType DEF Statuses
  <2> QED
    BY <2>1, StatusRowType
<1>3. LedgerTypeOK'
  BY <1>1, <1>2, CommitType DEF TypeOK
<1>4. r \in Revisions
  BY CurrentIsRow DEF Dispose
<1>5. \A i \in DOMAIN chosen : chosen[i] \in Dispositions
  BY DEF Dispose, ValidateDisposition, Dispositions
<1>6. findings[r] \in [Issues -> Dispositions]
  BY <1>4 DEF TypeOK, EvidenceTypeOK
<1>7. rows \in [Issues -> Dispositions]
  BY <1>5, <1>6 DEF Resolved
<1>8. findings' \in [Revisions -> [Issues -> Dispositions]]
  BY <1>7 DEF Dispose, TypeOK, EvidenceTypeOK
<1>9. EvidenceTypeOK'
  BY <1>8 DEF Dispose, TypeOK, EvidenceTypeOK
<1>10. CurrentOwned'
  BY <1>1, <1>2, CommitKeepsCurrent DEF Dispose
<1> QED
  BY <1>3, <1>9, <1>10 DEF TypeOK

\* A review row names the current revision and segments of its text.
LEMMA ReviewTypes ==
  ASSUME TypeOK, CurrentOwned, NEW j \in Jobs, NEW expected, NEW key \in Keys,
         Review(j, expected, key)
  PROVE  TypeOK' /\ CurrentOwned'
<1>1. PICK reviewer \in People, decision \in Decisions,
           sample \in SUBSET SegmentIDs(ContentOf(Current(j))) :
        /\ reviews' = [reviews EXCEPT ![j] = Append(@,
             [revision |-> Current(j), reviewer |-> reviewer,
              sample |-> sample, decision |-> decision])]
        /\ Commit("review", j, key,
                  [jobs[j] EXCEPT !.status = StatusAfterReview(decision)])
  BY DEF Review
<1> DEFINE row == [jobs[j] EXCEPT !.status = StatusAfterReview(decision)]
<1>2. row \in JobRows /\ row.current = jobs[j].current
  <2>1. StatusAfterReview(decision) \in Statuses
    BY DEF StatusAfterReview, Statuses
  <2> QED
    BY <2>1, StatusRowType
<1>3. LedgerTypeOK'
  BY <1>1, <1>2, CommitType DEF TypeOK, Ops
<1>4. Current(j) \in Revisions /\ ContentOf(Current(j)) \in Contents
  BY CurrentIsRow DEF Review
<1>5. sample \in SUBSET SegmentNames
  BY <1>4 DEF SegmentNames
<1>6. [revision |-> Current(j), reviewer |-> reviewer,
       sample |-> sample, decision |-> decision] \in ReviewRows
  BY <1>4, <1>5 DEF ReviewRows
<1>7. reviews' \in [Jobs -> Seq(ReviewRows)]
  BY <1>1, <1>6 DEF TypeOK, EvidenceTypeOK
<1>8. EvidenceTypeOK'
  BY <1>7 DEF Review, TypeOK, EvidenceTypeOK
<1>9. CurrentOwned'
  BY <1>1, <1>2, CommitKeepsCurrent DEF Review
<1> QED
  BY <1>3, <1>8, <1>9 DEF TypeOK

\* The release row holds the track of the text of the current revision.
LEMMA FreezeTypes ==
  ASSUME TypeOK, CurrentOwned, NEW j \in Jobs, NEW expected, NEW key \in Keys,
         Freeze(j, expected, key)
  PROVE  TypeOK' /\ CurrentOwned'
<1> DEFINE r    == Current(j)
           head == ChainHead(audit[j])
           row  == [jobs[j] EXCEPT !.status = "frozen"]
           new  == [revision |-> r, track |-> WebVTT[ContentOf(r)],
                    manifest |-> BuildManifest(r, head), head |-> head,
                    status |-> "pending"]
<1>1. Commit("freeze", j, key, row)
  BY DEF Freeze
<1>2. row \in JobRows /\ row.current = jobs[j].current
  BY StatusRowType DEF Statuses
<1>3. LedgerTypeOK'
  BY <1>1, <1>2, CommitType DEF TypeOK, Ops
<1>4. r \in Revisions /\ ContentOf(r) \in Contents
  BY CurrentIsRow DEF Freeze
<1>5. head \in Digests
  BY ChainHeadType DEF TypeOK, LedgerTypeOK
<1>6. BuildManifest(r, head)
        \in [revision : Revisions, content : Contents, head : Digests]
  BY <1>4, <1>5 DEF BuildManifest
<1>7. WebVTT[ContentOf(r)] \in {WebVTT[c] : c \in Contents}
  BY <1>4
<1>8. new \in ArtifactRows
  BY <1>4, <1>5, <1>6, <1>7 DEF ArtifactRows
<1>9. artifacts' = [artifacts EXCEPT ![j] = new]
  BY DEF Freeze
<1>10. artifacts' \in [Jobs -> {None} \cup ArtifactRows]
  BY <1>8, <1>9 DEF TypeOK, EvidenceTypeOK
<1>11. EvidenceTypeOK'
  BY <1>10 DEF Freeze, TypeOK, EvidenceTypeOK
<1>12. CurrentOwned'
  BY <1>1, <1>2, CommitKeepsCurrent DEF Freeze
<1> QED
  BY <1>3, <1>11, <1>12 DEF TypeOK

\* A verification row, and the release row with its new status.
LEMMA VerifyAndRecordTypes ==
  ASSUME TypeOK, CurrentOwned, NEW j \in Jobs, NEW expected, NEW key \in Keys,
         VerifyAndRecord(j, expected, key)
  PROVE  TypeOK' /\ CurrentOwned'
<1> DEFINE valid == VerifyRelease(artifacts[j], audit[j])
           new   == [valid |-> valid, head |-> VerifiedHead(audit[j])]
<1>1. Commit("verify", j, key, jobs[j])
  BY DEF VerifyAndRecord
<1>2. jobs[j] \in JobRows
  BY DEF TypeOK, LedgerTypeOK
<1>3. LedgerTypeOK'
  BY <1>1, <1>2, CommitType DEF TypeOK, Ops
<1>4. valid \in BOOLEAN
  BY DEF VerifyRelease
<1>5. VerifiedHead(audit[j]) \in Digests
  <2>1. ChainHead(audit[j]) \in Digests
    BY ChainHeadType DEF TypeOK, LedgerTypeOK
  <2> QED
    BY <2>1 DEF VerifiedHead, Digests
<1>6. new \in VerificationRows
  BY <1>4, <1>5 DEF VerificationRows
<1>7. verifications' = [verifications EXCEPT ![j] = Append(@, new)]
  BY DEF VerifyAndRecord
<1>8. verifications' \in [Jobs -> Seq(VerificationRows)]
  BY <1>6, <1>7 DEF TypeOK, EvidenceTypeOK
<1>9. artifacts' = [artifacts EXCEPT ![j].status =
                      IF valid THEN "verified" ELSE "failed"]
  BY DEF VerifyAndRecord
<1>10. artifacts[j] \in ArtifactRows
  BY DEF VerifyAndRecord, TypeOK, EvidenceTypeOK
<1>11. artifacts' \in [Jobs -> {None} \cup ArtifactRows]
  BY <1>9, <1>10 DEF TypeOK, EvidenceTypeOK, ArtifactRows
<1>12. EvidenceTypeOK'
  BY <1>8, <1>11 DEF VerifyAndRecord, TypeOK, EvidenceTypeOK
<1>13. CurrentOwned'
  BY <1>1, <1>2, CommitKeepsCurrent DEF VerifyAndRecord
<1> QED
  BY <1>3, <1>12, <1>13 DEF TypeOK

\* Every command, inquiry and replay keeps the rows well formed.
LEMMA TypeStep ==
  ASSUME TypeOK, CurrentOwned, [Next]_vars
  PROVE  TypeOK' /\ CurrentOwned'
<1>1. CASE UNCHANGED vars
  BY <1>1 DEF vars, evidence, ledger, receipts, TypeOK, LedgerTypeOK,
              EvidenceTypeOK, CurrentOwned, Current
<1>2. ASSUME NEW j \in Jobs, NEW key \in Keys, CreateJob(j, key)
      PROVE  TypeOK' /\ CurrentOwned'
  BY <1>2, CreateJobTypes
<1>3. ASSUME NEW j \in Jobs, NEW expected \in 1..MaxVersion, NEW key \in Keys,
             Command(j, expected, key)
      PROVE  TypeOK' /\ CurrentOwned'
  <2>1. CASE SubmitRevision(j, expected, key)
    BY <2>1, SubmitRevisionTypes
  <2>2. CASE RunQuality(j, expected, key)
    BY <2>2, RunQualityTypes
  <2>3. CASE DispositionFinding(j, expected, key)
    BY <2>3, DisposeTypes DEF DispositionFinding, Ops
  <2>4. CASE BatchDisposition(j, expected, key)
    BY <2>4, DisposeTypes DEF BatchDisposition, Ops
  <2>5. CASE Review(j, expected, key)
    BY <2>5, ReviewTypes
  <2>6. CASE Freeze(j, expected, key)
    BY <2>6, FreezeTypes
  <2>7. CASE VerifyAndRecord(j, expected, key)
    BY <2>7, VerifyAndRecordTypes
  <2> QED
    BY <1>3, <2>1, <2>2, <2>3, <2>4, <2>5, <2>6, <2>7 DEF Command
<1>4. ASSUME NEW j \in Jobs, NEW expected \in 1..MaxVersion, Inquiry(j, expected)
      PROVE  TypeOK' /\ CurrentOwned'
  BY <1>4 DEF Inquiry, PreflightRevision, FreezePreview, evidence, ledger,
              TypeOK, LedgerTypeOK, EvidenceTypeOK, CurrentOwned, Current
<1>5. ASSUME NEW op \in Ops, NEW key \in Keys, Replay(op, key)
      PROVE  TypeOK' /\ CurrentOwned'
  BY <1>1, <1>5 DEF Replay
<1> QED
  BY <1>1, <1>2, <1>3, <1>4, <1>5 DEF Next

\* Every row the commands write has the shape of its table.
THEOREM TypeCorrect == Spec => []TypeOK
<1>1. Init => TypeOK /\ CurrentOwned
  BY TypeInit
<1>2. TypeOK /\ CurrentOwned /\ [Next]_vars => TypeOK' /\ CurrentOwned'
  BY TypeStep
<1> QED
  BY <1>1, <1>2, PTL DEF Spec
----------------------------------------------------------------------------
(***************************************************************************)
(* The gate to review and the release.                                     *)
(***************************************************************************)

\* A command writes the row of its own job only.
LEMMA CommitRow ==
  ASSUME TypeOK, NEW j \in Jobs, NEW row \in JobRows,
         jobs' = [jobs EXCEPT ![j] = [row EXCEPT !.version = jobs[j].version + 1]]
  PROVE  /\ jobs'[j].status = row.status
         /\ jobs'[j].current = row.current
         /\ \A k \in Jobs : k # j => jobs'[k] = jobs[k]
  BY DEF TypeOK, LedgerTypeOK, JobRows

\* The same for a command that only moves its job to another status.
LEMMA CommitStatus ==
  ASSUME TypeOK, NEW op, NEW j \in Jobs, NEW key, NEW status \in Statuses,
         Commit(op, j, key, [jobs[j] EXCEPT !.status = status])
  PROVE  /\ jobs'[j].status = status
         /\ \A k \in Jobs : Current(k)' = Current(k)
         /\ \A k \in Jobs : k # j => jobs'[k] = jobs[k]
<1>1. jobs' = [jobs EXCEPT ![j] = [[jobs[j] EXCEPT !.status = status]
                                     EXCEPT !.version = jobs[j].version + 1]]
  BY DEF Commit
<1> QED
  BY <1>1 DEF TypeOK, LedgerTypeOK, JobRows, Current

\* Two jobs never have the same current revision.
LEMMA CurrentDistinct ==
  ASSUME TypeOK, CurrentOwned, NEW j \in Jobs, NEW k \in Jobs, k # j,
         Current(j) # None
  PROVE  Current(k) # Current(j)
  BY DEF CurrentOwned

\* A job nothing of which was written still stands as it did.
LEMMA JobFrame ==
  ASSUME IInv, NEW k \in Jobs,
         jobs'[k].status = jobs[k].status, Current(k)' = Current(k),
         Current(k) # None =>
           /\ revisions'[Current(k)] = revisions[Current(k)]
           /\ findings'[Current(k)] = findings[Current(k)]
           /\ batches'[Current(k)] = batches[Current(k)],
         reviews'[k] = reviews[k], artifacts'[k] = artifacts[k]
  PROVE  PastGate(k)' /\ ReleaseStands(k)'
<1>1. PastGate(k) /\ ReleaseStands(k)
  BY DEF IInv, ReviewGate, ReleaseWasReviewed
<1>2. PastGate(k)'
  BY <1>1 DEF PastGate
<1>3. Current(k) # None => ContentOf(Current(k))' = ContentOf(Current(k))
  BY DEF ContentOf
<1>4. PassedReview(k) => PassedReview(k)'
  BY <1>3 DEF PassedReview
<1>5. artifacts[k] # None => Current(k) # None
  BY <1>1 DEF ReleaseStands, PassedReview
<1> QED
  BY <1>1, <1>2, <1>3, <1>4, <1>5 DEF ReleaseStands

\* A job that is not frozen has no release.
LEMMA NoRelease ==
  ASSUME IInv, NEW j \in Jobs, jobs[j].status # "frozen"
  PROVE  artifacts[j] = None
  BY DEF IInv, ReleaseWasReviewed, ReleaseStands

\* A job in work, with no release, has nothing to answer for.
LEMMA InWork ==
  ASSUME NEW j \in Jobs, artifacts'[j] = None,
         jobs'[j].status \in {"draft", "remediating"}
  PROVE  PastGate(j)' /\ ReleaseStands(j)'
  BY DEF PastGate, ReleaseStands

\* Creating a job: it starts in work and no other job is touched.
LEMMA CreateJobStands ==
  ASSUME IInv, NEW j \in Jobs, NEW key \in Keys, CreateJob(j, key)
  PROVE  FindingsFromRuns' /\ ReviewGate' /\ ReleaseWasReviewed'
<1>1. PICK profile \in Profiles :
        Commit("create_job", j, key,
               [AbsentJob EXCEPT !.status = "draft", !.profile = profile])
  BY DEF CreateJob
<1> DEFINE row == [AbsentJob EXCEPT !.status = "draft", !.profile = profile]
<1>2. row \in JobRows /\ row.status = "draft"
  BY DEF AbsentJob, JobRows, Statuses
<1>3. jobs'[j].status = "draft" /\ \A k \in Jobs : k # j => jobs'[k] = jobs[k]
  <2>1. jobs' = [jobs EXCEPT ![j] = [row EXCEPT !.version = jobs[j].version + 1]]
    BY <1>1 DEF Commit
  <2> HIDE DEF row
  <2> QED
    BY <1>2, <2>1, CommitRow DEF IInv
<1>4. artifacts'[j] = None
  BY NoRelease DEF CreateJob, evidence
<1>5. PastGate(j)' /\ ReleaseStands(j)'
  BY <1>3, <1>4, InWork
<1>6. ASSUME NEW k \in Jobs, k # j
      PROVE  PastGate(k)' /\ ReleaseStands(k)'
  BY <1>3, <1>6, JobFrame DEF CreateJob, evidence, Current
<1>7. FindingsFromRuns'
  BY DEF IInv, CreateJob, evidence, FindingsFromRuns, NoFindings
<1> QED
  BY <1>5, <1>6, <1>7 DEF ReviewGate, ReleaseWasReviewed

\* A new revision puts its job back in work, and it was not current before.
LEMMA SubmitRevisionStands ==
  ASSUME IInv, NEW j \in Jobs, NEW expected, NEW key \in Keys,
         SubmitRevision(j, expected, key)
  PROVE  FindingsFromRuns' /\ ReviewGate' /\ ReleaseWasReviewed'
<1>1. PICK r \in Revisions, parent \in Revisions \cup {None},
           author \in People, content \in Contents :
        /\ revisions[r].job = None
        /\ ValidateNewRevision(j, parent)
        /\ revisions' = [revisions EXCEPT ![r] =
             [job |-> j, parent |-> parent, sequence |-> NextSequence(j),
              author |-> author, content |-> content]]
        /\ Commit("submit_revision", j, key,
                  [jobs[j] EXCEPT
                     !.current = r,
                     !.status = IF NextSequence(j) > 1
                                THEN "remediating" ELSE "draft"])
  BY DEF SubmitRevision
<1> DEFINE row == [jobs[j] EXCEPT
                     !.current = r,
                     !.status = IF NextSequence(j) > 1
                                THEN "remediating" ELSE "draft"]
<1>2. row \in JobRows /\ row.status \in {"draft", "remediating"}
  BY DEF IInv, TypeOK, LedgerTypeOK, JobRows, Statuses
<1>3. /\ jobs'[j].status \in {"draft", "remediating"}
      /\ \A k \in Jobs : k # j => jobs'[k] = jobs[k]
  <2>1. jobs' = [jobs EXCEPT ![j] = [row EXCEPT !.version = jobs[j].version + 1]]
    BY <1>1 DEF Commit
  <2> HIDE DEF row
  <2> QED
    BY <1>2, <2>1, CommitRow DEF IInv
<1>4. artifacts'[j] = None
  BY <1>1, NoRelease DEF SubmitRevision, ValidateNewRevision, EnsureMutable
<1>5. PastGate(j)' /\ ReleaseStands(j)'
  BY <1>3, <1>4, InWork
<1>6. ASSUME NEW k \in Jobs, k # j
      PROVE  PastGate(k)' /\ ReleaseStands(k)'
  <2>1. jobs'[k].status = jobs[k].status /\ Current(k)' = Current(k)
    BY <1>3, <1>6 DEF Current
  <2>2. Current(k) # None =>
          revisions'[Current(k)] = revisions[Current(k)]
    <3> SUFFICES ASSUME Current(k) # None
                 PROVE  revisions'[Current(k)] = revisions[Current(k)]
      OBVIOUS
    <3>1. Current(k) \in Revisions /\ revisions[Current(k)].job = k
      BY CurrentIsRow DEF IInv
    <3>2. Current(k) # r
      BY <1>1, <3>1, WorkflowAssumption
    <3> QED
      BY <1>1, <3>1, <3>2 DEF IInv, TypeOK, EvidenceTypeOK
  <2> QED
    BY <2>1, <2>2, JobFrame DEF SubmitRevision
<1>7. FindingsFromRuns'
  BY DEF IInv, SubmitRevision, FindingsFromRuns, NoFindings
<1> QED
  BY <1>5, <1>6, <1>7 DEF ReviewGate, ReleaseWasReviewed

\* A job whose findings were written, and its status after them.
LEMMA CheckedStands ==
  ASSUME IInv, NEW op, NEW j \in Jobs, NEW key, NEW rows,
         jobs[j].status # "frozen", Current(j) # None,
         Commit(op, j, key, [jobs[j] EXCEPT !.status = StatusAfterFindings(rows)]),
         findings' = [findings EXCEPT ![Current(j)] = rows],
         batches'[Current(j)] > 0,
         \A r \in Revisions : r # Current(j) => batches'[r] = batches[r],
         UNCHANGED <<revisions, reviews, artifacts>>
  PROVE  FindingsFromRuns' /\ ReviewGate' /\ ReleaseWasReviewed'
<1> DEFINE status == StatusAfterFindings(rows)
<1>1. status \in {"review_ready", "remediating"}
  BY StatusAfterFindingsType
<1>2. /\ jobs'[j].status = status
      /\ \A k \in Jobs : Current(k)' = Current(k)
      /\ \A k \in Jobs : k # j => jobs'[k] = jobs[k]
  BY <1>1, CommitStatus DEF IInv, Statuses
<1>3. Current(j) \in Revisions
  BY CurrentIsRow DEF IInv
<1>4. findings'[Current(j)] = rows
  BY <1>3 DEF IInv, TypeOK, EvidenceTypeOK
<1>5. artifacts'[j] = None
  BY NoRelease
<1>6. PastGate(j)'
  <2>1. status = "review_ready" => FindingsPermitReview(rows)
    BY DEF StatusAfterFindings
  <2>2. FindingsPermitReview(rows) => FindingsPermitReview(findings[Current(j)])'
    BY <1>2, <1>4 DEF FindingsPermitReview
  <2>3. batches[Current(j)]' > 0
    BY <1>2
  <2> HIDE DEF status
  <2> QED
    BY <1>1, <1>2, <2>1, <2>2, <2>3 DEF PastGate
<1>7. ReleaseStands(j)'
  BY <1>1, <1>2, <1>5 DEF ReleaseStands
<1>8. ASSUME NEW k \in Jobs, k # j
      PROVE  PastGate(k)' /\ ReleaseStands(k)'
  <2>1. jobs'[k].status = jobs[k].status /\ Current(k)' = Current(k)
    BY <1>2, <1>8
  <2>2. Current(k) # Current(j)
    BY <1>8, CurrentDistinct DEF IInv
  <2>3. Current(k) # None => Current(k) \in Revisions
    BY CurrentIsRow DEF IInv
  <2>4. Current(k) # None =>
          /\ findings'[Current(k)] = findings[Current(k)]
          /\ batches'[Current(k)] = batches[Current(k)]
    BY <2>2, <2>3 DEF IInv, TypeOK, EvidenceTypeOK
  <2> QED
    BY <2>1, <2>4, JobFrame
<1>9. FindingsFromRuns'
  <2> SUFFICES ASSUME NEW r \in Revisions
               PROVE  NoFindings(r)' \/ batches'[r] > 0
    BY DEF FindingsFromRuns
  <2>1. CASE r = Current(j)
    BY <2>1
  <2>2. CASE r # Current(j)
    <3>1. findings'[r] = findings[r] /\ batches'[r] = batches[r]
      BY <2>2 DEF IInv, TypeOK, EvidenceTypeOK
    <3> QED
      BY <3>1 DEF IInv, FindingsFromRuns, NoFindings
  <2> QED
    BY <2>1, <2>2
<1> QED
  BY <1>6, <1>7, <1>8, <1>9 DEF ReviewGate, ReleaseWasReviewed

\* Running the rules: the job was not frozen, and a check is on record after.
LEMMA RunQualityStands ==
  ASSUME IInv, NEW j \in Jobs, NEW expected, NEW key \in Keys,
         RunQuality(j, expected, key)
  PROVE  FindingsFromRuns' /\ ReviewGate' /\ ReleaseWasReviewed'
<1> DEFINE rows == FindingRows(jobs[j].profile, ContentOf(Current(j)))
<1>1. /\ Commit("run_quality", j, key,
               [jobs[j] EXCEPT !.status = StatusAfterFindings(rows)])
      /\ findings' = [findings EXCEPT ![Current(j)] = rows]
      /\ batches' = [batches EXCEPT ![Current(j)] = @ + 1]
      /\ UNCHANGED <<revisions, reviews, artifacts>>
      /\ jobs[j].status # "frozen"
      /\ Current(j) # None
  BY DEF RunQuality, EnsureMutable
<1> HIDE DEF rows
<1>2. Current(j) \in Revisions
  BY <1>1, CurrentIsRow DEF IInv
<1>3. batches \in [Revisions -> Nat] /\ batches[Current(j)] \in Nat
  BY <1>2 DEF IInv, TypeOK, EvidenceTypeOK
<1>4. /\ batches'[Current(j)] > 0
      /\ \A r \in Revisions : r # Current(j) => batches'[r] = batches[r]
  BY <1>1, <1>2, <1>3
<1> QED
  BY <1>1, <1>4, CheckedStands

\* What a disposition finds open bars the job from review, so it is in work
\* whether the command asks for its status or not.
LEMMA DisposedInWork ==
  ASSUME IInv, NEW op, NEW j \in Jobs, NEW key, NEW chosen,
         DOMAIN chosen # {}, DOMAIN chosen \subseteq Issues,
         Dispose(op, j, key, chosen)
  PROVE  /\ jobs[j].status \notin {"review_ready", "approved", "frozen"}
         /\ batches[Current(j)] > 0
<1>1. PICK i \in Issues : findings[Current(j)][i] = "open"
  BY DEF Dispose, ValidateDisposition
<1>2. ~FindingsPermitReview(findings[Current(j)])
  BY <1>1 DEF FindingsPermitReview
<1>3. ~NoFindings(Current(j))
  BY <1>1 DEF NoFindings
<1>4. Current(j) \in Revisions
  BY CurrentIsRow DEF IInv, Dispose
<1> QED
  BY <1>2, <1>3, <1>4 DEF IInv, ReviewGate, PastGate, FindingsFromRuns

\* A disposition, single or in a batch, finds its job in work.
LEMMA DisposeStands ==
  ASSUME IInv, NEW op, NEW j \in Jobs, NEW key, NEW chosen,
         DOMAIN chosen # {}, DOMAIN chosen \subseteq Issues,
         Dispose(op, j, key, chosen)
  PROVE  FindingsFromRuns' /\ ReviewGate' /\ ReleaseWasReviewed'
<1> DEFINE rows == Resolved(findings[Current(j)], chosen)
<1>1. /\ Commit(op, j, key,
               [jobs[j] EXCEPT !.status = StatusAfterFindings(rows)])
      /\ findings' = [findings EXCEPT ![Current(j)] = rows]
      /\ UNCHANGED <<revisions, batches, reviews, artifacts>>
      /\ Current(j) # None
  BY DEF Dispose
<1>2. jobs[j].status # "frozen" /\ batches[Current(j)] > 0
  BY DisposedInWork
<1> HIDE DEF rows
<1> QED
  BY <1>1, <1>2, CheckedStands

\* A review: an approval is by another person and over a covering sample.
LEMMA ReviewStands ==
  ASSUME IInv, NEW j \in Jobs, NEW expected, NEW key \in Keys,
         Review(j, expected, key)
  PROVE  FindingsFromRuns' /\ ReviewGate' /\ ReleaseWasReviewed'
<1>1. PICK reviewer \in People, decision \in Decisions,
           sample \in SUBSET SegmentIDs(ContentOf(Current(j))) :
        /\ MayReview(j, reviewer)
        /\ ValidateSample(ContentOf(Current(j)), sample, decision)
        /\ reviews' = [reviews EXCEPT ![j] = Append(@,
             [revision |-> Current(j), reviewer |-> reviewer,
              sample |-> sample, decision |-> decision])]
        /\ Commit("review", j, key,
                  [jobs[j] EXCEPT !.status = StatusAfterReview(decision)])
  BY DEF Review
<1>2. StatusAfterReview(decision) \in {"approved", "remediating"}
  BY DEF StatusAfterReview
<1>3. /\ jobs'[j].status = StatusAfterReview(decision)
      /\ \A k \in Jobs : Current(k)' = Current(k)
      /\ \A k \in Jobs : k # j => jobs'[k] = jobs[k]
  BY <1>1, <1>2, CommitStatus DEF IInv, Statuses
<1>4. artifacts'[j] = None
  BY <1>1, NoRelease DEF MayReview, Review
<1>5. PastGate(j)'
  BY <1>1, <1>3 DEF Review, MayReview, IInv, ReviewGate, PastGate
<1>6. decision = "approve" => PassedReview(j)'
  <2> DEFINE new == [revision |-> Current(j), reviewer |-> reviewer,
                     sample |-> sample, decision |-> decision]
  <2>1. reviews[j] \in Seq(ReviewRows)
    BY DEF IInv, TypeOK, EvidenceTypeOK
  <2>2. reviews'[j] = Append(reviews[j], new)
    BY <1>1 DEF IInv, TypeOK, EvidenceTypeOK
  <2>3. reviews'[j] # <<>> /\ reviews'[j][Len(reviews'[j])] = new
    <3> HIDE DEF new
    <3> QED
      BY <2>1, <2>2
  <2>4. /\ Current(j)' = Current(j)
        /\ Current(j) # None
        /\ revisions' = revisions
        /\ ContentOf(Current(j))' = ContentOf(Current(j))
    BY <1>3 DEF Review, ContentOf
  <2>5. reviewer # revisions[Current(j)].author
    BY <1>1 DEF MayReview
  <2> QED
    BY <1>1, <2>3, <2>4, <2>5 DEF PassedReview
<1>7. ReleaseStands(j)'
  BY <1>3, <1>4, <1>6 DEF ReleaseStands, StatusAfterReview, Decisions
<1>8. ASSUME NEW k \in Jobs, k # j
      PROVE  PastGate(k)' /\ ReleaseStands(k)'
  <2>1. reviews'[k] = reviews[k]
    BY <1>1, <1>8 DEF IInv, TypeOK, EvidenceTypeOK
  <2> QED
    BY <1>3, <1>8, <2>1, JobFrame DEF Review
<1>9. FindingsFromRuns'
  BY DEF IInv, Review, FindingsFromRuns, NoFindings
<1> QED
  BY <1>5, <1>7, <1>8, <1>9 DEF ReviewGate, ReleaseWasReviewed

\* Freezing: the release is the track of the text that was approved.
LEMMA FreezeStands ==
  ASSUME IInv, NEW j \in Jobs, NEW expected, NEW key \in Keys,
         Freeze(j, expected, key)
  PROVE  FindingsFromRuns' /\ ReviewGate' /\ ReleaseWasReviewed'
<1> DEFINE new == [revision |-> Current(j), track |-> WebVTT[ContentOf(Current(j))],
                   manifest |-> BuildManifest(Current(j), ChainHead(audit[j])),
                   head |-> ChainHead(audit[j]), status |-> "pending"]
<1>1. /\ jobs[j].status = "approved"
      /\ Commit("freeze", j, key, [jobs[j] EXCEPT !.status = "frozen"])
      /\ artifacts' = [artifacts EXCEPT ![j] = new]
      /\ UNCHANGED <<revisions, findings, batches, reviews>>
  BY DEF Freeze, ValidateFreeze
<1>2. /\ jobs'[j].status = "frozen"
      /\ \A k \in Jobs : Current(k)' = Current(k)
      /\ \A k \in Jobs : k # j => jobs'[k] = jobs[k]
  BY <1>1, CommitStatus DEF IInv, Statuses
<1>3. PastGate(j) /\ PassedReview(j)
  BY <1>1 DEF IInv, ReviewGate, ReleaseWasReviewed, ReleaseStands
<1>4. PastGate(j)'
  BY <1>1, <1>2, <1>3 DEF PastGate
<1>5. ContentOf(Current(j))' = ContentOf(Current(j))
  BY <1>1, <1>2 DEF ContentOf
<1>6. PassedReview(j)'
  BY <1>1, <1>2, <1>3, <1>5 DEF PassedReview
<1>7. artifacts'[j] = new
  <2> HIDE DEF new
  <2> QED
    BY <1>1 DEF IInv, TypeOK, EvidenceTypeOK
<1>8. /\ artifacts'[j] # None
      /\ artifacts'[j].revision = Current(j)
      /\ artifacts'[j].track = WebVTT[ContentOf(Current(j))]
  <2>1. Current(j) \in Revisions /\ ContentOf(Current(j)) \in Contents
    BY CurrentIsRow DEF IInv, Freeze
  <2>2. ChainHead(audit[j]) \in Digests
    BY ChainHeadType DEF IInv, TypeOK, LedgerTypeOK
  <2>3. BuildManifest(Current(j), ChainHead(audit[j]))
          \in [revision : Revisions, content : Contents, head : Digests]
    BY <2>1, <2>2 DEF BuildManifest
  <2>4. WebVTT[ContentOf(Current(j))] \in {WebVTT[c] : c \in Contents}
    BY <2>1
  <2>5. new \in ArtifactRows
    BY <2>1, <2>2, <2>3, <2>4 DEF ArtifactRows
  <2>6. new # None
    <3> HIDE DEF new
    <3> QED
      BY <2>5, NoneIsNoRow
  <2> QED
    BY <1>7, <2>6
<1>9. ReleaseStands(j)'
  BY <1>2, <1>5, <1>6, <1>8 DEF ReleaseStands
<1>10. ASSUME NEW k \in Jobs, k # j
       PROVE  PastGate(k)' /\ ReleaseStands(k)'
  <2>1. artifacts'[k] = artifacts[k]
    BY <1>1, <1>10 DEF IInv, TypeOK, EvidenceTypeOK
  <2> QED
    BY <1>1, <1>2, <1>10, <2>1, JobFrame
<1>11. FindingsFromRuns'
  BY <1>1 DEF IInv, FindingsFromRuns, NoFindings
<1> QED
  BY <1>4, <1>9, <1>10, <1>11 DEF ReviewGate, ReleaseWasReviewed

\* Verifying touches neither status, findings nor reviews of a job.
LEMMA VerifyAndRecordStands ==
  ASSUME IInv, NEW j \in Jobs, NEW expected, NEW key \in Keys,
         VerifyAndRecord(j, expected, key)
  PROVE  FindingsFromRuns' /\ ReviewGate' /\ ReleaseWasReviewed'
<1> DEFINE status == IF VerifyRelease(artifacts[j], audit[j])
                     THEN "verified" ELSE "failed"
<1>1. /\ Commit("verify", j, key, jobs[j])
      /\ artifacts[j] # None
      /\ artifacts' = [artifacts EXCEPT ![j].status = status]
      /\ UNCHANGED <<revisions, findings, batches, reviews>>
  BY DEF VerifyAndRecord
<1>2. \A k \in Jobs : jobs'[k].status = jobs[k].status /\ Current(k)' = Current(k)
  BY <1>1 DEF Commit, IInv, TypeOK, LedgerTypeOK, JobRows, Current
<1>3. artifacts[j] \in ArtifactRows
  BY <1>1 DEF IInv, TypeOK, EvidenceTypeOK
<1>4. /\ artifacts'[j].revision = artifacts[j].revision
      /\ artifacts'[j].track = artifacts[j].track
      /\ artifacts'[j] # None
  <2> HIDE DEF status
  <2>1. status \in {"pending", "verified", "failed"}
    BY DEF status
  <2>2. artifacts'[j] = [artifacts[j] EXCEPT !.status = status]
    BY <1>1 DEF IInv, TypeOK, EvidenceTypeOK
  <2>3. artifacts'[j] \in ArtifactRows
    BY <1>3, <2>1, <2>2 DEF ArtifactRows
  <2> QED
    BY <1>3, <2>2, <2>3, NoneIsNoRow DEF ArtifactRows
<1>5. ReleaseStands(j) /\ PastGate(j)
  BY DEF IInv, ReviewGate, ReleaseWasReviewed
<1>6. PastGate(j)'
  BY <1>1, <1>2, <1>5 DEF PastGate
<1>7. ContentOf(Current(j))' = ContentOf(Current(j))
  BY <1>1, <1>2 DEF ContentOf
<1>8. PassedReview(j) => PassedReview(j)'
  BY <1>1, <1>2, <1>7 DEF PassedReview
<1>9. ReleaseStands(j)'
  BY <1>1, <1>2, <1>4, <1>5, <1>7, <1>8 DEF ReleaseStands
<1>10. ASSUME NEW k \in Jobs, k # j
       PROVE  PastGate(k)' /\ ReleaseStands(k)'
  <2>1. artifacts'[k] = artifacts[k]
    BY <1>1, <1>10 DEF IInv, TypeOK, EvidenceTypeOK
  <2> QED
    BY <1>1, <1>2, <1>10, <2>1, JobFrame
<1>11. FindingsFromRuns'
  BY <1>1 DEF IInv, FindingsFromRuns, NoFindings
<1> QED
  BY <1>6, <1>9, <1>10, <1>11 DEF ReviewGate, ReleaseWasReviewed

\* A step that writes no row leaves every job standing.
LEMMA ReadOnlyStands ==
  ASSUME IInv, UNCHANGED <<evidence, ledger>>
  PROVE  FindingsFromRuns' /\ ReviewGate' /\ ReleaseWasReviewed'
<1>1. ASSUME NEW k \in Jobs
      PROVE  PastGate(k)' /\ ReleaseStands(k)'
  BY <1>1, JobFrame DEF evidence, ledger, Current
<1>2. FindingsFromRuns'
  BY DEF IInv, evidence, FindingsFromRuns, NoFindings
<1> QED
  BY <1>1, <1>2 DEF ReviewGate, ReleaseWasReviewed

\* Every command, inquiry and replay keeps the invariant.
LEMMA InvStep ==
  ASSUME IInv, [Next]_vars
  PROVE  IInv'
<1>1. TypeOK' /\ CurrentOwned'
  BY TypeStep DEF IInv
<1> DEFINE Stands == FindingsFromRuns' /\ ReviewGate' /\ ReleaseWasReviewed'
<1>2. ASSUME UNCHANGED vars
      PROVE  Stands
  BY <1>2, ReadOnlyStands DEF vars
<1>3. ASSUME NEW j \in Jobs, NEW key \in Keys, CreateJob(j, key)
      PROVE  Stands
  BY <1>3, CreateJobStands
<1>4. ASSUME NEW j \in Jobs, NEW expected \in 1..MaxVersion, NEW key \in Keys,
             Command(j, expected, key)
      PROVE  Stands
  <2>1. CASE SubmitRevision(j, expected, key)
    BY <2>1, SubmitRevisionStands
  <2>2. CASE RunQuality(j, expected, key)
    BY <2>2, RunQualityStands
  <2>3. CASE DispositionFinding(j, expected, key)
    <3>1. PICK i \in Issues :
            \E chosen \in [{i} -> Resolutions] :
              Dispose("disposition_finding", j, key, chosen)
      BY <2>3 DEF DispositionFinding
    <3> QED
      BY <3>1, DisposeStands
  <2>4. CASE BatchDisposition(j, expected, key)
    <3>1. PICK named \in SUBSET Issues :
            /\ Cardinality(named) \in 1..MaxBatch
            /\ \E chosen \in [named -> Resolutions] :
                 Dispose("batch_disposition", j, key, chosen)
      BY <2>4 DEF BatchDisposition
    <3>2. named # {}
      BY <3>1, FS_EmptySet
    <3> QED
      BY <3>1, <3>2, DisposeStands
  <2>5. CASE Review(j, expected, key)
    BY <2>5, ReviewStands
  <2>6. CASE Freeze(j, expected, key)
    BY <2>6, FreezeStands
  <2>7. CASE VerifyAndRecord(j, expected, key)
    BY <2>7, VerifyAndRecordStands
  <2> QED
    BY <1>4, <2>1, <2>2, <2>3, <2>4, <2>5, <2>6, <2>7 DEF Command
<1>5. ASSUME NEW j \in Jobs, NEW expected \in 1..MaxVersion, Inquiry(j, expected)
      PROVE  Stands
  BY <1>5, ReadOnlyStands DEF Inquiry, PreflightRevision, FreezePreview
<1>6. ASSUME NEW op \in Ops, NEW key \in Keys, Replay(op, key)
      PROVE  Stands
  BY <1>6, ReadOnlyStands DEF Replay, vars
<1>7. Stands
  BY <1>2, <1>3, <1>4, <1>5, <1>6 DEF Next
<1> QED
  BY <1>1, <1>7 DEF IInv

\* Before the first command there is no row, and nothing to answer for.
LEMMA InvInit ==
  ASSUME Init
  PROVE  IInv
<1>1. TypeOK /\ CurrentOwned
  BY TypeInit
<1>2. FindingsFromRuns
  BY DEF Init, FindingsFromRuns, NoFindings
<1>3. ReviewGate /\ ReleaseWasReviewed
  BY DEF Init, AbsentJob, ReviewGate, PastGate, ReleaseWasReviewed, ReleaseStands
<1> QED
  BY <1>1, <1>2, <1>3 DEF IInv

\* The invariant the theorems below rest on.
THEOREM Invariance == Spec => []IInv
<1>1. Init => IInv
  BY InvInit
<1>2. IInv /\ [Next]_vars => IInv'
  BY InvStep
<1> QED
  BY <1>1, <1>2, PTL DEF Spec

\* No job is up for review, approved or frozen with a finding standing.
THEOREM NothingReviewedUnsettled == Spec => []ReviewGate
<1>1. IInv => ReviewGate
  BY DEF IInv
<1> QED
  BY <1>1, Invariance, PTL

\* What is released is what somebody other than its author approved.
THEOREM NothingReleasedUnreviewed == Spec => []ReleaseWasReviewed
<1>1. IInv => ReleaseWasReviewed
  BY DEF IInv
<1> QED
  BY <1>1, Invariance, PTL
----------------------------------------------------------------------------
(***************************************************************************)
(* What a release rests on stays as it was.                                *)
(***************************************************************************)

\* A command that wrote nothing of a job but, at most, a revision of another.
LEMMA FrozenFrame ==
  ASSUME IInv, NEW k \in Jobs, NEW written,
         jobs'[k] = jobs[k], reviews'[k] = reviews[k],
         artifacts'[k] = artifacts[k],
         \A r \in Revisions : r # written =>
           /\ revisions'[r] = revisions[r]
           /\ findings'[r] = findings[r]
           /\ batches'[r] = batches[r],
         written \in Revisions =>
           revisions[written].job # k /\ revisions'[written].job # k
  PROVE  KeepsFrozen(k)
<1>1. RevisionsOf(k)' = RevisionsOf(k)
  BY DEF RevisionsOf
<1>2. \A r \in RevisionsOf(k) :
        /\ revisions'[r] = revisions[r]
        /\ findings'[r] = findings[r]
        /\ batches'[r] = batches[r]
  BY DEF RevisionsOf
<1>3. jobs'[k] = [jobs[k] EXCEPT !.version = jobs'[k].version]
  BY DEF IInv, TypeOK, LedgerTypeOK, JobRows
<1>4. jobs[k].status = "frozen" =>
        artifacts'[k] = [artifacts[k] EXCEPT !.status = artifacts'[k].status]
  <2> SUFFICES ASSUME jobs[k].status = "frozen"
               PROVE  artifacts[k] = [artifacts[k] EXCEPT !.status = artifacts[k].status]
    OBVIOUS
  <2>1. artifacts[k] \in ArtifactRows
    BY DEF IInv, ReleaseWasReviewed, ReleaseStands, TypeOK, EvidenceTypeOK
  <2> QED
    BY <2>1 DEF ArtifactRows
<1> QED
  BY <1>1, <1>2, <1>3, <1>4 DEF KeepsFrozen

\* The job row of one job and the findings of its current revision: no other
\* job is touched.
LEMMA CheckKeepsFrozen ==
  ASSUME IInv, NEW op, NEW j \in Jobs, NEW key, NEW row, Commit(op, j, key, row),
         jobs[j].status # "frozen", Current(j) # None,
         \A r \in Revisions : r # Current(j) =>
           findings'[r] = findings[r] /\ batches'[r] = batches[r],
         UNCHANGED <<revisions, reviews, artifacts>>,
         NEW k \in Jobs
  PROVE  KeepsFrozen(k)
<1>1. CASE k = j
  BY <1>1 DEF KeepsFrozen
<1>2. CASE k # j
  <2>1. jobs'[k] = jobs[k]
    BY <1>2 DEF Commit, IInv, TypeOK, LedgerTypeOK
  <2>2. revisions[Current(j)].job = j
    BY CurrentIsRow DEF IInv
  <2> QED
    BY <1>2, <2>1, <2>2, FrozenFrame
<1> QED
  BY <1>1, <1>2

\* A command on an existing job leaves the evidence of frozen jobs alone: those
\* that write it are refused for a frozen job, or find nothing open in it.
LEMMA CommandKeepsFrozen ==
  ASSUME IInv, NEW j \in Jobs, NEW expected, NEW key \in Keys,
         Command(j, expected, key), NEW k \in Jobs
  PROVE  KeepsFrozen(k)
<1>1. CASE SubmitRevision(j, expected, key)
  <2>1. PICK r \in Revisions, parent \in Revisions \cup {None},
             author \in People, content \in Contents :
          /\ revisions[r].job = None
          /\ ValidateNewRevision(j, parent)
          /\ revisions' = [revisions EXCEPT ![r] =
               [job |-> j, parent |-> parent, sequence |-> NextSequence(j),
                author |-> author, content |-> content]]
          /\ Commit("submit_revision", j, key,
                    [jobs[j] EXCEPT
                       !.current = r,
                       !.status = IF NextSequence(j) > 1
                                  THEN "remediating" ELSE "draft"])
    BY <1>1 DEF SubmitRevision
  <2>2. jobs[j].status # "frozen"
    BY <2>1 DEF ValidateNewRevision, EnsureMutable
  <2>3. CASE k = j
    BY <2>2, <2>3 DEF KeepsFrozen
  <2>4. CASE k # j
    <3>1. jobs'[k] = jobs[k]
      BY <2>1, <2>4 DEF Commit, IInv, TypeOK, LedgerTypeOK
    <3>2. revisions[r].job # k /\ revisions'[r].job # k
      BY <2>1, <2>4, WorkflowAssumption DEF IInv, TypeOK, EvidenceTypeOK
    <3>3. \A s \in Revisions : s # r => revisions'[s] = revisions[s]
      BY <2>1 DEF IInv, TypeOK, EvidenceTypeOK
    <3> QED
      BY <1>1, <3>1, <3>2, <3>3, FrozenFrame DEF SubmitRevision
  <2> QED
    BY <2>3, <2>4
<1>2. CASE RunQuality(j, expected, key)
  <2>1. /\ jobs[j].status # "frozen"
        /\ Current(j) # None
        /\ UNCHANGED <<revisions, reviews, artifacts>>
    BY <1>2 DEF RunQuality, EnsureMutable
  <2>2. \A r \in Revisions : r # Current(j) =>
          findings'[r] = findings[r] /\ batches'[r] = batches[r]
    BY <1>2 DEF RunQuality, IInv, TypeOK, EvidenceTypeOK
  <2>3. PICK row : Commit("run_quality", j, key, row)
    BY <1>2 DEF RunQuality
  <2> QED
    BY <2>1, <2>2, <2>3, CheckKeepsFrozen
<1>3. ASSUME NEW op, NEW chosen, Dispose(op, j, key, chosen),
             DOMAIN chosen # {}, DOMAIN chosen \subseteq Issues
      PROVE  KeepsFrozen(k)
  <2>1. jobs[j].status # "frozen"
    BY <1>3, DisposedInWork
  <2>2. Current(j) # None /\ UNCHANGED <<revisions, batches, reviews, artifacts>>
    BY <1>3 DEF Dispose
  <2>3. \A r \in Revisions : r # Current(j) => findings'[r] = findings[r]
    BY <1>3 DEF Dispose, IInv, TypeOK, EvidenceTypeOK
  <2>4. PICK row : Commit(op, j, key, row)
    BY <1>3 DEF Dispose
  <2> QED
    BY <2>1, <2>2, <2>3, <2>4, CheckKeepsFrozen
<1>4. CASE DispositionFinding(j, expected, key)
  <2>1. PICK i \in Issues :
          \E chosen \in [{i} -> Resolutions] :
            Dispose("disposition_finding", j, key, chosen)
    BY <1>4 DEF DispositionFinding
  <2> QED
    BY <1>3, <2>1
<1>5. CASE BatchDisposition(j, expected, key)
  <2>1. PICK named \in SUBSET Issues :
          /\ Cardinality(named) \in 1..MaxBatch
          /\ \E chosen \in [named -> Resolutions] :
               Dispose("batch_disposition", j, key, chosen)
    BY <1>5 DEF BatchDisposition
  <2>2. named # {}
    BY <2>1, FS_EmptySet
  <2> QED
    BY <1>3, <2>1, <2>2
<1>6. CASE Review(j, expected, key)
  <2>1. PICK entry, row :
          /\ jobs[j].status = "review_ready"
          /\ reviews' = [reviews EXCEPT ![j] = Append(@, entry)]
          /\ Commit("review", j, key, row)
    BY <1>6 DEF Review, MayReview
  <2>2. CASE k = j
    BY <2>1, <2>2 DEF KeepsFrozen
  <2>3. CASE k # j
    <3>1. jobs'[k] = jobs[k] /\ reviews'[k] = reviews[k]
      BY <2>1, <2>3 DEF Commit, IInv, TypeOK, LedgerTypeOK, EvidenceTypeOK
    <3> QED
      BY <1>6, <3>1, FrozenFrame, WorkflowAssumption DEF Review
  <2> QED
    BY <2>2, <2>3
<1>7. CASE Freeze(j, expected, key)
  <2>1. PICK release, row :
          /\ jobs[j].status = "approved"
          /\ artifacts' = [artifacts EXCEPT ![j] = release]
          /\ Commit("freeze", j, key, row)
    BY <1>7 DEF Freeze, ValidateFreeze
  <2>2. CASE k = j
    BY <2>1, <2>2 DEF KeepsFrozen
  <2>3. CASE k # j
    <3>1. jobs'[k] = jobs[k] /\ artifacts'[k] = artifacts[k]
      BY <2>1, <2>3 DEF Commit, IInv, TypeOK, LedgerTypeOK, EvidenceTypeOK
    <3> QED
      BY <1>7, <3>1, FrozenFrame, WorkflowAssumption DEF Freeze
  <2> QED
    BY <2>2, <2>3
<1>8. CASE VerifyAndRecord(j, expected, key)
  <2>1. PICK status :
          /\ artifacts' = [artifacts EXCEPT ![j].status = status]
          /\ Commit("verify", j, key, jobs[j])
          /\ artifacts[j] # None
          /\ UNCHANGED <<revisions, findings, batches, reviews>>
    BY <1>8 DEF VerifyAndRecord
  <2>2. CASE k = j
    <3>1. artifacts[j] \in ArtifactRows
      BY <2>1 DEF IInv, TypeOK, EvidenceTypeOK
    <3>2. artifacts'[j] = [artifacts[j] EXCEPT !.status = artifacts'[j].status]
      BY <2>1, <3>1 DEF ArtifactRows, IInv, TypeOK, EvidenceTypeOK
    <3>3. jobs'[j] = [jobs[j] EXCEPT !.version = jobs'[j].version]
      BY <2>1 DEF Commit, IInv, TypeOK, LedgerTypeOK, JobRows
    <3> QED
      BY <2>1, <2>2, <3>2, <3>3 DEF KeepsFrozen, RevisionsOf
  <2>3. CASE k # j
    <3>1. jobs'[k] = jobs[k] /\ artifacts'[k] = artifacts[k]
      BY <2>1, <2>3 DEF Commit, IInv, TypeOK, LedgerTypeOK, EvidenceTypeOK
    <3> QED
      BY <2>1, <3>1, FrozenFrame, WorkflowAssumption
  <2> QED
    BY <2>2, <2>3
<1> QED
  BY <1>1, <1>2, <1>4, <1>5, <1>6, <1>7, <1>8 DEF Command

\* So does every step.
LEMMA StepKeepsFrozen ==
  ASSUME IInv, [Next]_vars, NEW k \in Jobs
  PROVE  KeepsFrozen(k)
<1>1. ASSUME UNCHANGED <<evidence, ledger>>
      PROVE  KeepsFrozen(k)
  BY <1>1, FrozenFrame, WorkflowAssumption DEF evidence, ledger
<1>2. ASSUME NEW j \in Jobs, NEW key \in Keys, CreateJob(j, key)
      PROVE  KeepsFrozen(k)
  <2>1. CASE k = j
    BY <1>2, <2>1 DEF CreateJob, KeepsFrozen
  <2>2. CASE k # j
    <3>1. jobs'[k] = jobs[k]
      BY <1>2, <2>2 DEF CreateJob, Commit, IInv, TypeOK, LedgerTypeOK
    <3> QED
      BY <1>2, <3>1, FrozenFrame, WorkflowAssumption DEF CreateJob, evidence
  <2> QED
    BY <2>1, <2>2
<1>3. ASSUME NEW j \in Jobs, NEW expected \in 1..MaxVersion, Inquiry(j, expected)
      PROVE  KeepsFrozen(k)
  BY <1>1, <1>3 DEF Inquiry, PreflightRevision, FreezePreview
<1>4. ASSUME NEW op \in Ops, NEW key \in Keys, Replay(op, key)
      PROVE  KeepsFrozen(k)
  BY <1>1, <1>4 DEF Replay, vars
<1>5. ASSUME UNCHANGED vars
      PROVE  KeepsFrozen(k)
  BY <1>1, <1>5 DEF vars
<1> QED
  BY <1>2, <1>3, <1>4, <1>5, CommandKeepsFrozen DEF Next

\* No command changes what the release of a frozen job rests on, the batch
\* disposition included, which does not ask whether the job is frozen.
THEOREM FrozenEvidenceIsKept == Spec => FrozenEvidenceKept
<1>1. IInv /\ [Next]_vars => [\A j \in Jobs : KeepsFrozen(j)]_vars
  BY StepKeepsFrozen
<1> QED
  BY <1>1, Invariance, PTL DEF Spec, FrozenEvidenceKept
============================================================================
