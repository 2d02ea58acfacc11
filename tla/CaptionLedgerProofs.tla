------------------------ MODULE CaptionLedgerProofs ------------------------
(***************************************************************************)
(* Theorems about what CaptionWorkflow accumulates: logs, the results kept *)
(* for idempotency keys, and the audit chain with the releases that refer  *)
(* to it.  They rest on the invariant proved in CaptionWorkflowProofs.     *)
(***************************************************************************)
EXTENDS CaptionWorkflowProofs

(***************************************************************************)
(* Logs grow at their end.                                                 *)
(***************************************************************************)

\* A log that was not written extends itself.
LEMMA ExtendsItself ==
  ASSUME NEW S, NEW log \in Seq(S)
  PROVE  Extends(log, log)
  BY DEF Extends

\* A log extends what it was before a row was appended.
LEMMA ExtendsByAppend ==
  ASSUME NEW S, NEW log \in Seq(S), NEW entry
  PROVE  Extends(Append(log, entry), log)
<1>1. /\ Len(log) \in Nat
      /\ Len(Append(log, entry)) = Len(log) + 1
      /\ \A n \in 1..Len(log) : Append(log, entry)[n] = log[n]
  <2>1. log \in Seq(S \cup {entry})
    OBVIOUS
  <2> QED
    BY <2>1
<1> QED
  BY <1>1 DEF Extends

\* The tail of a command adds one event and, under an unused key, one result.
LEMMA CommitExtends ==
  ASSUME TypeOK, NEW op \in Ops, NEW j \in Jobs, NEW key \in Keys, NEW row,
         KeyUnused(op, key), Commit(op, j, key, row)
  PROVE  /\ ResultsKept
         /\ \A k \in Jobs : Extends(audit'[k], audit[k])
<1>1. ResultsKept
  BY DEF Commit, RememberKey, KeyUnused, ResultsKept, TypeOK, LedgerTypeOK
<1>2. ASSUME NEW k \in Jobs
      PROVE  Extends(audit'[k], audit[k])
  <2>1. audit[k] \in Seq(AuditEvents)
    BY DEF TypeOK, LedgerTypeOK
  <2>2. CASE k = j
    BY <2>1, <2>2, ExtendsByAppend DEF Commit, AppendAudit, TypeOK, LedgerTypeOK
  <2>3. CASE k # j
    <3>1. audit'[k] = audit[k]
      BY <2>3 DEF Commit, TypeOK, LedgerTypeOK
    <3> QED
      BY <2>1, <3>1, ExtendsItself
  <2> QED
    BY <2>2, <2>3
<1> QED
  BY <1>1, <1>2

\* A command that writes reviews or verifications of one job at their end.
LEMMA LogsFrame ==
  ASSUME TypeOK, NEW j \in Jobs, NEW entry, NEW record,
         \/ reviews' = reviews
         \/ reviews' = [reviews EXCEPT ![j] = Append(@, entry)],
         \/ verifications' = verifications
         \/ verifications' = [verifications EXCEPT ![j] = Append(@, record)],
         \A k \in Jobs : Extends(audit'[k], audit[k]),
         NEW k \in Jobs
  PROVE  LogsExtended(k)
<1>1. reviews[k] \in Seq(ReviewRows) /\ verifications[k] \in Seq(VerificationRows)
  BY DEF TypeOK, EvidenceTypeOK
<1>2. reviews'[k] = reviews[k] \/ reviews'[k] = Append(reviews[k], entry)
  BY DEF TypeOK, EvidenceTypeOK
<1>3. \/ verifications'[k] = verifications[k]
      \/ verifications'[k] = Append(verifications[k], record)
  BY DEF TypeOK, EvidenceTypeOK
<1>4. Extends(reviews'[k], reviews[k])
  <2>1. CASE reviews'[k] = reviews[k]
    BY <1>1, <2>1, ExtendsItself
  <2>2. CASE reviews'[k] = Append(reviews[k], entry)
    BY <1>1, <2>2, ExtendsByAppend
  <2> QED
    BY <1>2, <2>1, <2>2
<1>5. Extends(verifications'[k], verifications[k])
  <2>1. CASE verifications'[k] = verifications[k]
    BY <1>1, <2>1, ExtendsItself
  <2>2. CASE verifications'[k] = Append(verifications[k], record)
    BY <1>1, <2>2, ExtendsByAppend
  <2> QED
    BY <1>3, <2>1, <2>2
<1> QED
  BY <1>4, <1>5 DEF LogsExtended

\* A command that wrote no revision and no finding.
LEMMA RevisionFrame ==
  ASSUME UNCHANGED <<revisions, findings>>, NEW r \in Revisions
  PROVE  RevisionKept(r)
  BY DEF RevisionKept, Resolutions

\* Findings are settled once: a disposition names open ones only.
LEMMA DisposeGrows ==
  ASSUME TypeOK, NEW op \in Ops, NEW j \in Jobs, NEW key \in Keys, NEW chosen,
         KeyUnused(op, key), Dispose(op, j, key, chosen)
  PROVE  EvidenceGrows
<1>1. PICK row : Commit(op, j, key, row)
  BY DEF Dispose
<1>2. ResultsKept /\ \A k \in Jobs : LogsExtended(k)
  BY <1>1, CommitExtends, LogsFrame DEF Dispose
<1>3. ASSUME NEW r \in Revisions
      PROVE  RevisionKept(r)
  <2>1. ASSUME NEW i \in Issues
        PROVE  /\ findings[r][i] \in Resolutions =>
                    findings'[r][i] = findings[r][i]
               /\ findings[r][i] = "open" => findings'[r][i] # "absent"
    <3>1. CASE r = Current(j) /\ i \in DOMAIN chosen
      <4>1. /\ findings[r][i] = "open"
            /\ chosen[i] \in Resolutions
            /\ findings'[r][i] = chosen[i]
        BY <3>1 DEF Dispose, ValidateDisposition, Resolved, TypeOK, EvidenceTypeOK
      <4> QED
        BY <4>1 DEF Resolutions
    <3>2. CASE ~(r = Current(j) /\ i \in DOMAIN chosen)
      <4>1. findings'[r][i] = findings[r][i]
        BY <3>2 DEF Dispose, Resolved, TypeOK, EvidenceTypeOK
      <4> QED
        BY <4>1
    <3> QED
      BY <3>1, <3>2
  <2> QED
    BY <2>1 DEF Dispose, RevisionKept
<1> QED
  BY <1>2, <1>3 DEF EvidenceGrows

\* Every command on an existing job only adds to the evidence.
LEMMA CommandGrows ==
  ASSUME TypeOK, NEW j \in Jobs, NEW expected, NEW key \in Keys,
         Command(j, expected, key)
  PROVE  EvidenceGrows
<1>1. CASE SubmitRevision(j, expected, key)
  <2>1. PICK r, new, row :
          /\ r \in Revisions
          /\ revisions[r].job = None
          /\ revisions' = [revisions EXCEPT ![r] = new]
          /\ Commit("submit_revision", j, key, row)
    BY <1>1 DEF SubmitRevision
  <2>2. /\ KeyUnused("submit_revision", key)
        /\ UNCHANGED <<findings, reviews, verifications>>
    BY <1>1 DEF SubmitRevision, Admit
  <2>3. ASSUME NEW s \in Revisions
        PROVE  RevisionKept(s)
    BY <2>1, <2>2 DEF RevisionKept, Resolutions, TypeOK, EvidenceTypeOK
  <2>4. ResultsKept /\ \A k \in Jobs : Extends(audit'[k], audit[k])
    BY <2>1, <2>2, CommitExtends DEF Ops
  <2> QED
    BY <2>2, <2>3, <2>4, LogsFrame DEF EvidenceGrows
<1>2. CASE RunQuality(j, expected, key)
  <2>1. PICK row : Commit("run_quality", j, key, row)
    BY <1>2 DEF RunQuality
  <2>2. /\ KeyUnused("run_quality", key)
        /\ UNCHANGED <<revisions, reviews, verifications>>
        /\ NoFindings(Current(j))
    BY <1>2 DEF RunQuality, Admit
  <2>3. ASSUME NEW r \in Revisions
        PROVE  RevisionKept(r)
    <3>1. r = Current(j) \/ findings'[r] = findings[r]
      BY <1>2 DEF RunQuality, TypeOK, EvidenceTypeOK
    <3> QED
      BY <2>2, <3>1 DEF RevisionKept, NoFindings, Resolutions
  <2>4. ResultsKept /\ \A k \in Jobs : Extends(audit'[k], audit[k])
    BY <2>1, <2>2, CommitExtends DEF Ops
  <2> QED
    BY <2>2, <2>3, <2>4, LogsFrame DEF EvidenceGrows
<1>3. CASE DispositionFinding(j, expected, key)
  BY <1>3, DisposeGrows DEF DispositionFinding, Admit, Ops
<1>4. CASE BatchDisposition(j, expected, key)
  BY <1>4, DisposeGrows DEF BatchDisposition, Admit, Ops
<1>5. CASE Review(j, expected, key)
  <2>1. PICK entry, row :
          /\ reviews' = [reviews EXCEPT ![j] = Append(@, entry)]
          /\ Commit("review", j, key, row)
    BY <1>5 DEF Review
  <2>2. /\ KeyUnused("review", key)
        /\ UNCHANGED <<revisions, findings, verifications>>
    BY <1>5 DEF Review, Admit
  <2>3. ResultsKept /\ \A k \in Jobs : Extends(audit'[k], audit[k])
    BY <2>1, <2>2, CommitExtends DEF Ops
  <2> QED
    BY <2>1, <2>2, <2>3, LogsFrame, RevisionFrame DEF EvidenceGrows
<1>6. CASE Freeze(j, expected, key)
  <2>1. PICK row : Commit("freeze", j, key, row)
    BY <1>6 DEF Freeze
  <2>2. /\ KeyUnused("freeze", key)
        /\ UNCHANGED <<revisions, findings, reviews, verifications>>
    BY <1>6 DEF Freeze, Admit
  <2>3. ResultsKept /\ \A k \in Jobs : Extends(audit'[k], audit[k])
    BY <2>1, <2>2, CommitExtends DEF Ops
  <2> QED
    BY <2>2, <2>3, LogsFrame, RevisionFrame DEF EvidenceGrows
<1>7. CASE VerifyAndRecord(j, expected, key)
  <2>1. PICK record :
          verifications' = [verifications EXCEPT ![j] = Append(@, record)]
    BY <1>7 DEF VerifyAndRecord
  <2>2. /\ KeyUnused("verify", key)
        /\ Commit("verify", j, key, jobs[j])
        /\ UNCHANGED <<revisions, findings, reviews>>
    BY <1>7 DEF VerifyAndRecord, Admit
  <2>3. ResultsKept /\ \A k \in Jobs : Extends(audit'[k], audit[k])
    BY <2>2, CommitExtends DEF Ops
  <2> QED
    BY <2>1, <2>2, <2>3, LogsFrame, RevisionFrame DEF EvidenceGrows
<1> QED
  BY <1>1, <1>2, <1>3, <1>4, <1>5, <1>6, <1>7 DEF Command

\* So does every step.
LEMMA StepGrows ==
  ASSUME TypeOK, [Next]_vars
  PROVE  EvidenceGrows
<1>1. ASSUME UNCHANGED <<evidence, ledger>>
      PROVE  EvidenceGrows
  <2>1. \A k \in Jobs : Extends(audit'[k], audit[k])
    BY <1>1, ExtendsItself DEF ledger, TypeOK, LedgerTypeOK
  <2>2. \A k \in Jobs : LogsExtended(k)
    BY <1>1, <2>1, LogsFrame DEF evidence
  <2>3. ResultsKept /\ \A r \in Revisions : RevisionKept(r)
    BY <1>1, RevisionFrame DEF evidence, ledger, ResultsKept
  <2> QED
    BY <2>2, <2>3 DEF EvidenceGrows
<1>2. ASSUME NEW j \in Jobs, NEW key \in Keys, CreateJob(j, key)
      PROVE  EvidenceGrows
  <2>1. PICK row : Commit("create_job", j, key, row)
    BY <1>2 DEF CreateJob
  <2>2. KeyUnused("create_job", key) /\ UNCHANGED evidence
    BY <1>2 DEF CreateJob
  <2>3. ResultsKept /\ \A k \in Jobs : Extends(audit'[k], audit[k])
    BY <2>1, <2>2, CommitExtends DEF Ops
  <2> QED
    BY <2>2, <2>3, LogsFrame, RevisionFrame DEF EvidenceGrows, evidence
<1>3. ASSUME NEW j \in Jobs, NEW expected \in 1..MaxVersion, Inquiry(j, expected)
      PROVE  EvidenceGrows
  BY <1>1, <1>3 DEF Inquiry, PreflightRevision, FreezePreview
<1>4. ASSUME NEW op \in Ops, NEW key \in Keys, Replay(op, key)
      PROVE  EvidenceGrows
  BY <1>1, <1>4 DEF Replay, vars
<1>5. ASSUME UNCHANGED vars
      PROVE  EvidenceGrows
  BY <1>1, <1>5 DEF vars
<1> QED
  BY <1>2, <1>3, <1>4, <1>5, CommandGrows DEF Next

\* No command rewrites or removes evidence, or the result kept for a key.
THEOREM EvidenceIsAppendOnly == Spec => EvidenceAppendOnly
<1>1. TypeOK /\ [Next]_vars => [EvidenceGrows]_vars
  BY StepGrows
<1> QED
  BY <1>1, TypeCorrect, PTL DEF Spec, EvidenceAppendOnly
----------------------------------------------------------------------------
(***************************************************************************)
(* One effect for each key.                                                *)
(***************************************************************************)

\* No key is said to have made a version its job has not reached.
EffectsPast ==
  \A op \in Ops, key \in Keys :
    idempotency[op][key] # None =>
      idempotency[op][key].version <= jobs[idempotency[op][key].job].version

EffectInv == EffectsPast /\ OneEffectPerKey

\* The tail of a command under an unused key makes one version, of one job.
LEMMA CommitOneEffect ==
  ASSUME TypeOK, EffectInv, NEW op \in Ops, NEW j \in Jobs, NEW key \in Keys,
         NEW row \in JobRows, KeyUnused(op, key), Commit(op, j, key, row)
  PROVE  EffectInv'
<1>0. PICK version \in Nat : version = jobs[j].version + 1
  BY DEF TypeOK, LedgerTypeOK, JobRows
<1>1. /\ \A k \in Jobs : jobs[k].version \in Nat
      /\ version = jobs[j].version + 1
      /\ jobs'[j].version = version
      /\ \A k \in Jobs : k # j => jobs'[k] = jobs[k]
  BY <1>0 DEF Commit, TypeOK, LedgerTypeOK, JobRows
<1>2. /\ idempotency'[op][key] = [job |-> j, version |-> version]
      /\ idempotency[op][key] = None
      /\ \A o \in Ops, k \in Keys :
           <<o, k>> # <<op, key>> => idempotency'[o][k] = idempotency[o][k]
  BY <1>0 DEF Commit, RememberKey, KeyUnused, TypeOK, LedgerTypeOK
<1>3. \A o \in Ops, k \in Keys :
        idempotency[o][k] # None =>
          /\ idempotency[o][k].job \in Jobs
          /\ idempotency[o][k].version \in Nat
          /\ idempotency[o][k] = [job |-> idempotency[o][k].job,
                                  version |-> idempotency[o][k].version]
  BY DEF TypeOK, LedgerTypeOK, EffectRows
<1>4. EffectsPast'
  <2> SUFFICES ASSUME NEW o \in Ops, NEW k \in Keys, idempotency'[o][k] # None
               PROVE  idempotency'[o][k].version
                        <= jobs'[idempotency'[o][k].job].version
    BY DEF EffectsPast
  <2>1. CASE o = op /\ k = key
    BY <1>1, <1>2, <2>1
  <2>2. CASE <<o, k>> # <<op, key>>
    <3> DEFINE effect == idempotency[o][k]
    <3>1. idempotency'[o][k] = effect /\ effect # None
      BY <1>2, <2>2
    <3>2. effect.job \in Jobs /\ effect.version \in Nat
      BY <1>3, <3>1
    <3>3. effect.version <= jobs[effect.job].version
      BY <3>1 DEF EffectInv, EffectsPast
    <3> HIDE DEF effect
    <3>4. CASE effect.job = j
      BY <1>1, <3>1, <3>2, <3>3, <3>4
    <3>5. CASE effect.job # j
      BY <1>1, <3>1, <3>2, <3>3, <3>5
    <3> QED
      BY <3>4, <3>5
  <2> QED
    BY <2>1, <2>2
<1>5. ASSUME NEW k \in Jobs, NEW n \in Nat, <<k, n>> # <<j, version>>,
             NEW o \in Ops, NEW u \in Keys
      PROVE  MadeBy(k, n, o, u)' <=> MadeBy(k, n, o, u)
  <2>1. [job |-> k, version |-> n] # [job |-> j, version |-> version]
    BY <1>5
  <2>2. [job |-> k, version |-> n] # None
    BY <1>5, NoneIsNoRow DEF EffectRows
  <2> QED
    BY <1>2, <2>1, <2>2 DEF MadeBy
<1>6. ASSUME NEW o \in Ops, NEW u \in Keys
      PROVE  MadeBy(j, version, o, u)' <=> o = op /\ u = key
  <2>1. CASE o = op /\ u = key
    BY <1>2, <2>1 DEF MadeBy
  <2>2. CASE ~(o = op /\ u = key)
    <3>1. idempotency'[o][u] = idempotency[o][u]
      BY <1>2, <2>2
    <3>2. SUFFICES ASSUME idempotency[o][u] = [job |-> j, version |-> version]
                   PROVE  FALSE
      BY <2>2, <3>1 DEF MadeBy
    <3>3. ~(version <= jobs[j].version)
      BY <1>1
    <3>4. idempotency[o][u] # None
      BY <3>2, <3>3, NoneIsNoRow DEF EffectRows
    <3> QED
      BY <3>2, <3>3, <3>4 DEF EffectInv, EffectsPast
  <2> QED
    BY <2>1, <2>2
<1>7. ASSUME NEW k \in Jobs, k # j
      PROVE  audit'[k] = audit[k]
  BY <1>7 DEF Commit, TypeOK, LedgerTypeOK
<1>8. /\ audit[j] \in Seq(AuditEvents)
      /\ audit'[j] = AppendAudit(audit[j], AuditBody(j, op))
  BY DEF Commit, TypeOK, LedgerTypeOK
<1>9. /\ Len(audit[j]) = jobs[j].version
      /\ Len(audit'[j]) = version
      /\ \A n \in 1..jobs[j].version : audit'[j][n] = audit[j][n]
      /\ audit'[j][version].body.type = op
  <2> DEFINE event == AuditEvent(ChainHead(audit[j]), AuditBody(j, op))
  <2>1. event.body.type = op
    BY DEF AuditEvent, AuditBody
  <2>2. Len(audit[j]) = jobs[j].version
    BY DEF EffectInv, OneEffectPerKey
  <2>3. audit[j] \in Seq(AuditEvents \cup {event})
    BY <1>8
  <2>4. audit'[j] = Append(audit[j], event)
    BY <1>8 DEF AppendAudit
  <2> HIDE DEF event
  <2> QED
    BY <1>1, <2>1, <2>2, <2>3, <2>4
<1>10. ASSUME NEW k \in Jobs, NEW n \in 1..jobs'[k].version
       PROVE  \E o \in Ops, u \in Keys :
                /\ MadeBy(k, n, o, u)'
                /\ o = audit'[k][n].body.type
                /\ \A other \in Ops, w \in Keys :
                     MadeBy(k, n, other, w)' => other = o /\ w = u
  <2>1. CASE k = j /\ n = version
    <3>1. MadeBy(k, n, op, key)' /\ op = audit'[k][n].body.type
      BY <1>6, <1>9, <2>1
    <3>2. \A other \in Ops, w \in Keys :
            MadeBy(k, n, other, w)' => other = op /\ w = key
      BY <1>6, <2>1
    <3> QED
      BY <3>1, <3>2
  <2>2. CASE <<k, n>> # <<j, version>>
    <3>1. n \in 1..jobs[k].version
      BY <1>1, <1>10, <2>2
    <3>2. audit'[k][n] = audit[k][n]
      BY <1>7, <1>9, <3>1
    <3>3. n \in Nat
      BY <3>1
    <3>4. PICK o \in Ops, u \in Keys :
            /\ MadeBy(k, n, o, u)
            /\ o = audit[k][n].body.type
            /\ \A other \in Ops, w \in Keys :
                 MadeBy(k, n, other, w) => other = o /\ w = u
      BY <3>1 DEF EffectInv, OneEffectPerKey
    <3> QED
      BY <1>5, <2>2, <3>2, <3>3, <3>4
  <2> QED
    BY <2>1, <2>2
<1>11. \A k \in Jobs : Len(audit'[k]) = jobs'[k].version
  BY <1>1, <1>7, <1>9 DEF EffectInv, OneEffectPerKey
<1> QED
  BY <1>4, <1>10, <1>11 DEF EffectInv, OneEffectPerKey

\* A step that makes no version leaves the records as they are.
LEMMA NoEffect ==
  ASSUME EffectInv, UNCHANGED ledger
  PROVE  EffectInv'
  BY DEF EffectInv, EffectsPast, OneEffectPerKey, MadeBy, ledger

\* Creating a job ends as every writing command does.
LEMMA CreateJobCommits ==
  ASSUME NEW j \in Jobs, NEW key \in Keys, CreateJob(j, key)
  PROVE  \E op \in Ops, row \in JobRows :
           KeyUnused(op, key) /\ Commit(op, j, key, row) /\ UNCHANGED receipts
<1>1. PICK profile \in Profiles :
        Commit("create_job", j, key,
               [AbsentJob EXCEPT !.status = "draft", !.profile = profile])
  BY DEF CreateJob
<1>2. [AbsentJob EXCEPT !.status = "draft", !.profile = profile] \in JobRows
  BY DEF AbsentJob, JobRows, Statuses
<1>3. /\ KeyUnused("create_job", key)
      /\ "create_job" \in Ops
      /\ UNCHANGED receipts
  BY DEF CreateJob, Ops
<1> QED
  BY <1>1, <1>2, <1>3

\* A command on an existing job was sent under an unused key, and ends with
\* the row of its job, an event and a result.
LEMMA CommandCommits ==
  ASSUME TypeOK, NEW j \in Jobs, NEW expected, NEW key \in Keys,
         Command(j, expected, key)
  PROVE  \E op \in Ops, row \in JobRows :
           KeyUnused(op, key) /\ Commit(op, j, key, row) /\ UNCHANGED receipts
<1> DEFINE Ends == \E op \in Ops, row \in JobRows :
             KeyUnused(op, key) /\ Commit(op, j, key, row) /\ UNCHANGED receipts
<1>1. ASSUME NEW op \in Ops, NEW status \in Statuses, KeyUnused(op, key),
             Commit(op, j, key, [jobs[j] EXCEPT !.status = status]),
             UNCHANGED receipts
      PROVE  Ends
  <2>1. [jobs[j] EXCEPT !.status = status] \in JobRows
    BY StatusRowType DEF Statuses
  <2> QED
    BY <1>1, <2>1
<1>2. ASSUME NEW op \in Ops, NEW chosen, KeyUnused(op, key),
             Dispose(op, j, key, chosen)
      PROVE  Ends
  <2>1. PICK status \in Statuses :
          Commit(op, j, key, [jobs[j] EXCEPT !.status = status])
    BY <1>2, StatusAfterFindingsType DEF Dispose, Statuses
  <2>2. UNCHANGED receipts
    BY <1>2 DEF Dispose
  <2> QED
    BY <1>1, <1>2, <2>1, <2>2
<1>3. CASE SubmitRevision(j, expected, key)
  <2>1. PICK r \in Revisions, status \in Statuses :
          Commit("submit_revision", j, key,
                 [jobs[j] EXCEPT !.current = r, !.status = status])
    BY <1>3 DEF SubmitRevision, Statuses
  <2>2. [jobs[j] EXCEPT !.current = r, !.status = status] \in JobRows
    BY DEF TypeOK, LedgerTypeOK, JobRows
  <2>3. /\ KeyUnused("submit_revision", key)
        /\ "submit_revision" \in Ops
        /\ UNCHANGED receipts
    BY <1>3 DEF SubmitRevision, Admit, Ops
  <2> QED
    BY <2>1, <2>2, <2>3
<1>4. CASE RunQuality(j, expected, key)
  <2>1. PICK status \in Statuses :
          Commit("run_quality", j, key, [jobs[j] EXCEPT !.status = status])
    BY <1>4, StatusAfterFindingsType DEF RunQuality, Statuses
  <2>2. KeyUnused("run_quality", key) /\ UNCHANGED receipts
    BY <1>4 DEF RunQuality, Admit
  <2> QED
    BY <1>1, <2>1, <2>2 DEF Ops
<1>5. CASE DispositionFinding(j, expected, key)
  BY <1>2, <1>5 DEF DispositionFinding, Admit, Ops
<1>6. CASE BatchDisposition(j, expected, key)
  BY <1>2, <1>6 DEF BatchDisposition, Admit, Ops
<1>7. CASE Review(j, expected, key)
  <2>1. PICK status \in Statuses :
          Commit("review", j, key, [jobs[j] EXCEPT !.status = status])
    BY <1>7 DEF Review, StatusAfterReview, Statuses
  <2>2. KeyUnused("review", key) /\ UNCHANGED receipts
    BY <1>7 DEF Review, Admit
  <2> QED
    BY <1>1, <2>1, <2>2 DEF Ops
<1>8. CASE Freeze(j, expected, key)
  <2>1. Commit("freeze", j, key, [jobs[j] EXCEPT !.status = "frozen"])
    BY <1>8 DEF Freeze
  <2>2. KeyUnused("freeze", key) /\ UNCHANGED receipts
    BY <1>8 DEF Freeze, Admit
  <2> QED
    BY <1>1, <2>1, <2>2 DEF Ops, Statuses
<1>9. CASE VerifyAndRecord(j, expected, key)
  <2>1. /\ Commit("verify", j, key, jobs[j])
        /\ KeyUnused("verify", key)
        /\ "verify" \in Ops
        /\ UNCHANGED receipts
    BY <1>9 DEF VerifyAndRecord, Admit, Ops
  <2>2. jobs[j] \in JobRows
    BY DEF TypeOK, LedgerTypeOK
  <2> QED
    BY <2>1, <2>2
<1> QED
  BY <1>3, <1>4, <1>5, <1>6, <1>7, <1>8, <1>9 DEF Command

\* Every step keeps one effect for each key.
LEMMA StepOneEffect ==
  ASSUME TypeOK, EffectInv, [Next]_vars
  PROVE  EffectInv'
<1>1. ASSUME NEW j \in Jobs, NEW key \in Keys, CreateJob(j, key)
      PROVE  EffectInv'
  BY <1>1, CreateJobCommits, CommitOneEffect
<1>2. ASSUME NEW j \in Jobs, NEW expected, NEW key \in Keys,
             Command(j, expected, key)
      PROVE  EffectInv'
  BY <1>2, CommandCommits, CommitOneEffect
<1>3. ASSUME NEW j \in Jobs, NEW expected \in 1..MaxVersion, Inquiry(j, expected)
      PROVE  EffectInv'
  BY <1>3, NoEffect DEF Inquiry, PreflightRevision, FreezePreview
<1>4. ASSUME NEW op \in Ops, NEW key \in Keys, Replay(op, key)
      PROVE  EffectInv'
  BY <1>4, NoEffect DEF Replay, vars
<1>5. ASSUME UNCHANGED vars
      PROVE  EffectInv'
  BY <1>5, NoEffect DEF vars
<1> QED
  BY <1>1, <1>2, <1>3, <1>4, <1>5 DEF Next

\* However commands and their retries are mixed, each version of a job is the
\* effect of one key, and each key that had an effect can answer for it.
THEOREM KeysHaveOneEffect == Spec => []OneEffectPerKey
<1>1. Init => EffectInv
  BY DEF Init, EffectInv, EffectsPast, OneEffectPerKey, AbsentJob
<1>2. TypeOK /\ EffectInv /\ [Next]_vars => EffectInv'
  BY StepOneEffect
<1>3. EffectInv => OneEffectPerKey
  BY DEF EffectInv
<1> QED
  BY <1>1, <1>2, <1>3, TypeCorrect, PTL DEF Spec

\* The tail of a command is one serial step.
LEMMA CommitExecutes ==
  ASSUME TypeOK, NEW op \in Ops, NEW j \in Jobs, NEW key \in Keys, NEW row,
         KeyUnused(op, key), Commit(op, j, key, row), row \in JobRows
  PROVE  Ledger!Execute(j, <<op, key>>)
<1> DEFINE p == <<op, key>>
           effect == [job |-> j, version |-> jobs[j].version + 1]
<1>1. p \in Ops \X Keys /\ Results[p] = None
  BY DEF Results, KeyUnused
<1>2. Versions' = [Versions EXCEPT ![j] = Versions[j] + 1]
  <2>1. jobs' = [jobs EXCEPT ![j] = [row EXCEPT !.version = jobs[j].version + 1]]
    BY DEF Commit
  <2>2. \A k \in Jobs : jobs'[k].version = IF k = j THEN jobs[j].version + 1
                                          ELSE jobs[k].version
    BY <2>1 DEF TypeOK, LedgerTypeOK, JobRows
  <2> QED
    BY <2>2 DEF Versions
<1>3. Results' = [Results EXCEPT ![p] = [job |-> j, version |-> Versions[j] + 1]]
  <2>1. idempotency' = [idempotency EXCEPT ![op][key] = effect]
    BY DEF Commit, RememberKey
  <2>2. \A o \in Ops, k \in Keys :
          idempotency'[o][k] = IF o = op /\ k = key THEN effect ELSE idempotency[o][k]
    BY <2>1 DEF TypeOK, LedgerTypeOK
  <2>3. \A q \in Ops \X Keys :
          idempotency'[q[1]][q[2]] = IF q = p THEN effect ELSE idempotency[q[1]][q[2]]
    BY <2>2
  <2>4. Versions[j] = jobs[j].version
    BY DEF Versions
  <2> QED
    BY <2>3, <2>4 DEF Results
<1> QED
  BY <1>1, <1>2, <1>3 DEF Ledger!Execute

LEMMA StepExecutes ==
  TypeOK /\ [Next]_vars => [Ledger!Next]_(Ledger!vars)
<1> SUFFICES ASSUME TypeOK, [Next]_vars
             PROVE  [Ledger!Next]_(Ledger!vars)
  OBVIOUS
<1>1. ASSUME NEW j \in Jobs, NEW key \in Keys, NEW op \in Ops, NEW row \in JobRows,
             KeyUnused(op, key), Commit(op, j, key, row)
      PROVE  Ledger!Next
  <2>1. Ledger!Execute(j, <<op, key>>) /\ <<op, key>> \in Ops \X Keys
    BY <1>1, CommitExecutes
  <2> QED
    BY <2>1 DEF Ledger!Next
<1>2. ASSUME UNCHANGED ledger
      PROVE  UNCHANGED Ledger!vars
  BY <1>2 DEF ledger, Ledger!vars, Versions, Results
<1>3. ASSUME NEW j \in Jobs, NEW key \in Keys, CreateJob(j, key)
      PROVE  Ledger!Next
  BY <1>1, <1>3, CreateJobCommits
<1>4. ASSUME NEW j \in Jobs, NEW expected, NEW key \in Keys,
             Command(j, expected, key)
      PROVE  Ledger!Next
  BY <1>1, <1>4, CommandCommits
<1>5. ASSUME NEW j \in Jobs, NEW expected \in 1..MaxVersion, Inquiry(j, expected)
      PROVE  UNCHANGED ledger
  BY <1>5 DEF Inquiry, PreflightRevision, FreezePreview
<1>6. ASSUME NEW op \in Ops, NEW key \in Keys, Replay(op, key)
      PROVE  UNCHANGED ledger
  BY <1>6 DEF Replay, vars
<1>7. ASSUME UNCHANGED vars
      PROVE  UNCHANGED ledger
  BY <1>7 DEF vars
<1> QED
  BY <1>2, <1>3, <1>4, <1>5, <1>6, <1>7 DEF Next

\* The commands of the service implement the serial specification that the
\* store implements under them.
THEOREM LedgerImplemented == Spec => ImplementsLedger
<1>1. Init => Ledger!Init
  <2>1. ASSUME Init, NEW p \in Ops \X Keys
        PROVE  Results[p] = None
    BY <2>1 DEF Init, Results
  <2>2. Init => Results = [p \in Ops \X Keys |-> None]
    BY <2>1 DEF Results
  <2> QED
    BY <2>2 DEF Init, Ledger!Init, Versions, AbsentJob
<1> QED
  BY <1>1, StepExecutes, TypeCorrect, PTL DEF Spec, ImplementsLedger, Ledger!Spec
----------------------------------------------------------------------------
(***************************************************************************)
(* The audit chain, and the releases that refer to it.                     *)
(***************************************************************************)

\* An event chained to the head of a chain that verifies extends it to one.
LEMMA AppendVerifies ==
  ASSUME NEW events \in Seq(AuditEvents), NEW j \in Jobs, NEW op \in Ops,
         VerifyAudit(events)
  PROVE  /\ VerifyAudit(AppendAudit(events, AuditBody(j, op)))
         /\ AppendAudit(events, AuditBody(j, op))[Len(events) + 1].prev
              = ChainHead(events)
<1> DEFINE event == AuditEvent(ChainHead(events), AuditBody(j, op))
           more  == Append(events, event)
<1>1. AppendAudit(events, AuditBody(j, op)) = more
  BY DEF AppendAudit
<1>2. events \in Seq(AuditEvents \cup {event})
  OBVIOUS
<1>3. /\ event.prev = ChainHead(events)
      /\ event.digest = AuditDigest(event.prev, event.body)
  BY DEF AuditEvent
<1> HIDE DEF event
<1>4. /\ Len(events) \in Nat
      /\ Len(more) = Len(events) + 1
      /\ \A n \in 1..Len(events) : more[n] = events[n]
      /\ more[Len(events) + 1] = event
  BY <1>2
<1> HIDE DEF more
<1>5. ASSUME NEW n \in 1..Len(more)
      PROVE  /\ more[n].prev = IF n = 1 THEN <<>> ELSE more[n - 1].digest
             /\ more[n].digest = AuditDigest(more[n].prev, more[n].body)
  <2>1. CASE n \in 1..Len(events)
    <3>1. n # 1 => n - 1 \in 1..Len(events)
      BY <1>4, <2>1
    <3> QED
      BY <1>4, <2>1, <3>1 DEF VerifyAudit
  <2>2. CASE n = Len(events) + 1
    <3>1. more[n] = event
      BY <1>4, <2>2
    <3>2. CASE events = <<>>
      BY <1>3, <2>2, <3>1, <3>2 DEF ChainHead
    <3>3. CASE events # <<>>
      <4>1. n # 1 /\ n - 1 = Len(events) /\ Len(events) \in 1..Len(events)
        BY <2>2, <3>3
      <4>2. more[n - 1] = events[Len(events)]
        BY <1>4, <4>1
      <4> QED
        BY <1>3, <3>1, <3>3, <4>1, <4>2 DEF ChainHead
    <3> QED
      BY <3>2, <3>3
  <2> QED
    BY <1>4, <2>1, <2>2
<1> QED
  BY <1>1, <1>3, <1>4, <1>5 DEF VerifyAudit

\* The tail of a command keeps every chain verifying.
LEMMA CommitVerifies ==
  ASSUME TypeOK, ReleasesVerify, NEW op \in Ops, NEW j \in Jobs, NEW key,
         NEW row, Commit(op, j, key, row)
  PROVE  \A k \in Jobs : VerifyAudit(audit'[k])
<1> SUFFICES ASSUME NEW k \in Jobs
             PROVE  VerifyAudit(audit'[k])
  OBVIOUS
<1>1. audit[k] \in Seq(AuditEvents) /\ VerifyAudit(audit[k])
  BY DEF TypeOK, LedgerTypeOK, ReleasesVerify
<1>2. CASE k = j
  <2>1. audit'[k] = AppendAudit(audit[k], AuditBody(k, op))
    BY <1>2 DEF Commit, TypeOK, LedgerTypeOK
  <2> QED
    BY <1>1, <2>1, AppendVerifies
<1>3. CASE k # j
  BY <1>1, <1>3 DEF Commit, TypeOK, LedgerTypeOK
<1> QED
  BY <1>2, <1>3

\* A release names a revision, and a revision is never rewritten.
LEMMA ReleasedRevision ==
  ASSUME IInv, EvidenceGrows, NEW k \in Jobs, artifacts[k] # None
  PROVE  revisions'[artifacts[k].revision] = revisions[artifacts[k].revision]
<1>1. artifacts[k].revision = Current(k) /\ Current(k) # None
  BY DEF IInv, ReleaseWasReviewed, ReleaseStands, PassedReview
<1>2. Current(k) \in Revisions /\ revisions[Current(k)].job # None
  BY <1>1, CurrentIsRow, WorkflowAssumption DEF IInv
<1> QED
  BY <1>1, <1>2 DEF EvidenceGrows, RevisionKept

\* The verdicts so far name events that are still there.
LEMMA VerdictsKept ==
  ASSUME TypeOK, TypeOK', EvidenceGrows, NEW k \in Jobs, VerdictsStand(k),
         verifications'[k] = verifications[k]
  PROVE  VerdictsStand(k)'
<1>1. Len(audit[k]) \in Nat /\ Len(audit'[k]) \in Nat
  BY DEF TypeOK, LedgerTypeOK
<1>2. /\ Len(audit[k]) <= Len(audit'[k])
      /\ \A m \in 1..Len(audit[k]) : audit'[k][m] = audit[k][m]
  BY DEF EvidenceGrows, LogsExtended, Extends
<1>3. \A m \in 1..Len(audit[k]) : m \in 1..Len(audit'[k])
  BY <1>1, <1>2
<1> QED
  BY <1>2, <1>3 DEF VerdictsStand

\* A job with no new verdict and no new release: its chain may have grown.
LEMMA VerdictFrame ==
  ASSUME IInv, TypeOK', EvidenceGrows, ReleasesVerify, NEW k \in Jobs,
         VerifyAudit(audit'[k]),
         verifications'[k] = verifications[k], artifacts'[k] = artifacts[k]
  PROVE  VerifyAudit(audit[k])' /\ VerdictsStand(k)' /\ ReleaseVerifies(k)'
<1>1. VerdictsStand(k)'
  BY VerdictsKept DEF IInv, ReleasesVerify
<1>2. ReleaseVerifies(k)'
  <2>1. SUFFICES ASSUME artifacts[k] # None
                 PROVE  VerifyRelease(artifacts[k], audit[k])'
    BY DEF ReleasesVerify, ReleaseVerifies
  <2>2. revisions'[artifacts[k].revision] = revisions[artifacts[k].revision]
    BY <2>1, ReleasedRevision
  <2>3. VerifyRelease(artifacts[k], audit[k])
    BY <2>1 DEF ReleasesVerify, ReleaseVerifies
  <2> QED
    BY <2>2, <2>3 DEF VerifyRelease, ContentOf
<1> QED
  BY <1>1, <1>2

\* A release verifies as it is written.
LEMMA FreezeVerifies ==
  ASSUME IInv, IInv', EvidenceGrows, ReleasesVerify, NEW j \in Jobs,
         NEW expected, NEW key \in Keys, Freeze(j, expected, key)
  PROVE  ReleasesVerify'
<1>1. PICK row : Commit("freeze", j, key, row)
  BY DEF Freeze
<1>2. \A k \in Jobs : VerifyAudit(audit'[k])
  BY <1>1, CommitVerifies DEF IInv, Ops
<1>3. UNCHANGED <<revisions, verifications>>
  BY DEF Freeze
<1>4. ASSUME NEW k \in Jobs, k # j
      PROVE  VerifyAudit(audit[k])' /\ VerdictsStand(k)' /\ ReleaseVerifies(k)'
  <2>1. artifacts'[k] = artifacts[k]
    BY <1>4 DEF Freeze, IInv, TypeOK, EvidenceTypeOK
  <2> QED
    BY <1>2, <1>3, <2>1, VerdictFrame DEF IInv
<1>5. VerdictsStand(j)'
  BY <1>3, VerdictsKept DEF IInv, ReleasesVerify
<1>6. ReleaseVerifies(j)'
  <2>1. artifacts'[j] =
          [revision |-> Current(j), track |-> WebVTT[ContentOf(Current(j))],
           manifest |-> BuildManifest(Current(j), ChainHead(audit[j])),
           head |-> ChainHead(audit[j]), status |-> "pending"]
    BY DEF Freeze, IInv, TypeOK, EvidenceTypeOK
  <2>2. ContentOf(Current(j)) = revisions'[Current(j)].content
    BY <1>3 DEF ContentOf
  <2> QED
    BY <1>2, <2>1, <2>2
       DEF ReleaseVerifies, VerifyRelease, BuildManifest, ContentOf
<1> QED
  BY <1>2, <1>4, <1>5, <1>6 DEF ReleasesVerify

\* A verification finds the release good, and names the head its own event is
\* chained to.
LEMMA VerifyAndRecordVerifies ==
  ASSUME IInv, IInv', EvidenceGrows, ReleasesVerify, NEW j \in Jobs,
         NEW expected, NEW key \in Keys, VerifyAndRecord(j, expected, key)
  PROVE  ReleasesVerify'
<1>1. /\ Commit("verify", j, key, jobs[j])
      /\ artifacts[j] # None
      /\ UNCHANGED revisions
  BY DEF VerifyAndRecord
<1>2. \A k \in Jobs : VerifyAudit(audit'[k])
  BY <1>1, CommitVerifies DEF IInv, Ops
<1>3. VerifyAudit(audit[j]) /\ VerifyRelease(artifacts[j], audit[j])
  BY <1>1 DEF ReleasesVerify, ReleaseVerifies
<1>4. /\ verifications' = [verifications EXCEPT ![j] = Append(@,
           [valid |-> TRUE, head |-> ChainHead(audit[j])])]
      /\ artifacts' = [artifacts EXCEPT ![j].status = "verified"]
  BY <1>3 DEF VerifyAndRecord, VerifiedHead
<1>5. ASSUME NEW k \in Jobs, k # j
      PROVE  VerifyAudit(audit[k])' /\ VerdictsStand(k)' /\ ReleaseVerifies(k)'
  <2>1. artifacts'[k] = artifacts[k] /\ verifications'[k] = verifications[k]
    BY <1>4, <1>5 DEF IInv, TypeOK, EvidenceTypeOK
  <2> QED
    BY <1>2, <2>1, VerdictFrame DEF IInv
<1>6. ReleaseVerifies(j)'
  <2>1. artifacts[j] \in ArtifactRows
    BY <1>1 DEF IInv, TypeOK, EvidenceTypeOK
  <2>2. /\ artifacts'[j].status = "verified"
        /\ artifacts'[j].revision = artifacts[j].revision
        /\ artifacts'[j].track = artifacts[j].track
        /\ artifacts'[j].manifest = artifacts[j].manifest
        /\ artifacts'[j].head = artifacts[j].head
    BY <1>4, <2>1 DEF IInv, TypeOK, EvidenceTypeOK, ArtifactRows
  <2> QED
    BY <1>1, <1>2, <1>3, <2>2 DEF ReleaseVerifies, VerifyRelease, ContentOf
<1>7. VerdictsStand(j)'
  <2> DEFINE verdict == [valid |-> TRUE, head |-> ChainHead(audit[j])]
  <2>1. /\ audit[j] \in Seq(AuditEvents)
        /\ audit'[j] = AppendAudit(audit[j], AuditBody(j, "verify"))
        /\ audit'[j] \in Seq(AuditEvents)
    BY <1>1 DEF Commit, IInv, TypeOK, LedgerTypeOK
  <2>2. audit'[j][Len(audit[j]) + 1].prev = verdict.head
    BY <1>3, <2>1, AppendVerifies DEF Ops
  <2>3. Len(audit'[j]) = Len(audit[j]) + 1
    BY <2>1 DEF AppendAudit
  <2>4. \A m \in 1..Len(audit[j]) : audit'[j][m] = audit[j][m]
    BY DEF EvidenceGrows, LogsExtended, Extends
  <2>5. /\ verifications[j] \in Seq(VerificationRows)
        /\ verifications'[j] = Append(verifications[j], verdict)
    BY <1>4 DEF IInv, TypeOK, EvidenceTypeOK
  <2>6. verdict \in VerificationRows
    BY <2>1, ChainHeadType DEF VerificationRows
  <2> SUFFICES ASSUME NEW n \in DOMAIN verifications'[j]
               PROVE  /\ verifications'[j][n].valid
                      /\ \E m \in 1..Len(audit'[j]) :
                           verifications'[j][n].head = audit'[j][m].prev
    BY DEF VerdictsStand
  <2>7. CASE n \in DOMAIN verifications[j]
    <3>1. verifications'[j][n] = verifications[j][n]
      BY <2>5, <2>6, <2>7
    <3>2. VerdictsStand(j)
      BY DEF ReleasesVerify
    <3>3. PICK m \in 1..Len(audit[j]) : verifications[j][n].head = audit[j][m].prev
      BY <2>7, <3>2 DEF VerdictsStand
    <3>4. m \in 1..Len(audit'[j])
      BY <2>1, <2>3
    <3> QED
      BY <2>4, <2>7, <3>1, <3>2, <3>3, <3>4 DEF VerdictsStand
  <2>8. CASE n \notin DOMAIN verifications[j]
    <3>1. verifications'[j][n] = verdict
      BY <2>5, <2>6, <2>8
    <3>2. Len(audit[j]) + 1 \in 1..Len(audit'[j])
      BY <2>1, <2>3
    <3> QED
      BY <2>2, <3>1, <3>2
  <2> QED
    BY <2>7, <2>8
<1> QED
  BY <1>2, <1>5, <1>6, <1>7 DEF ReleasesVerify

\* Every step keeps chains, verdicts and releases good.
LEMMA StepVerifies ==
  ASSUME IInv, IInv', ReleasesVerify, [Next]_vars
  PROVE  ReleasesVerify'
<1>1. EvidenceGrows
  BY StepGrows DEF IInv
<1>2. ASSUME UNCHANGED <<verifications, artifacts>>,
             \A k \in Jobs : VerifyAudit(audit'[k])
      PROVE  ReleasesVerify'
  BY <1>1, <1>2, VerdictFrame DEF IInv, ReleasesVerify
<1>3. ASSUME NEW op \in Ops, NEW j \in Jobs, NEW key, NEW row,
             Commit(op, j, key, row), UNCHANGED <<verifications, artifacts>>
      PROVE  ReleasesVerify'
  BY <1>2, <1>3, CommitVerifies DEF IInv
<1>4. ASSUME UNCHANGED <<evidence, ledger>>
      PROVE  ReleasesVerify'
  BY <1>2, <1>4 DEF ReleasesVerify, evidence, ledger
<1>5. ASSUME NEW j \in Jobs, NEW key \in Keys, CreateJob(j, key)
      PROVE  ReleasesVerify'
  BY <1>3, <1>5 DEF CreateJob, Ops, evidence
<1>6. ASSUME NEW j \in Jobs, NEW expected, NEW key \in Keys,
             Command(j, expected, key)
      PROVE  ReleasesVerify'
  <2>1. CASE SubmitRevision(j, expected, key)
    BY <1>3, <2>1 DEF SubmitRevision, Ops
  <2>2. CASE RunQuality(j, expected, key)
    BY <1>3, <2>2 DEF RunQuality, Ops
  <2>3. CASE DispositionFinding(j, expected, key)
    BY <1>3, <2>3 DEF DispositionFinding, Dispose, Ops
  <2>4. CASE BatchDisposition(j, expected, key)
    BY <1>3, <2>4 DEF BatchDisposition, Dispose, Ops
  <2>5. CASE Review(j, expected, key)
    BY <1>3, <2>5 DEF Review, Ops
  <2>6. CASE Freeze(j, expected, key)
    BY <1>1, <2>6, FreezeVerifies
  <2>7. CASE VerifyAndRecord(j, expected, key)
    BY <1>1, <2>7, VerifyAndRecordVerifies
  <2> QED
    BY <1>6, <2>1, <2>2, <2>3, <2>4, <2>5, <2>6, <2>7 DEF Command
<1>7. ASSUME NEW j \in Jobs, NEW expected \in 1..MaxVersion, Inquiry(j, expected)
      PROVE  ReleasesVerify'
  BY <1>4, <1>7 DEF Inquiry, PreflightRevision, FreezePreview
<1>8. ASSUME NEW op \in Ops, NEW key \in Keys, Replay(op, key)
      PROVE  ReleasesVerify'
  BY <1>4, <1>8 DEF Replay, vars
<1>9. ASSUME UNCHANGED vars
      PROVE  ReleasesVerify'
  BY <1>4, <1>9 DEF vars
<1> QED
  BY <1>5, <1>6, <1>7, <1>8, <1>9 DEF Next

\* A release verifies for good, however far its chain has grown since.
THEOREM ReleasesAlwaysVerify == Spec => []ReleasesVerify
<1>1. Init => ReleasesVerify
  BY DEF Init, ReleasesVerify, VerifyAudit, VerdictsStand, ReleaseVerifies
<1>2. IInv /\ IInv' /\ ReleasesVerify /\ [Next]_vars => ReleasesVerify'
  BY StepVerifies
<1> QED
  BY <1>1, <1>2, Invariance, PTL DEF Spec
----------------------------------------------------------------------------
(***************************************************************************)
(* CaptionWorkflow implements CaptionLifecycle: its initial states map to  *)
(* initial states, and every step to a step of the lifecycle or to none.   *)
(***************************************************************************)

\* What users see of a job.
View(j) == <<Phase(jobs[j].status), TextOf(j), PassedByOf(j), TrackOf(j)>>

\* A job that was not created has no text.
AbsentIsEmpty == \A j \in Jobs : jobs[j].status = "absent" => Current(j) = None

\* The phases are told apart by the status.
LEMMA PhaseOfStatus ==
  /\ Phase("absent") = "unknown"
  /\ Phase("draft") = "writing" /\ Phase("remediating") = "writing"
  /\ Phase("review_ready") = "examined"
  /\ Phase("approved") = "passed"
  /\ Phase("frozen") = "published"
  BY DEF Phase

\* When one job is seen to change, the four maps change at that job.
LEMMA OneJobSeen ==
  ASSUME NEW j \in Jobs, \A k \in Jobs : k # j => View(k)' = View(k)
  PROVE  /\ Phases' = [Phases EXCEPT ![j] = Phase(jobs'[j].status)]
         /\ WorkingText' = [WorkingText EXCEPT ![j] = TextOf(j)']
         /\ Passers' = [Passers EXCEPT ![j] = PassedByOf(j)']
         /\ Tracks' = [Tracks EXCEPT ![j] = TrackOf(j)']
<1>1. ASSUME NEW k \in Jobs, k # j
      PROVE  /\ Phase(jobs[k].status)' = Phase(jobs[k].status)
             /\ TextOf(k)' = TextOf(k)
             /\ PassedByOf(k)' = PassedByOf(k)
             /\ TrackOf(k)' = TrackOf(k)
  BY <1>1 DEF View
<1>2. Phases' = [Phases EXCEPT ![j] = Phase(jobs'[j].status)]
  BY <1>1 DEF Phases
<1>3. WorkingText' = [WorkingText EXCEPT ![j] = TextOf(j)']
  BY <1>1 DEF WorkingText
<1>4. Passers' = [Passers EXCEPT ![j] = PassedByOf(j)']
  BY <1>1 DEF Passers
<1>5. Tracks' = [Tracks EXCEPT ![j] = TrackOf(j)']
  BY <1>1 DEF Tracks
<1> QED
  BY <1>2, <1>3, <1>4, <1>5

\* When no job is seen to change, neither are the maps.
LEMMA NoJobSeen ==
  ASSUME \A k \in Jobs : View(k)' = View(k)
  PROVE  UNCHANGED Lifecycle!vars
<1>1. ASSUME NEW k \in Jobs
      PROVE  /\ Phase(jobs[k].status)' = Phase(jobs[k].status)
             /\ TextOf(k)' = TextOf(k)
             /\ PassedByOf(k)' = PassedByOf(k)
             /\ TrackOf(k)' = TrackOf(k)
  BY <1>1 DEF View
<1>2. Phases' = Phases /\ WorkingText' = WorkingText
  BY <1>1 DEF Phases, WorkingText
<1>3. Passers' = Passers /\ Tracks' = Tracks
  BY <1>1 DEF Passers, Tracks
<1> QED
  BY <1>2, <1>3 DEF Lifecycle!vars

\* The text of a job stays while its current revision does.
LEMMA TextStays ==
  ASSUME IInv, EvidenceGrows, NEW k \in Jobs,
         jobs'[k].current = jobs[k].current
  PROVE  TextOf(k)' = TextOf(k)
<1>1. Current(k)' = Current(k)
  BY DEF Current
<1>2. CASE Current(k) = None
  BY <1>1, <1>2 DEF TextOf
<1>3. CASE Current(k) # None
  <2>1. Current(k) \in Revisions /\ revisions[Current(k)].job # None
    BY <1>3, CurrentIsRow, WorkflowAssumption DEF IInv
  <2>2. revisions'[Current(k)] = revisions[Current(k)]
    BY <2>1 DEF EvidenceGrows, RevisionKept
  <2> QED
    BY <1>1, <1>3, <2>2 DEF TextOf, ContentOf
<1> QED
  BY <1>2, <1>3

\* Nothing is seen of a job whose row, reviews and release were not written.
LEMMA ViewFrame ==
  ASSUME IInv, EvidenceGrows, NEW k \in Jobs,
         jobs'[k] = jobs[k], reviews'[k] = reviews[k], artifacts'[k] = artifacts[k]
  PROVE  View(k)' = View(k)
<1>1. TextOf(k)' = TextOf(k)
  BY TextStays
<1>2. PassedByOf(k)' = PassedByOf(k) /\ TrackOf(k)' = TrackOf(k)
  BY DEF PassedByOf, TrackOf, LastReviewer
<1> QED
  BY <1>1, <1>2 DEF View
----------------------------------------------------------------------------
(***************************************************************************)
(* One lemma per command: the lifecycle step it is.                        *)
(***************************************************************************)

\* What users see of a job, read off the four maps.
LEMMA MapsAt ==
  ASSUME NEW j \in Jobs
  PROVE  /\ Phases[j] = Phase(jobs[j].status)
         /\ WorkingText[j] = TextOf(j)
         /\ Passers[j] = PassedByOf(j)
         /\ Tracks[j] = TrackOf(j)
  BY DEF Phases, WorkingText, Passers, Tracks

\* A map written with the value it had is the map it was.
LEMMA MapsKept ==
  ASSUME NEW j \in Jobs
  PROVE  /\ [WorkingText EXCEPT ![j] = TextOf(j)] = WorkingText
         /\ [Passers EXCEPT ![j] = PassedByOf(j)] = Passers
         /\ [Tracks EXCEPT ![j] = TrackOf(j)] = Tracks
  BY DEF WorkingText, Passers, Tracks

\* A command writes the row of its own job.
LEMMA CommitOthers ==
  ASSUME IInv, NEW op, NEW j \in Jobs, NEW key, NEW row, Commit(op, j, key, row)
  PROVE  \A k \in Jobs : k # j => jobs'[k] = jobs[k]
  BY DEF Commit, IInv, TypeOK, LedgerTypeOK

\* Creating a job opens it.
LEMMA CreateJobOpens ==
  ASSUME IInv, AbsentIsEmpty, EvidenceGrows, NEW j \in Jobs, NEW key \in Keys,
         CreateJob(j, key)
  PROVE  Lifecycle!Open(j)
<1>1. PICK profile \in Profiles :
        Commit("create_job", j, key,
               [AbsentJob EXCEPT !.status = "draft", !.profile = profile])
  BY DEF CreateJob
<1>2. UNCHANGED evidence /\ jobs[j].status = "absent" /\ Current(j) = None
  BY DEF CreateJob, AbsentIsEmpty
<1>3. jobs'[j].status = "draft" /\ jobs'[j].current = None
  BY <1>1 DEF Commit, AbsentJob, IInv, TypeOK, LedgerTypeOK
<1>4. \A k \in Jobs : k # j => View(k)' = View(k)
  BY <1>1, <1>2, CommitOthers, ViewFrame DEF evidence
<1>5. TextOf(j)' = TextOf(j)
  BY <1>2, <1>3 DEF TextOf, Current
<1>6. PassedByOf(j)' = PassedByOf(j) /\ TrackOf(j)' = TrackOf(j)
  BY <1>2, <1>3 DEF PassedByOf, TrackOf, evidence
<1>7. UNCHANGED <<WorkingText, Passers, Tracks>>
  BY <1>4, <1>5, <1>6, OneJobSeen, MapsKept
<1>8. Phases[j] = "unknown" /\ Phases' = [Phases EXCEPT ![j] = "writing"]
  BY <1>2, <1>3, <1>4, MapsAt, OneJobSeen, PhaseOfStatus
<1> QED
  BY <1>7, <1>8 DEF Lifecycle!Open

\* Where a job stands that is neither unknown nor published.
LEMMA InProgress ==
  ASSUME IInv, NEW j \in Jobs, jobs[j].status \notin {"absent", "frozen"}
  PROVE  Phases[j] \in {"writing", "examined", "passed"}
<1>1. jobs[j].status \in {"draft", "remediating", "review_ready", "approved"}
  BY DEF IInv, TypeOK, LedgerTypeOK, JobRows, Statuses
<1> QED
  BY <1>1, MapsAt, PhaseOfStatus

\* Submitting a revision writes a new text.
LEMMA SubmitRevisionWrites ==
  ASSUME IInv, EvidenceGrows, NEW j \in Jobs, NEW expected, NEW key \in Keys,
         SubmitRevision(j, expected, key)
  PROVE  Lifecycle!Write(j)
<1>1. PICK r \in Revisions, parent \in Revisions \cup {None},
           author \in People, content \in Contents,
           status \in {"draft", "remediating"} :
        /\ ValidateNewRevision(j, parent)
        /\ revisions' = [revisions EXCEPT ![r] =
             [job |-> j, parent |-> parent, sequence |-> NextSequence(j),
              author |-> author, content |-> content]]
        /\ Commit("submit_revision", j, key,
                  [jobs[j] EXCEPT !.current = r, !.status = status])
  BY DEF SubmitRevision
<1>2. UNCHANGED <<reviews, artifacts>> /\ jobs[j].status \notin {"absent", "frozen"}
  BY <1>1 DEF SubmitRevision, Admit, ValidateNewRevision, EnsureMutable
<1>3. jobs'[j].status = status /\ jobs'[j].current = r
  BY <1>1 DEF Commit, IInv, TypeOK, LedgerTypeOK, JobRows
<1>4. \A k \in Jobs : k # j => View(k)' = View(k)
  BY <1>1, <1>2, CommitOthers, ViewFrame
<1>5. TextOf(j)' = [content |-> content, author |-> author]
  <2>1. revisions'[r].content = content /\ revisions'[r].author = author
    BY <1>1 DEF IInv, TypeOK, EvidenceTypeOK
  <2> QED
    BY <1>3, <2>1, WorkflowAssumption DEF TextOf, Current, ContentOf
<1>6. TextOf(j)' \in Lifecycle!Texts
  BY <1>5 DEF Lifecycle!Texts
<1>7. PassedByOf(j)' = None /\ TrackOf(j)' = TrackOf(j)
  BY <1>2, <1>3 DEF PassedByOf, TrackOf
<1>8. Phase(jobs'[j].status) = "writing"
  BY <1>3, PhaseOfStatus
<1>9. /\ Phases' = [Phases EXCEPT ![j] = "writing"]
      /\ WorkingText' = [WorkingText EXCEPT ![j] = TextOf(j)']
      /\ Passers' = [Passers EXCEPT ![j] = None]
      /\ Tracks' = Tracks
  BY <1>4, <1>7, <1>8, OneJobSeen, MapsKept
<1> QED
  BY <1>2, <1>6, <1>9, InProgress DEF Lifecycle!Write

\* A command that leaves a job in work with the text it had, or up for review,
\* examines it.
LEMMA StatusExamines ==
  ASSUME IInv, EvidenceGrows, NEW op, NEW j \in Jobs, NEW key,
         NEW status \in {"remediating", "review_ready"},
         Commit(op, j, key, [jobs[j] EXCEPT !.status = status]),
         jobs[j].status \notin {"absent", "frozen"}, Current(j) # None,
         \A k \in Jobs : k # j => reviews'[k] = reviews[k],
         UNCHANGED artifacts
  PROVE  Lifecycle!Examine(j)
<1>1. jobs'[j].status = status /\ jobs'[j].current = jobs[j].current
  BY DEF Commit, IInv, TypeOK, LedgerTypeOK, JobRows
<1>2. \A k \in Jobs : k # j => View(k)' = View(k)
  BY CommitOthers, ViewFrame
<1>3. TextOf(j)' = TextOf(j)
  BY <1>1, TextStays
<1>4. PassedByOf(j)' = None /\ TrackOf(j)' = TrackOf(j)
  BY <1>1 DEF PassedByOf, TrackOf
<1>5. Phase(jobs'[j].status) \in {"writing", "examined"}
  BY <1>1, PhaseOfStatus
<1>6. WorkingText[j] # None
  <2>1. revisions[Current(j)].author \in People /\ ContentOf(Current(j)) \in Contents
    BY CurrentIsRow DEF IInv
  <2>2. TextOf(j) \in [content : Contents, author : People]
    BY <2>1 DEF TextOf
  <2> QED
    BY <2>2, MapsAt, NoneIsNoRow
<1>7. /\ Phases' = [Phases EXCEPT ![j] = Phase(jobs'[j].status)]
      /\ WorkingText' = WorkingText
      /\ Passers' = [Passers EXCEPT ![j] = None]
      /\ Tracks' = Tracks
  BY <1>2, <1>3, <1>4, OneJobSeen, MapsKept
<1> QED
  BY <1>5, <1>6, <1>7, InProgress DEF Lifecycle!Examine

\* Running the rules examines the text.
LEMMA RunQualityExamines ==
  ASSUME IInv, EvidenceGrows, NEW j \in Jobs, NEW expected, NEW key \in Keys,
         RunQuality(j, expected, key)
  PROVE  Lifecycle!Examine(j)
<1>1. PICK status \in {"remediating", "review_ready"} :
        Commit("run_quality", j, key, [jobs[j] EXCEPT !.status = status])
  BY StatusAfterFindingsType DEF RunQuality
<1>2. /\ jobs[j].status \notin {"absent", "frozen"}
      /\ Current(j) # None
      /\ UNCHANGED <<reviews, artifacts>>
  BY DEF RunQuality, Admit, EnsureMutable
<1> QED
  BY <1>1, <1>2, StatusExamines

\* So does a disposition, single or in a batch: the job is in work.
LEMMA DisposeExamines ==
  ASSUME IInv, EvidenceGrows, NEW op, NEW j \in Jobs, NEW key, NEW chosen,
         jobs[j].status # "absent",
         DOMAIN chosen # {}, DOMAIN chosen \subseteq Issues,
         Dispose(op, j, key, chosen)
  PROVE  Lifecycle!Examine(j)
<1>1. PICK status \in {"remediating", "review_ready"} :
        Commit(op, j, key, [jobs[j] EXCEPT !.status = status])
  BY StatusAfterFindingsType DEF Dispose
<1>2. Current(j) # None /\ UNCHANGED <<reviews, artifacts>>
  BY DEF Dispose
<1>3. jobs[j].status # "frozen"
  BY DisposedInWork
<1> QED
  BY <1>1, <1>2, <1>3, StatusExamines

\* An approval passes the text, a rejection sends it back.
LEMMA ReviewPasses ==
  ASSUME IInv, EvidenceGrows, NEW j \in Jobs, NEW expected, NEW key \in Keys,
         Review(j, expected, key)
  PROVE  Lifecycle!Pass(j) \/ Lifecycle!Examine(j)
<1>1. PICK reviewer \in People, decision \in Decisions,
           sample \in SUBSET SegmentIDs(ContentOf(Current(j))) :
        /\ MayReview(j, reviewer)
        /\ reviews' = [reviews EXCEPT ![j] = Append(@,
             [revision |-> Current(j), reviewer |-> reviewer,
              sample |-> sample, decision |-> decision])]
        /\ Commit("review", j, key,
                  [jobs[j] EXCEPT !.status = StatusAfterReview(decision)])
  BY DEF Review
<1>2. /\ Current(j) # None
      /\ jobs[j].status = "review_ready"
      /\ reviewer # revisions[Current(j)].author
      /\ UNCHANGED artifacts
  BY <1>1 DEF Review, MayReview
<1>3. \A k \in Jobs : k # j => reviews'[k] = reviews[k]
  BY <1>1 DEF IInv, TypeOK, EvidenceTypeOK
<1>4. CASE decision # "approve"
  <2>1. Commit("review", j, key, [jobs[j] EXCEPT !.status = "remediating"])
    BY <1>1, <1>4 DEF StatusAfterReview
  <2> QED
    BY <1>2, <1>3, <2>1, StatusExamines
<1>5. CASE decision = "approve"
  <2>1. Commit("review", j, key, [jobs[j] EXCEPT !.status = "approved"])
    BY <1>1, <1>5 DEF StatusAfterReview
  <2>2. jobs'[j].status = "approved" /\ jobs'[j].current = jobs[j].current
    BY <2>1 DEF Commit, IInv, TypeOK, LedgerTypeOK, JobRows
  <2>3. \A k \in Jobs : k # j => View(k)' = View(k)
    BY <1>2, <1>3, <2>1, CommitOthers, ViewFrame
  <2>4. TextOf(j)' = TextOf(j) /\ TrackOf(j)' = TrackOf(j)
    BY <1>2, <2>2, TextStays DEF TrackOf
  <2>5. PassedByOf(j)' = reviewer
    <3> DEFINE entry == [revision |-> Current(j), reviewer |-> reviewer,
                         sample |-> sample, decision |-> decision]
    <3>1. reviews[j] \in Seq(ReviewRows \cup {entry})
      BY DEF IInv, TypeOK, EvidenceTypeOK
    <3>2. reviews'[j] = Append(reviews[j], entry)
      BY <1>1 DEF IInv, TypeOK, EvidenceTypeOK
    <3>3. entry.reviewer = reviewer
      OBVIOUS
    <3> HIDE DEF entry
    <3>4. /\ reviews'[j] # <<>>
          /\ reviews'[j][Len(reviews'[j])] = entry
      BY <3>1, <3>2
    <3> QED
      BY <2>2, <3>3, <3>4 DEF PassedByOf, LastReviewer
  <2>6. WorkingText[j].author = revisions[Current(j)].author
    <3>1. TextOf(j) = [content |-> ContentOf(Current(j)),
                       author  |-> revisions[Current(j)].author]
      BY <1>2 DEF TextOf
    <3> QED
      BY <3>1, MapsAt
  <2>7. Phases[j] = "examined"
    BY <1>2, MapsAt, PhaseOfStatus
  <2>8. /\ Phases' = [Phases EXCEPT ![j] = "passed"]
        /\ WorkingText' = WorkingText
        /\ Passers' = [Passers EXCEPT ![j] = reviewer]
        /\ Tracks' = Tracks
    BY <2>2, <2>3, <2>4, <2>5, OneJobSeen, MapsKept, PhaseOfStatus
  <2> QED
    BY <1>2, <2>6, <2>7, <2>8 DEF Lifecycle!Pass
<1> QED
  BY <1>4, <1>5

\* A freeze publishes the text that was passed.
LEMMA FreezePublishes ==
  ASSUME IInv, EvidenceGrows, NEW j \in Jobs, NEW expected, NEW key \in Keys,
         Freeze(j, expected, key)
  PROVE  Lifecycle!Publish(j)
<1>1. /\ Commit("freeze", j, key, [jobs[j] EXCEPT !.status = "frozen"])
      /\ jobs[j].status = "approved"
      /\ Current(j) # None
      /\ UNCHANGED reviews
  BY DEF Freeze, ValidateFreeze
<1>2. /\ artifacts'[j] # None
      /\ artifacts'[j].track = WebVTT[ContentOf(Current(j))]
      /\ \A k \in Jobs : k # j => artifacts'[k] = artifacts[k]
  <2>1. artifacts' = [artifacts EXCEPT ![j] =
          [revision |-> Current(j), track |-> WebVTT[ContentOf(Current(j))],
           manifest |-> BuildManifest(Current(j), ChainHead(audit[j])),
           head |-> ChainHead(audit[j]), status |-> "pending"]]
    BY DEF Freeze
  <2>2. artifacts'[j] # None
    BY <1>1, FreezeStands DEF IInv, ReleaseWasReviewed, ReleaseStands,
                              Commit, TypeOK, LedgerTypeOK, JobRows
  <2> QED
    BY <2>1, <2>2 DEF IInv, TypeOK, EvidenceTypeOK
<1>3. jobs'[j].status = "frozen" /\ jobs'[j].current = jobs[j].current
  BY <1>1 DEF Commit, IInv, TypeOK, LedgerTypeOK, JobRows
<1>4. \A k \in Jobs : k # j => View(k)' = View(k)
  BY <1>1, <1>2, CommitOthers, ViewFrame
<1>5. TextOf(j)' = TextOf(j)
  BY <1>3, TextStays
<1>6. PassedByOf(j)' = PassedByOf(j)
  BY <1>1, <1>3 DEF PassedByOf, LastReviewer
<1>7. TrackOf(j)' = WebVTT[WorkingText[j].content]
  <2>1. TextOf(j) = [content |-> ContentOf(Current(j)),
                     author  |-> revisions[Current(j)].author]
    BY <1>1 DEF TextOf
  <2>2. WorkingText[j].content = ContentOf(Current(j))
    BY <2>1, MapsAt
  <2> QED
    BY <1>2, <2>2 DEF TrackOf
<1>8. Phases[j] = "passed"
  BY <1>1, MapsAt, PhaseOfStatus
<1>9. /\ Phases' = [Phases EXCEPT ![j] = "published"]
      /\ UNCHANGED <<WorkingText, Passers>>
      /\ Tracks' = [Tracks EXCEPT ![j] = TrackOf(j)']
  BY <1>3, <1>4, <1>5, <1>6, OneJobSeen, MapsKept, PhaseOfStatus
<1> QED
  BY <1>7, <1>8, <1>9 DEF Lifecycle!Publish

\* A verification is not seen: it changes a version and a mark on the release.
LEMMA VerifyAndRecordUnseen ==
  ASSUME IInv, EvidenceGrows, NEW j \in Jobs, NEW expected, NEW key \in Keys,
         VerifyAndRecord(j, expected, key)
  PROVE  UNCHANGED Lifecycle!vars
<1>1. PICK status \in {"verified", "failed"} :
        artifacts' = [artifacts EXCEPT ![j].status = status]
  BY DEF VerifyAndRecord
<1>2. /\ Commit("verify", j, key, jobs[j])
      /\ artifacts[j] # None
      /\ UNCHANGED reviews
  BY DEF VerifyAndRecord
<1>3. \A k \in Jobs : k # j => View(k)' = View(k)
  <2>1. \A k \in Jobs : k # j => artifacts'[k] = artifacts[k]
    BY <1>1 DEF IInv, TypeOK, EvidenceTypeOK
  <2> QED
    BY <1>2, <2>1, CommitOthers, ViewFrame
<1>4. /\ jobs'[j].status = jobs[j].status
      /\ jobs'[j].current = jobs[j].current
  BY <1>2 DEF Commit, IInv, TypeOK, LedgerTypeOK, JobRows
<1>5. TrackOf(j)' = TrackOf(j)
  <2>1. artifacts[j] \in ArtifactRows
    BY <1>2 DEF IInv, TypeOK, EvidenceTypeOK
  <2>2. artifacts'[j] = [artifacts[j] EXCEPT !.status = status]
    BY <1>1 DEF IInv, TypeOK, EvidenceTypeOK
  <2>3. artifacts'[j] \in ArtifactRows /\ artifacts'[j].track = artifacts[j].track
    BY <2>1, <2>2 DEF ArtifactRows
  <2>4. artifacts'[j] # None
    BY <2>3, NoneIsNoRow
  <2> QED
    BY <1>2, <2>3, <2>4 DEF TrackOf
<1>6. TextOf(j)' = TextOf(j) /\ PassedByOf(j)' = PassedByOf(j)
  BY <1>2, <1>4, TextStays DEF PassedByOf, LastReviewer
<1>7. View(j)' = View(j)
  BY <1>4, <1>5, <1>6 DEF View
<1> QED
  BY <1>3, <1>7, NoJobSeen
----------------------------------------------------------------------------
\* Every step of the commands is a step of the lifecycle, or none.
LEMMA StepImplements ==
  ASSUME IInv, AbsentIsEmpty, [Next]_vars
  PROVE  [Lifecycle!Next]_(Lifecycle!vars)
<1>1. EvidenceGrows
  BY StepGrows DEF IInv
<1>2. ASSUME UNCHANGED <<evidence, ledger>>
      PROVE  UNCHANGED Lifecycle!vars
  <2>1. \A k \in Jobs : View(k)' = View(k)
    BY <1>1, <1>2, ViewFrame DEF evidence, ledger
  <2> QED
    BY <2>1, NoJobSeen
<1>3. ASSUME NEW j \in Jobs, NEW key \in Keys, CreateJob(j, key)
      PROVE  Lifecycle!Next
  BY <1>1, <1>3, CreateJobOpens DEF Lifecycle!Next
<1>4. ASSUME NEW j \in Jobs, NEW expected, NEW key \in Keys,
             Command(j, expected, key)
      PROVE  Lifecycle!Next \/ UNCHANGED Lifecycle!vars
  <2>1. CASE SubmitRevision(j, expected, key)
    BY <1>1, <2>1, SubmitRevisionWrites DEF Lifecycle!Next
  <2>2. CASE RunQuality(j, expected, key)
    BY <1>1, <2>2, RunQualityExamines DEF Lifecycle!Next
  <2>3. CASE DispositionFinding(j, expected, key)
    <3>1. jobs[j].status # "absent"
      BY <2>3 DEF DispositionFinding, Admit
    <3>2. PICK i \in Issues : \E chosen \in [{i} -> Resolutions] :
            Dispose("disposition_finding", j, key, chosen)
      BY <2>3 DEF DispositionFinding
    <3> QED
      BY <1>1, <3>1, <3>2, DisposeExamines DEF Lifecycle!Next
  <2>4. CASE BatchDisposition(j, expected, key)
    <3>1. jobs[j].status # "absent"
      BY <2>4 DEF BatchDisposition, Admit
    <3>2. PICK named \in SUBSET Issues :
            /\ Cardinality(named) \in 1..MaxBatch
            /\ \E chosen \in [named -> Resolutions] :
                 Dispose("batch_disposition", j, key, chosen)
      BY <2>4 DEF BatchDisposition
    <3>3. named # {}
      BY <3>2, FS_EmptySet
    <3> QED
      BY <1>1, <3>1, <3>2, <3>3, DisposeExamines DEF Lifecycle!Next
  <2>5. CASE Review(j, expected, key)
    BY <1>1, <2>5, ReviewPasses DEF Lifecycle!Next
  <2>6. CASE Freeze(j, expected, key)
    BY <1>1, <2>6, FreezePublishes DEF Lifecycle!Next
  <2>7. CASE VerifyAndRecord(j, expected, key)
    BY <1>1, <2>7, VerifyAndRecordUnseen
  <2> QED
    BY <1>4, <2>1, <2>2, <2>3, <2>4, <2>5, <2>6, <2>7 DEF Command
<1>5. ASSUME NEW j \in Jobs, NEW expected \in 1..MaxVersion, Inquiry(j, expected)
      PROVE  UNCHANGED Lifecycle!vars
  BY <1>2, <1>5 DEF Inquiry, PreflightRevision, FreezePreview
<1>6. ASSUME NEW op \in Ops, NEW key \in Keys, Replay(op, key)
      PROVE  UNCHANGED Lifecycle!vars
  BY <1>2, <1>6 DEF Replay, vars
<1>7. ASSUME UNCHANGED vars
      PROVE  UNCHANGED Lifecycle!vars
  BY <1>2, <1>7 DEF vars
<1> QED
  BY <1>3, <1>4, <1>5, <1>6, <1>7 DEF Next

\* A command leaves its job created.
LEMMA AbsentStep ==
  ASSUME IInv, AbsentIsEmpty, [Next]_vars
  PROVE  AbsentIsEmpty'
<1>1. ASSUME NEW op, NEW j \in Jobs, NEW key, NEW row, Commit(op, j, key, row),
             jobs'[j].status # "absent"
      PROVE  AbsentIsEmpty'
  BY <1>1, CommitOthers DEF AbsentIsEmpty, Current
<1>2. ASSUME NEW op, NEW j \in Jobs, NEW key, NEW status \in Statuses,
             Commit(op, j, key, [jobs[j] EXCEPT !.status = status])
      PROVE  AbsentIsEmpty'
  <2>1. jobs'[j].status # "absent"
    BY <1>2, CommitStatus DEF IInv, Statuses
  <2> QED
    BY <1>1, <1>2, <2>1
<1>3. ASSUME NEW j \in Jobs, NEW key \in Keys, CreateJob(j, key)
      PROVE  AbsentIsEmpty'
  <2>1. PICK profile \in Profiles :
          Commit("create_job", j, key,
                 [AbsentJob EXCEPT !.status = "draft", !.profile = profile])
    BY <1>3 DEF CreateJob
  <2>2. jobs'[j].status = "draft"
    BY <2>1 DEF Commit, AbsentJob, IInv, TypeOK, LedgerTypeOK
  <2> QED
    BY <1>1, <2>1, <2>2
<1>4. ASSUME NEW j \in Jobs, NEW expected, NEW key \in Keys,
             Command(j, expected, key)
      PROVE  AbsentIsEmpty'
  <2>1. CASE SubmitRevision(j, expected, key)
    <3>1. PICK r \in Revisions, status \in {"draft", "remediating"} :
            Commit("submit_revision", j, key,
                   [jobs[j] EXCEPT !.current = r, !.status = status])
      BY <2>1 DEF SubmitRevision
    <3>2. jobs'[j].status = status
      BY <3>1 DEF Commit, IInv, TypeOK, LedgerTypeOK, JobRows
    <3> QED
      BY <1>1, <3>1, <3>2
  <2>2. CASE RunQuality(j, expected, key)
    BY <1>2, <2>2, StatusAfterFindingsType DEF RunQuality, Statuses
  <2>3. ASSUME NEW op, NEW chosen, Dispose(op, j, key, chosen)
        PROVE  AbsentIsEmpty'
    BY <1>2, <2>3, StatusAfterFindingsType DEF Dispose, Statuses
  <2>4. CASE DispositionFinding(j, expected, key)
    BY <2>3, <2>4 DEF DispositionFinding
  <2>5. CASE BatchDisposition(j, expected, key)
    BY <2>3, <2>5 DEF BatchDisposition
  <2>6. CASE Review(j, expected, key)
    BY <1>2, <2>6 DEF Review, StatusAfterReview, Statuses
  <2>7. CASE Freeze(j, expected, key)
    BY <1>2, <2>7 DEF Freeze, Statuses
  <2>8. CASE VerifyAndRecord(j, expected, key)
    <3>1. Commit("verify", j, key, jobs[j]) /\ jobs[j].status # "absent"
      BY <2>8 DEF VerifyAndRecord, Admit
    <3>2. jobs'[j].status = jobs[j].status
      BY <3>1 DEF Commit, IInv, TypeOK, LedgerTypeOK, JobRows
    <3> QED
      BY <1>1, <3>1, <3>2
  <2> QED
    BY <1>4, <2>1, <2>2, <2>4, <2>5, <2>6, <2>7, <2>8 DEF Command
<1>5. ASSUME UNCHANGED jobs
      PROVE  AbsentIsEmpty'
  BY <1>5 DEF AbsentIsEmpty, Current
<1>6. ASSUME NEW j \in Jobs, NEW expected \in 1..MaxVersion, Inquiry(j, expected)
      PROVE  AbsentIsEmpty'
  BY <1>5, <1>6 DEF Inquiry, PreflightRevision, FreezePreview, ledger
<1>7. ASSUME NEW op \in Ops, NEW key \in Keys, Replay(op, key)
      PROVE  AbsentIsEmpty'
  BY <1>5, <1>7 DEF Replay, vars, ledger
<1>8. ASSUME UNCHANGED vars
      PROVE  AbsentIsEmpty'
  BY <1>5, <1>8 DEF vars, ledger
<1> QED
  BY <1>3, <1>4, <1>6, <1>7, <1>8 DEF Next

\* Before the first command there is nothing to see.
LEMMA InitImplements ==
  ASSUME Init
  PROVE  Lifecycle!Init /\ AbsentIsEmpty
<1>1. ASSUME NEW j \in Jobs
      PROVE  /\ jobs[j].status = "absent" /\ Current(j) = None
             /\ artifacts[j] = None
  BY <1>1 DEF Init, AbsentJob, Current
<1>2. ASSUME NEW j \in Jobs
      PROVE  /\ Phase(jobs[j].status) = "unknown" /\ TextOf(j) = None
             /\ PassedByOf(j) = None /\ TrackOf(j) = None
  BY <1>1, <1>2, PhaseOfStatus DEF TextOf, PassedByOf, TrackOf
<1> QED
  BY <1>1, <1>2 DEF Lifecycle!Init, Phases, WorkingText, Passers, Tracks,
                    AbsentIsEmpty

\* The commands of the service implement the lifecycle users are promised.
THEOREM LifecycleImplemented == Spec => ImplementsLifecycle
<1>1. Init => Lifecycle!Init /\ AbsentIsEmpty
  BY InitImplements
<1>2. IInv /\ AbsentIsEmpty /\ [Next]_vars
        => AbsentIsEmpty' /\ [Lifecycle!Next]_(Lifecycle!vars)
  BY AbsentStep, StepImplements
<1> QED
  BY <1>1, <1>2, Invariance, PTL DEF Spec, ImplementsLifecycle, Lifecycle!Spec
----------------------------------------------------------------------------
(***************************************************************************)
(* A confirmation is accepted for what was previewed.                      *)
(***************************************************************************)

\* The head of a chain covers one body for each event, the first of this job.
HeadCovers(j) ==
  /\ Len(ChainHead(audit[j])) = jobs[j].version
  /\ jobs[j].version > 0 => ChainHead(audit[j])[1].job = j

\* A preview holds the head its job had at its version.
PreviewSound(p) ==
  /\ p.job \in Jobs
  /\ p.version \in 1..jobs[p.job].version
  /\ Len(p.digest[2]) = p.version
  /\ p.digest[2][1].job = p.job
  /\ p.version = jobs[p.job].version => p.revision = Current(p.job)

ReceiptInv ==
  /\ \A j \in Jobs : HeadCovers(j)
  /\ \A p \in previews : PreviewSound(p)

\* The head after an event covers what it covered before, and the event.
LEMMA HeadAfterAppend ==
  ASSUME NEW events \in Seq(AuditEvents), NEW body
  PROVE  ChainHead(AppendAudit(events, body)) = Append(ChainHead(events), body)
<1> DEFINE event == AuditEvent(ChainHead(events), body)
<1>1. AppendAudit(events, body) = Append(events, event)
  BY DEF AppendAudit
<1>2. event.digest = Append(ChainHead(events), body)
  BY DEF AuditEvent, AuditDigest
<1>3. events \in Seq(AuditEvents \cup {event})
  OBVIOUS
<1> HIDE DEF event
<1>4. /\ Append(events, event) # <<>>
      /\ Append(events, event)[Len(Append(events, event))] = event
  BY <1>3
<1> QED
  BY <1>1, <1>2, <1>4 DEF ChainHead

\* The tail of a command: the head grows with the version, and what previews
\* say of the job's present version is no longer asked.
LEMMA CommitReceipts ==
  ASSUME TypeOK, ReceiptInv, NEW op \in Ops, NEW j \in Jobs, NEW key, NEW row \in JobRows,
         Commit(op, j, key, row), UNCHANGED previews
  PROVE  ReceiptInv'
<1>1. /\ jobs[j].version \in Nat
      /\ jobs'[j].version = jobs[j].version + 1
      /\ \A k \in Jobs : k # j => jobs'[k] = jobs[k] /\ audit'[k] = audit[k]
  BY DEF Commit, TypeOK, LedgerTypeOK, JobRows
<1>2. HeadCovers(j)'
  <2> DEFINE head == ChainHead(audit[j])
             body == AuditBody(j, op)
  <2>1. head \in Seq([job : Jobs, type : Ops])
    BY ChainHeadType DEF TypeOK, LedgerTypeOK, Digests
  <2>2. body \in [job : Jobs, type : Ops] /\ body.job = j
    BY DEF AuditBody
  <2>3. ChainHead(audit'[j]) = Append(head, body)
    BY HeadAfterAppend DEF Commit, TypeOK, LedgerTypeOK
  <2>4. /\ Len(head) = jobs[j].version
        /\ jobs[j].version > 0 => head[1].job = j
    BY DEF ReceiptInv, HeadCovers
  <2> HIDE DEF head, body
  <2>5. Len(Append(head, body)) = jobs'[j].version
    BY <1>1, <2>1, <2>2, <2>4
  <2>6. Append(head, body)[1].job = j
    <3>1. CASE jobs[j].version = 0
      BY <2>1, <2>2, <2>4, <3>1
    <3>2. CASE jobs[j].version > 0
      BY <2>1, <2>2, <2>4, <3>2
    <3> QED
      BY <1>1, <3>1, <3>2
  <2> QED
    BY <2>3, <2>5, <2>6 DEF HeadCovers
<1>3. \A k \in Jobs : k # j => HeadCovers(k)'
  BY <1>1 DEF ReceiptInv, HeadCovers
<1>4. ASSUME NEW p \in previews
      PROVE  PreviewSound(p)'
  <2>1. PreviewSound(p)
    BY DEF ReceiptInv
  <2>2. CASE p.job = j
    BY <1>1, <2>1, <2>2 DEF PreviewSound
  <2>3. CASE p.job # j
    BY <1>1, <2>1, <2>3 DEF PreviewSound, Current
  <2> QED
    BY <2>2, <2>3
<1> QED
  BY <1>2, <1>3, <1>4 DEF ReceiptInv

\* A new preview is taken of a version the job has.
LEMMA PreviewTaken ==
  ASSUME TypeOK, ReceiptInv, NEW j \in Jobs, NEW expected \in 1..MaxVersion,
         FreezePreview(j, expected)
  PROVE  ReceiptInv'
<1>1. UNCHANGED <<jobs, audit>>
  BY DEF FreezePreview, ledger
<1>2. jobs[j].version = expected /\ expected \in Nat /\ expected >= 1
  BY WorkflowAssumption DEF FreezePreview, ExpectVersion
<1> DEFINE new == [job |-> j, version |-> jobs[j].version, revision |-> Current(j),
                   digest |-> ConfirmationDigest(j)]
<1>3. previews' = previews \cup {new}
  BY DEF FreezePreview
<1>4. PreviewSound(new)
  <2>1. new.digest[2] = ChainHead(audit[j])
    BY DEF ConfirmationDigest
  <2>2. HeadCovers(j)
    BY DEF ReceiptInv
  <2> QED
    BY <1>2, <2>1, <2>2 DEF PreviewSound, HeadCovers
<1> HIDE DEF new
<1>5. \A p : PreviewSound(p)' <=> PreviewSound(p)
  BY <1>1 DEF PreviewSound, Current
<1>6. \A k \in Jobs : HeadCovers(k)'
  BY <1>1 DEF ReceiptInv, HeadCovers
<1> QED
  BY <1>3, <1>4, <1>5, <1>6 DEF ReceiptInv

\* Every step keeps previews sound.
LEMMA StepReceipts ==
  ASSUME TypeOK, ReceiptInv, [Next]_vars
  PROVE  ReceiptInv'
<1>1. ASSUME UNCHANGED <<jobs, audit, previews>>
      PROVE  ReceiptInv'
  BY <1>1 DEF ReceiptInv, HeadCovers, PreviewSound, Current
<1>2. ASSUME NEW j \in Jobs, NEW key \in Keys, CreateJob(j, key)
      PROVE  ReceiptInv'
  BY <1>2, CreateJobCommits, CommitReceipts DEF receipts
<1>3. ASSUME NEW j \in Jobs, NEW expected, NEW key \in Keys,
             Command(j, expected, key)
      PROVE  ReceiptInv'
  BY <1>3, CommandCommits, CommitReceipts DEF receipts
<1>4. ASSUME NEW j \in Jobs, NEW expected \in 1..MaxVersion, Inquiry(j, expected)
      PROVE  ReceiptInv'
  <2>1. CASE PreflightRevision(j, expected)
    BY <1>1, <2>1 DEF PreflightRevision, ledger
  <2>2. CASE FreezePreview(j, expected)
    BY <2>2, PreviewTaken
  <2> QED
    BY <1>4, <2>1, <2>2 DEF Inquiry
<1>5. ASSUME NEW op \in Ops, NEW key \in Keys, Replay(op, key)
      PROVE  ReceiptInv'
  BY <1>1, <1>5 DEF Replay, vars, ledger, receipts
<1>6. ASSUME UNCHANGED vars
      PROVE  ReceiptInv'
  BY <1>1, <1>6 DEF vars, ledger, receipts
<1> QED
  BY <1>2, <1>3, <1>4, <1>5, <1>6 DEF Next

\* A preview is accepted for the job, the version and the revision it was taken
\* of, and for no other.
THEOREM ConfirmationsBind == Spec => []ConfirmationBindsVersion
<1>1. Init => ReceiptInv
  BY DEF Init, ReceiptInv, HeadCovers, AbsentJob, ChainHead
<1>2. TypeOK /\ ReceiptInv /\ [Next]_vars => ReceiptInv'
  BY StepReceipts
<1>3. TypeOK /\ ReceiptInv => ConfirmationBindsVersion
  <2> SUFFICES ASSUME TypeOK, ReceiptInv, NEW p \in previews, NEW j \in Jobs,
                      ConfirmationAccepted(j, p)
               PROVE  /\ p.job = j
                      /\ p.version = jobs[j].version
                      /\ p.revision = Current(j)
    BY DEF ConfirmationBindsVersion
  <2>1. p.digest[2] = ChainHead(audit[j])
    BY DEF ConfirmationAccepted, ConfirmationDigest
  <2>2. PreviewSound(p) /\ HeadCovers(j)
    BY DEF ReceiptInv
  <2>3. p.version = jobs[j].version /\ p.version > 0
    <3>1. jobs[p.job].version \in Nat
      BY <2>2 DEF PreviewSound, TypeOK, LedgerTypeOK, JobRows
    <3> QED
      BY <2>1, <2>2, <3>1 DEF PreviewSound, HeadCovers
  <2>4. p.job = j
    BY <2>1, <2>2, <2>3 DEF PreviewSound, HeadCovers
  <2> QED
    BY <2>2, <2>3, <2>4 DEF PreviewSound
<1> QED
  BY <1>1, <1>2, <1>3, TypeCorrect, PTL DEF Spec
----------------------------------------------------------------------------
(***************************************************************************)
(* The revisions of a job are numbered as they are linked.                 *)
(***************************************************************************)

\* The revisions of a job are finitely many.
LEMMA CountRevisions ==
  ASSUME NEW j \in Jobs
  PROVE  IsFiniteSet(RevisionsOf(j)) /\ Cardinality(RevisionsOf(j)) \in Nat
<1>1. IsFiniteSet(RevisionsOf(j))
  BY FS_Subset, WorkflowAssumption DEF RevisionsOf
<1> QED
  BY <1>1, FS_CardinalityType

\* A job with the revisions and the current revision it had.
LEMMA LinkedFrame ==
  ASSUME NEW k \in Jobs, RevisionsLinked(k), jobs'[k].current = jobs[k].current,
         RevisionsOf(k)' = RevisionsOf(k),
         \A r \in RevisionsOf(k) : revisions'[r] = revisions[r]
  PROVE  RevisionsLinked(k)'
<1> DEFINE n == Cardinality(RevisionsOf(k))
<1>1. n' = n /\ Current(k)' = Current(k)
  BY DEF Current
<1>2. {revisions[r].sequence : r \in RevisionsOf(k)}'
        = {revisions[r].sequence : r \in RevisionsOf(k)}
  OBVIOUS
<1>3. \A r \in RevisionsOf(k) :
        IF revisions[r].sequence = 1
        THEN revisions[r].parent = None
        ELSE /\ revisions[r].parent \in RevisionsOf(k)
             /\ revisions[revisions[r].parent].sequence
                  = revisions[r].sequence - 1
  BY DEF RevisionsLinked
<1>4. \A r \in RevisionsOf(k)' :
        IF revisions'[r].sequence = 1
        THEN revisions'[r].parent = None
        ELSE /\ revisions'[r].parent \in RevisionsOf(k)'
             /\ revisions'[revisions'[r].parent].sequence
                  = revisions'[r].sequence - 1
  BY <1>3
<1>5. IF n' = 0
      THEN Current(k)' = None
      ELSE Current(k)' \in RevisionsOf(k)' /\ revisions'[Current(k)'].sequence = n'
  BY <1>1 DEF RevisionsLinked
<1> QED
  BY <1>1, <1>2, <1>4, <1>5 DEF RevisionsLinked

\* A new revision follows the current one, and is numbered after it.
LEMMA SubmitLinks ==
  ASSUME IInv, RevisionChain, NEW j \in Jobs, NEW expected, NEW key \in Keys,
         SubmitRevision(j, expected, key)
  PROVE  RevisionChain'
<1>1. PICK r \in Revisions, parent \in Revisions \cup {None},
           author \in People, content \in Contents, status \in Statuses :
        /\ revisions[r].job = None
        /\ ValidateNewRevision(j, parent)
        /\ revisions' = [revisions EXCEPT ![r] =
             [job |-> j, parent |-> parent, sequence |-> NextSequence(j),
              author |-> author, content |-> content]]
        /\ Commit("submit_revision", j, key,
                  [jobs[j] EXCEPT !.current = r, !.status = status])
  BY DEF SubmitRevision, Statuses
<1>2. /\ revisions'[r].job = j
      /\ revisions'[r].parent = parent
      /\ revisions'[r].sequence = NextSequence(j)
      /\ \A s \in Revisions : s # r => revisions'[s] = revisions[s]
  BY <1>1 DEF IInv, TypeOK, EvidenceTypeOK
<1>3. jobs'[j].current = r
  BY <1>1 DEF Commit, IInv, TypeOK, LedgerTypeOK, JobRows
<1>4. ASSUME NEW k \in Jobs, k # j
      PROVE  RevisionsLinked(k)'
  <2>1. RevisionsOf(k)' = RevisionsOf(k) /\ r \notin RevisionsOf(k)
    BY <1>1, <1>2, <1>4, WorkflowAssumption DEF RevisionsOf
  <2>2. jobs'[k].current = jobs[k].current
    BY <1>1, <1>4, CommitOthers
  <2>3. \A s \in RevisionsOf(k) : revisions'[s] = revisions[s]
    BY <1>2, <2>1 DEF RevisionsOf
  <2> QED
    BY <2>1, <2>2, <2>3, LinkedFrame DEF RevisionChain
<1>5. RevisionsLinked(j)'
  <2> DEFINE old == RevisionsOf(j)
             n   == Cardinality(old)
  <2>1. RevisionsOf(j)' = old \cup {r} /\ r \notin old
    BY <1>1, <1>2, WorkflowAssumption DEF RevisionsOf
  <2>2. n \in Nat /\ NextSequence(j) = n + 1
    BY CountRevisions DEF NextSequence
  <2>3. Cardinality(RevisionsOf(j)') = n + 1
    BY <2>1, CountRevisions, FS_AddElement
  <2>4. \A s \in old : revisions'[s] = revisions[s]
    BY <1>2, <2>1 DEF RevisionsOf
  <2>5. /\ {revisions[s].sequence : s \in old} = 1..n
        /\ \A s \in old :
             IF revisions[s].sequence = 1
             THEN revisions[s].parent = None
             ELSE /\ revisions[s].parent \in old
                  /\ revisions[revisions[s].parent].sequence
                       = revisions[s].sequence - 1
        /\ n = 0 => Current(j) = None
        /\ n # 0 => Current(j) \in old /\ revisions[Current(j)].sequence = n
    BY DEF RevisionChain, RevisionsLinked
  <2>6. parent = IF n = 0 THEN None ELSE Current(j)
    <3>1. CASE n = 0
      BY <1>1, <2>5, <3>1 DEF ValidateNewRevision
    <3>2. CASE n # 0
      BY <1>1, <2>5, <3>2, WorkflowAssumption DEF ValidateNewRevision, RevisionsOf
    <3> QED
      BY <3>1, <3>2
  <2> HIDE DEF old, n
  <2>7. {revisions'[s].sequence : s \in old \cup {r}} = 1..(n + 1)
    <3>1. {revisions'[s].sequence : s \in old} = 1..n
      BY <2>4, <2>5
    <3>2. {revisions'[s].sequence : s \in old \cup {r}} = (1..n) \cup {n + 1}
      BY <1>2, <2>2, <3>1
    <3> QED
      BY <2>2, <3>2
  <2>8. ASSUME NEW s \in old \cup {r}
        PROVE  IF revisions'[s].sequence = 1
               THEN revisions'[s].parent = None
               ELSE /\ revisions'[s].parent \in old \cup {r}
                    /\ revisions'[revisions'[s].parent].sequence
                         = revisions'[s].sequence - 1
    <3>1. CASE s \in old
      BY <2>4, <2>5, <3>1
    <3>2. CASE s = r /\ n = 0
      BY <1>2, <2>2, <2>6, <3>2
    <3>3. CASE s = r /\ n # 0
      <4>1. revisions'[r].sequence = n + 1 /\ n + 1 # 1 /\ (n + 1) - 1 = n
        BY <1>2, <2>2, <3>3
      <4>2. revisions'[r].parent = Current(j) /\ Current(j) \in old
        BY <1>2, <2>5, <2>6, <3>3
      <4> QED
        BY <2>4, <2>5, <3>3, <4>1, <4>2
    <3> QED
      BY <2>8, <3>1, <3>2, <3>3
  <2>9. n + 1 # 0 /\ Current(j)' = r
    BY <1>3, <2>2 DEF Current
  <2>10. r \in old \cup {r} /\ revisions'[r].sequence = n + 1
    BY <1>2, <2>2
  <2> QED
    BY <2>1, <2>3, <2>7, <2>8, <2>9, <2>10 DEF RevisionsLinked
<1> QED
  BY <1>4, <1>5 DEF RevisionChain

\* Only a submission writes revisions or the current one.
LEMMA StepLinks ==
  ASSUME IInv, AbsentIsEmpty, RevisionChain, [Next]_vars
  PROVE  RevisionChain'
<1>1. ASSUME UNCHANGED revisions, \A k \in Jobs : jobs'[k].current = jobs[k].current
      PROVE  RevisionChain'
  BY <1>1, LinkedFrame DEF RevisionChain, RevisionsOf
<1>2. ASSUME NEW op, NEW j \in Jobs, NEW key, NEW row \in JobRows,
             row.current = jobs[j].current, Commit(op, j, key, row),
             UNCHANGED revisions
      PROVE  RevisionChain'
  <2>1. jobs'[j].current = jobs[j].current
    BY <1>2 DEF Commit, IInv, TypeOK, LedgerTypeOK, JobRows
  <2>2. \A k \in Jobs : k # j => jobs'[k] = jobs[k]
    BY <1>2, CommitOthers
  <2> QED
    BY <1>1, <1>2, <2>1, <2>2
<1>3. ASSUME NEW op, NEW j \in Jobs, NEW key, NEW status \in Statuses,
             Commit(op, j, key, [jobs[j] EXCEPT !.status = status]),
             UNCHANGED revisions
      PROVE  RevisionChain'
  <2>1. /\ [jobs[j] EXCEPT !.status = status] \in JobRows
        /\ [jobs[j] EXCEPT !.status = status].current = jobs[j].current
    BY StatusRowType DEF IInv, Statuses
  <2> QED
    BY <1>2, <1>3, <2>1
<1>4. ASSUME NEW j \in Jobs, NEW key \in Keys, CreateJob(j, key)
      PROVE  RevisionChain'
  <2>1. PICK profile \in Profiles :
          Commit("create_job", j, key,
                 [AbsentJob EXCEPT !.status = "draft", !.profile = profile])
    BY <1>4 DEF CreateJob
  <2>2. [AbsentJob EXCEPT !.status = "draft", !.profile = profile] \in JobRows
    BY DEF AbsentJob, JobRows, Statuses
  <2>3. jobs[j].current = None /\ UNCHANGED revisions
    BY <1>4 DEF CreateJob, AbsentIsEmpty, Current, evidence
  <2> QED
    BY <1>2, <2>1, <2>2, <2>3 DEF AbsentJob
<1>5. ASSUME NEW j \in Jobs, NEW expected, NEW key \in Keys,
             Command(j, expected, key)
      PROVE  RevisionChain'
  <2>1. CASE SubmitRevision(j, expected, key)
    BY <2>1, SubmitLinks
  <2>2. CASE RunQuality(j, expected, key)
    BY <1>3, <2>2, StatusAfterFindingsType DEF RunQuality, Statuses
  <2>3. ASSUME NEW op, NEW chosen, Dispose(op, j, key, chosen)
        PROVE  RevisionChain'
    BY <1>3, <2>3, StatusAfterFindingsType DEF Dispose, Statuses
  <2>4. CASE DispositionFinding(j, expected, key)
    BY <2>3, <2>4 DEF DispositionFinding
  <2>5. CASE BatchDisposition(j, expected, key)
    BY <2>3, <2>5 DEF BatchDisposition
  <2>6. CASE Review(j, expected, key)
    BY <1>3, <2>6 DEF Review, StatusAfterReview, Statuses
  <2>7. CASE Freeze(j, expected, key)
    BY <1>3, <2>7 DEF Freeze, Statuses
  <2>8. CASE VerifyAndRecord(j, expected, key)
    BY <1>2, <2>8 DEF VerifyAndRecord, IInv, TypeOK, LedgerTypeOK
  <2> QED
    BY <1>5, <2>1, <2>2, <2>4, <2>5, <2>6, <2>7, <2>8 DEF Command
<1>6. ASSUME NEW j \in Jobs, NEW expected \in 1..MaxVersion, Inquiry(j, expected)
      PROVE  RevisionChain'
  BY <1>1, <1>6 DEF Inquiry, PreflightRevision, FreezePreview, evidence, ledger
<1>7. ASSUME NEW op \in Ops, NEW key \in Keys, Replay(op, key)
      PROVE  RevisionChain'
  BY <1>1, <1>7 DEF Replay, vars, evidence, ledger
<1>8. ASSUME UNCHANGED vars
      PROVE  RevisionChain'
  BY <1>1, <1>8 DEF vars, evidence, ledger
<1> QED
  BY <1>4, <1>5, <1>6, <1>7, <1>8 DEF Next

\* The revisions of a job are numbered without gaps in the order of descent.
THEOREM RevisionsAreLinked == Spec => []RevisionChain
<1>1. Init => AbsentIsEmpty /\ RevisionChain
  <2> SUFFICES ASSUME Init, NEW j \in Jobs
               PROVE  RevisionsLinked(j)
    BY InitImplements DEF RevisionChain
  <2>1. RevisionsOf(j) = {} /\ Current(j) = None
    BY WorkflowAssumption DEF Init, RevisionsOf, AbsentRevision, AbsentJob, Current
  <2>2. Cardinality(RevisionsOf(j)) = 0 /\ 1..0 = {}
    BY <2>1, FS_EmptySet
  <2>3. {revisions[r].sequence : r \in RevisionsOf(j)} = 1..0
    BY <2>1, <2>2
  <2> QED
    BY <2>1, <2>2, <2>3 DEF RevisionsLinked
<1>2. IInv /\ AbsentIsEmpty /\ RevisionChain /\ [Next]_vars
        => AbsentIsEmpty' /\ RevisionChain'
  BY AbsentStep, StepLinks
<1> QED
  BY <1>1, <1>2, Invariance, PTL DEF Spec
============================================================================
