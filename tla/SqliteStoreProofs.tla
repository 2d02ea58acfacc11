------------------------- MODULE SqliteStoreProofs --------------------------
(***************************************************************************)
(* Theorems about SqliteStore: transactions on snapshots with one write    *)
(* lock behave as commands executed one at a time, what was answered       *)
(* stands, and what is committed passes the integrity check at the start.  *)
(*                                                                         *)
(* The invariant says what each request knows.  A snapshot is a past state *)
(* of the rows: a version it has is not newer, a result it has is still    *)
(* there, and a result it lacks is of a later version.  Whoever writes     *)
(* holds the lock and has the present rows for a snapshot.                 *)
(*                                                                         *)
(* Lock and pool are counted by an invariant of their own, HoldInv.        *)
(***************************************************************************)
EXTENDS SqliteStore, FiniteSetTheorems, TLAPS

\* A row set whose chains are unbroken and have an event for each version.
Sound(rows) ==
  \A j \in Jobs :
    /\ rows.chain[j] # <<>>
    /\ rows.version[j] = Len(rows.chain[j])
    /\ VerifyAudit(rows.chain[j])

\* The rows as they were at some time before.
Past(rows) ==
  /\ \A j \in Jobs : rows.version[j] <= db.version[j]
  /\ \A key \in Keys :
       /\ rows.result[key] # None => db.result[key] = rows.result[key]
       /\ db.result[key] # None
            => \/ rows.result[key] = db.result[key]
               \/ rows.version[db.result[key].job] < db.result[key].version

\* An answer that holds of the rows, and will.
Stands(c, answer) ==
  /\ answer.kind = "ok" => KeptFor(c) = answer.effect /\ KeptFor(c) # None
  /\ answer.kind = "refused" =>
       /\ seen[c] # None
       /\ db.version[JobOf[c]] > seen[c] \/ c \notin Acceptable
       /\ Alone(c) => KeptFor(c) = None
  /\ answer.kind = "view" =>
       /\ answer.version \in Nat /\ answer.version = answer.events
       /\ answer.version <= db.version[JobOf[c]]

\* What is true of a request in each phase.
SnapshotOK(k) ==
  calls[k].phase \in {"looked", "checked", "writing"} =>
    /\ calls[k].snap \in Rows
    /\ Sound(calls[k].snap)
    /\ Past(calls[k].snap)
    /\ calls[k].kind = "command" =>
         seen[ClientOf[k]] <= calls[k].snap.version[Job(k)]

CallOK(k) ==
  /\ calls[k].phase # "idle" /\ calls[k].kind = "command" => seen[ClientOf[k]] # None
  /\ SnapshotOK(k)
  /\ calls[k].phase \in {"checked", "writing"} =>
       /\ calls[k].kind = "command"
       /\ calls[k].snap.result[Key(k)] = None
       /\ Permitted(k)
  /\ calls[k].phase = "writing" => writer = k /\ calls[k].snap = db
  /\ calls[k].phase = "answered" =>
       /\ calls[k].answer \in Answers /\ Stands(ClientOf[k], calls[k].answer)
       /\ calls[k].kind = "view" => calls[k].answer.kind = "view"

ClientOK(c) ==
  /\ seen[c] # None => seen[c] <= db.version[JobOf[c]]
  /\ \A answer \in told[c] : Stands(c, answer)
  /\ KeptFor(c) # None /\ Alone(c) =>
       /\ c \in Acceptable
       /\ seen[c] # None
       /\ KeptFor(c) = [job |-> JobOf[c], version |-> seen[c] + 1]

EffectsPast ==
  \A key \in Keys :
    db.result[key] # None => db.result[key].version <= db.version[db.result[key].job]

StoreInv ==
  /\ TypeOK
  /\ Sound(db)
  /\ EffectsPast
  /\ process # "refused"
  /\ \A k \in Calls : CallOK(k)
  /\ \A c \in Clients : ClientOK(c)
----------------------------------------------------------------------------
(***************************************************************************)
(* Rows and requests.                                                      *)
(***************************************************************************)
Phases == {"idle", "sent", "begun", "looked", "checked", "writing", "answered"}

LEMMA NoCallType == NoCall \in CallRows
  BY DEF NoCall, CallRows

\* A request that goes on to another phase keeps the rest of its row.
LEMMA MoveRow ==
  ASSUME TypeOK, NEW k \in Calls, NEW phase \in Phases, Move(k, phase)
  PROVE  /\ calls' \in [Calls -> CallRows]
         /\ \A n \in Calls \ {k} : calls'[n] = calls[n]
         /\ calls'[k].phase = phase
         /\ calls'[k].kind = calls[k].kind /\ calls'[k].snap = calls[k].snap
  BY DEF TypeOK, Move, CallRows, Phases

LEMMA RespondRow ==
  ASSUME TypeOK, NEW k \in Calls, NEW answer \in Answers, Respond(k, answer)
  PROVE  /\ calls' \in [Calls -> CallRows]
         /\ \A n \in Calls \ {k} : calls'[n] = calls[n]
         /\ calls'[k].phase = "answered" /\ calls'[k].answer = answer
         /\ calls'[k].kind = calls[k].kind
  BY DEF TypeOK, Respond, CallRows

LEMMA ClearRow ==
  ASSUME TypeOK, NEW k \in Calls, calls' = [calls EXCEPT ![k] = NoCall]
  PROVE  /\ calls' \in [Calls -> CallRows]
         /\ \A n \in Calls \ {k} : calls'[n] = calls[n]
         /\ calls'[k] = NoCall
  BY NoCallType DEF TypeOK

\* Who a request is from, and what it is about.
LEMMA CallOwner ==
  ASSUME NEW k \in Calls
  PROVE  ClientOf[k] \in Clients /\ Job(k) \in Jobs /\ Key(k) \in Keys
  BY StoreAssumption DEF Job, Key

\* Nothing a request or a client knows changes while the rows, and what the
\* client has read, do not.
LEMMA CallFrame ==
  ASSUME NEW n \in Calls, CallOK(n), calls'[n] = calls[n], db' = db, seen' = seen,
         calls[n].phase = "writing" => writer' = n
  PROVE  CallOK(n)'
  BY DEF CallOK, SnapshotOK, Past, Stands, KeptFor, Permitted, Job, Key

LEMMA ClientFrame ==
  ASSUME NEW c \in Clients, ClientOK(c), db' = db, seen' = seen, told' = told
  PROVE  ClientOK(c)'
  BY DEF ClientOK, Stands, KeptFor

\* The step of one request that leaves the rows and the clients alone.
LEMMA OneRequest ==
  ASSUME StoreInv, NEW k \in Calls, TypeOK',
         UNCHANGED <<db, seen, told>>, process' # "refused",
         \A n \in Calls \ {k} : calls'[n] = calls[n],
         \A n \in Calls \ {k} : calls[n].phase = "writing" => writer' = n,
         CallOK(k)'
  PROVE  StoreInv'
<1>1. \A n \in Calls : CallOK(n)'
  BY CallFrame DEF StoreInv
<1>2. \A c \in Clients : ClientOK(c)'
  BY ClientFrame DEF StoreInv
<1> QED
  BY <1>1, <1>2 DEF StoreInv, Sound, EffectsPast
----------------------------------------------------------------------------
(***************************************************************************)
(* Steps that read.                                                        *)
(***************************************************************************)
LEMMA InitStore ==
  ASSUME Init
  PROVE  StoreInv
<1>1. Created \in Seq(Events) /\ Len(Created) = 1 /\ Created[1] = Event(<<>>, None)
  BY DEF Created, Event, Events, Digests
<1>2. VerifyAudit(Created)
  BY <1>1 DEF VerifyAudit, Event
<1>3. db \in Rows
  BY <1>1 DEF Init, Rows
<1>4. TypeOK
  BY <1>3, NoCallType DEF Init, TypeOK
<1>5. Sound(db)
  <2>1. Created # <<>>
    BY <1>1
  <2>2. \A j \in Jobs : db.chain[j] = Created /\ db.version[j] = 1
    BY DEF Init
  <2> QED
    BY <1>1, <1>2, <2>1, <2>2 DEF Sound
<1>6. \A k \in Calls : CallOK(k)
  BY DEF Init, CallOK, SnapshotOK, NoCall
<1>7. \A c \in Clients : ClientOK(c)
  BY StoreAssumption DEF Init, ClientOK, KeptFor
<1> QED
  BY <1>4, <1>5, <1>6, <1>7 DEF StoreInv, EffectsPast, Init

LEMMA SendStep ==
  ASSUME StoreInv, NEW k \in Calls, Send(k)
  PROVE  StoreInv'
<1> DEFINE kind == IF seen[ClientOf[k]] = None THEN "view" ELSE "command"
<1>1. calls' = [calls EXCEPT ![k].phase = "sent", ![k].kind = kind]
  BY DEF Send
<1>2. /\ calls'[k].phase = "sent" /\ calls'[k].kind = kind
      /\ calls' \in [Calls -> CallRows]
      /\ \A n \in Calls \ {k} : calls'[n] = calls[n]
  BY <1>1 DEF StoreInv, TypeOK, CallRows
<1>3. TypeOK'
  BY <1>2 DEF Send, StoreInv, TypeOK
<1>4. CallOK(k)'
  BY <1>2 DEF Send, CallOK, SnapshotOK
<1> QED
  BY <1>2, <1>3, <1>4, OneRequest DEF Send, StoreInv, CallOK

LEMMA BeginStep ==
  ASSUME StoreInv, NEW k \in Calls, Begin(k)
  PROVE  StoreInv'
<1>1. /\ calls' \in [Calls -> CallRows] /\ calls'[k].phase = "begun"
      /\ \A n \in Calls \ {k} : calls'[n] = calls[n]
      /\ calls'[k].kind = calls[k].kind
  BY MoveRow DEF Begin, StoreInv, Phases
<1>2. TypeOK'
  BY <1>1 DEF Begin, StoreInv, TypeOK
<1>3. CallOK(k)'
  BY <1>1 DEF Begin, StoreInv, CallOK, SnapshotOK
<1> QED
  BY <1>1, <1>2, <1>3, OneRequest DEF Begin, StoreInv, CallOK

\* The present rows are past rows.
LEMMA FirstReadStep ==
  ASSUME StoreInv, NEW k \in Calls, FirstRead(k)
  PROVE  StoreInv'
<1>1. calls' = [calls EXCEPT ![k].phase = "looked", ![k].snap = db]
  BY DEF FirstRead
<1>2. /\ calls'[k].phase = "looked" /\ calls'[k].snap = db
      /\ calls'[k].kind = calls[k].kind
      /\ calls' \in [Calls -> CallRows]
      /\ \A n \in Calls \ {k} : calls'[n] = calls[n]
  BY <1>1 DEF StoreInv, TypeOK, CallRows
<1>3. TypeOK'
  BY <1>2 DEF FirstRead, StoreInv, TypeOK
<1>4. db' = db /\ seen' = seen /\ calls[k].phase = "begun"
  BY DEF FirstRead
<1>5. Past(db)'
  BY <1>4 DEF Past, StoreInv, TypeOK, Rows
<1>6. calls[k].kind = "command" => seen[ClientOf[k]] <= db.version[Job(k)]
  BY <1>4, CallOwner DEF StoreInv, CallOK, ClientOK, Job
<1>7. SnapshotOK(k)'
  BY <1>2, <1>4, <1>5, <1>6 DEF SnapshotOK, StoreInv, TypeOK, Sound, Past, Job
<1>8. CallOK(k)'
  BY <1>2, <1>4, <1>7 DEF StoreInv, CallOK
<1> QED
  BY <1>2, <1>3, <1>8, OneRequest DEF FirstRead, StoreInv, CallOK

LEMMA DetailStep ==
  ASSUME StoreInv, NEW k \in Calls, JobDetail(k)
  PROVE  StoreInv'
<1>0. PICK answer :
        answer = [kind    |-> "view",
                  version |-> calls[k].snap.version[Job(k)],
                  events  |-> Len(calls[k].snap.chain[Job(k)])]
  OBVIOUS
<1>1. SnapshotOK(k) /\ calls[k].phase = "looked" /\ Respond(k, answer)
  BY <1>0 DEF JobDetail, StoreInv, CallOK, At
<1>2. calls[k].snap \in Rows /\ Sound(calls[k].snap) /\ Past(calls[k].snap)
  BY <1>1 DEF SnapshotOK
<1>3. /\ answer \in Answers /\ answer.kind = "view"
      /\ answer.version \in Nat /\ answer.version = answer.events
      /\ answer.version <= db.version[Job(k)]
  BY <1>0, <1>2, CallOwner DEF Rows, Sound, Past, Answers
<1>4. /\ calls' \in [Calls -> CallRows] /\ calls'[k].phase = "answered"
      /\ \A n \in Calls \ {k} : calls'[n] = calls[n]
      /\ calls'[k].answer = answer /\ calls'[k].kind = calls[k].kind
  BY <1>1, <1>3, RespondRow DEF StoreInv
<1>5. TypeOK'
  BY <1>4 DEF JobDetail, StoreInv, TypeOK
<1>6. CallOK(k)'
  BY <1>3, <1>4 DEF JobDetail, At, CallOK, SnapshotOK, Stands, Job
<1> QED
  BY <1>4, <1>5, <1>6, OneRequest DEF JobDetail, StoreInv, CallOK

LEMMA ReplayStep ==
  ASSUME StoreInv, NEW k \in Calls, Replay(k)
  PROVE  StoreInv'
<1>0. PICK answer : answer = [kind |-> "ok", effect |-> calls[k].snap.result[Key(k)]]
  OBVIOUS
<1>1. /\ SnapshotOK(k) /\ calls[k].phase = "looked" /\ Respond(k, answer)
      /\ calls[k].snap.result[Key(k)] # None
  BY <1>0 DEF Replay, StoreInv, CallOK, At
<1>2. calls[k].snap \in Rows /\ Past(calls[k].snap)
  BY <1>1 DEF SnapshotOK
<1>3. /\ answer.kind = "ok" /\ answer.effect \in Effects
      /\ answer.effect = KeptFor(ClientOf[k])
  BY <1>0, <1>1, <1>2, CallOwner DEF Rows, Past, KeptFor, Key
<1>4. answer \in Answers
  BY <1>0, <1>3 DEF Answers, Finals
<1>5. /\ calls' \in [Calls -> CallRows] /\ calls'[k].phase = "answered"
      /\ \A n \in Calls \ {k} : calls'[n] = calls[n]
      /\ calls'[k].answer = answer /\ calls'[k].kind = calls[k].kind
  BY <1>1, <1>4, RespondRow DEF StoreInv
<1>6. TypeOK'
  BY <1>5 DEF Replay, StoreInv, TypeOK
<1>7. Stands(ClientOf[k], answer)'
  BY <1>3, NoneIsNoEffect DEF Replay, Stands, KeptFor
<1>8. CallOK(k)'
  BY <1>4, <1>5, <1>7 DEF Replay, StoreInv, At, CallOK, SnapshotOK
<1> QED
  BY <1>5, <1>6, <1>8, OneRequest DEF Replay, StoreInv, CallOK

\* A version conflict is final: the snapshot is newer than what the client saw,
\* so its key had its effect before the snapshot or not at all.
LEMMA RefusedStands ==
  ASSUME StoreInv, NEW k \in Calls, At(k, "command", "looked"),
         calls[k].snap.result[Key(k)] = None, ~Permitted(k),
         NEW answer, answer = [kind |-> "refused"]
  PROVE  Stands(ClientOf[k], answer)
<1> DEFINE c == ClientOf[k]
           snap == calls[k].snap
<1>1. /\ c \in Clients /\ Job(k) = JobOf[c] /\ Key(k) = KeyOf[c]
      /\ Job(k) \in Jobs /\ Key(k) \in Keys
  BY CallOwner DEF Job, Key
<1>2. CallOK(k) /\ ClientOK(c) /\ TypeOK
  BY <1>1 DEF StoreInv
<1>3. /\ snap \in Rows /\ Past(snap) /\ seen[c] # None
      /\ seen[c] <= snap.version[Job(k)]
  BY <1>2 DEF CallOK, SnapshotOK, At
<1>4. /\ seen[c] \in Nat /\ snap.version[Job(k)] \in Nat
      /\ db.version[Job(k)] \in Nat
  BY <1>1, <1>2, <1>3 DEF TypeOK, Rows
<1>5. db.version[Job(k)] > seen[c] \/ c \notin Acceptable
  <2>1. snap.version[Job(k)] # seen[c] \/ c \notin Acceptable
    BY DEF Permitted
  <2>2. snap.version[Job(k)] <= db.version[Job(k)]
    BY <1>1, <1>3 DEF Past
  <2> QED
    BY <1>3, <1>4, <2>1, <2>2
<1>6. ASSUME Alone(c), KeptFor(c) # None
      PROVE  FALSE
  <2>1. c \in Acceptable /\ KeptFor(c) = [job |-> Job(k), version |-> seen[c] + 1]
    BY <1>1, <1>2, <1>6 DEF ClientOK
  <2>2. snap.version[Job(k)] # seen[c]
    BY <2>1 DEF Permitted
  <2>3. snap.version[Job(k)] < seen[c] + 1
    BY <1>1, <1>3, <1>6, <2>1 DEF Past, KeptFor
  <2> QED
    BY <1>3, <1>4, <2>2, <2>3
<1> QED
  BY <1>1, <1>3, <1>5, <1>6 DEF Stands

LEMMA CheckStep ==
  ASSUME StoreInv, NEW k \in Calls, Check(k)
  PROVE  StoreInv'
<1>1. /\ At(k, "command", "looked") /\ CallOK(k) /\ SnapshotOK(k)
      /\ calls[k].snap.result[Key(k)] = None
  BY DEF Check, StoreInv, CallOK
<1>2. CASE Permitted(k)
  <2>1. /\ calls' \in [Calls -> CallRows] /\ calls'[k].phase = "checked"
        /\ \A n \in Calls \ {k} : calls'[n] = calls[n]
        /\ calls'[k].kind = calls[k].kind /\ calls'[k].snap = calls[k].snap
    BY <1>2, MoveRow DEF Check, StoreInv, Phases
  <2>2. TypeOK'
    BY <2>1 DEF Check, StoreInv, TypeOK
  <2>3. CallOK(k)'
    BY <1>1, <1>2, <2>1
       DEF Check, At, CallOK, SnapshotOK, Past, Permitted, Job, Key
  <2> QED
    BY <2>1, <2>2, <2>3, OneRequest DEF Check, StoreInv, CallOK
<1>3. CASE ~Permitted(k)
  <2>1. PICK answer : answer = [kind |-> "refused"]
    OBVIOUS
  <2>2. answer \in Answers /\ Respond(k, answer)
    BY <1>3, <2>1 DEF Check, Answers, Finals
  <2>3. /\ calls' \in [Calls -> CallRows] /\ calls'[k].phase = "answered"
        /\ \A n \in Calls \ {k} : calls'[n] = calls[n]
        /\ calls'[k].answer = answer /\ calls'[k].kind = calls[k].kind
    BY <2>2, RespondRow DEF StoreInv
  <2>4. TypeOK'
    BY <2>3 DEF Check, StoreInv, TypeOK
  <2>5. Stands(ClientOf[k], answer)
    BY <1>1, <1>3, <2>1, RefusedStands
  <2>6. Stands(ClientOf[k], answer)'
    BY <2>5 DEF Check, Stands, KeptFor
  <2>7. CallOK(k)'
    BY <1>1, <2>2, <2>3, <2>6 DEF Check, At, CallOK, SnapshotOK
  <2> QED
    BY <2>3, <2>4, <2>7, OneRequest DEF Check, StoreInv, CallOK
<1> QED
  BY <1>2, <1>3
----------------------------------------------------------------------------
(***************************************************************************)
(* Steps that write, answer or fail.                                       *)
(***************************************************************************)
LEMMA FirstWriteStep ==
  ASSUME StoreInv, NEW k \in Calls, FirstWrite(k)
  PROVE  StoreInv'
<1>1. CallOK(k) /\ SnapshotOK(k) /\ calls[k].phase = "checked"
  BY DEF FirstWrite, StoreInv, CallOK
<1>2. /\ calls' \in [Calls -> CallRows] /\ calls'[k].phase = "writing"
      /\ \A n \in Calls \ {k} : calls'[n] = calls[n]
      /\ calls'[k].kind = calls[k].kind /\ calls'[k].snap = calls[k].snap
  BY MoveRow DEF FirstWrite, StoreInv, Phases
<1>3. TypeOK'
  BY <1>2 DEF FirstWrite, StoreInv, TypeOK
<1>4. CallOK(k)'
  BY <1>1, <1>2
     DEF FirstWrite, MayWrite, CallOK, SnapshotOK, Past, Permitted, Job, Key
<1>5. \A n \in Calls : calls[n].phase # "writing"
  BY StoreAssumption DEF FirstWrite, MayWrite, StoreInv, CallOK
<1> QED
  BY <1>2, <1>3, <1>4, <1>5, OneRequest DEF FirstWrite, StoreInv

\* An answer that promises nothing.
LEMMA NoPromise ==
  ASSUME StoreInv, NEW k \in Calls, calls[k].phase \in {"checked", "writing"},
         NEW answer, answer \in [kind : {"busy", "error"}], Respond(k, answer),
         UNCHANGED <<db, seen, told, process>>, faults' \in Nat,
         writer' \in Calls \cup {None},
         \A n \in Calls \ {k} : calls[n].phase = "writing" => writer' = n
  PROVE  StoreInv'
<1>1. answer \in Answers
  BY DEF Answers
<1>2. /\ calls' \in [Calls -> CallRows] /\ calls'[k].phase = "answered"
      /\ \A n \in Calls \ {k} : calls'[n] = calls[n]
      /\ calls'[k].answer = answer /\ calls'[k].kind = calls[k].kind
  BY <1>1, RespondRow DEF StoreInv
<1>3. TypeOK'
  BY <1>2 DEF StoreInv, TypeOK
<1>4. CallOK(k)'
  BY <1>1, <1>2 DEF StoreInv, CallOK, SnapshotOK, Stands
<1> QED
  BY <1>2, <1>3, <1>4, OneRequest DEF StoreInv

LEMMA BusyStep ==
  ASSUME StoreInv, NEW k \in Calls, Busy(k)
  PROVE  StoreInv'
<1>1. PICK answer : answer = [kind |-> "busy"]
  OBVIOUS
<1>2. Respond(k, answer) /\ answer \in [kind : {"busy", "error"}]
  BY <1>1 DEF Busy
<1> QED
  BY <1>2, NoPromise DEF Busy, StoreInv, TypeOK, CallOK

LEMMA FailStep ==
  ASSUME StoreInv, NEW k \in Calls, Fail(k)
  PROVE  StoreInv'
<1>1. PICK answer : answer = [kind |-> "error"]
  OBVIOUS
<1>2. Respond(k, answer) /\ answer \in [kind : {"busy", "error"}]
  BY <1>1 DEF Fail
<1>3. /\ writer' \in Calls \cup {None} /\ faults' \in Nat
      /\ \A n \in Calls \ {k} : calls[n].phase = "writing" => writer' = n
  BY DEF Fail, Fault, Released, StoreInv, TypeOK, CallOK
<1> QED
  BY <1>2, <1>3, NoPromise DEF Fail

LEMMA DisconnectStep ==
  ASSUME StoreInv, NEW k \in Calls, Disconnect(k)
  PROVE  StoreInv'
<1>1. /\ calls' \in [Calls -> CallRows] /\ calls'[k] = NoCall
      /\ \A n \in Calls \ {k} : calls'[n] = calls[n]
  BY ClearRow DEF Disconnect, StoreInv
<1>2. /\ writer' \in Calls \cup {None} /\ faults' \in Nat
      /\ \A n \in Calls \ {k} : calls[n].phase = "writing" => writer' = n
  BY DEF Disconnect, Fault, Released, StoreInv, TypeOK, CallOK
<1>3. TypeOK'
  BY <1>1, <1>2 DEF Disconnect, StoreInv, TypeOK
<1>4. CallOK(k)'
  BY <1>1 DEF NoCall, CallOK, SnapshotOK
<1> QED
  BY <1>1, <1>2, <1>3, <1>4, OneRequest DEF Disconnect, StoreInv

\* With the process go its requests; what is committed, and what clients know
\* of it, stays.
LEMMA GoneStep ==
  ASSUME StoreInv, Gone, faults' \in Nat
  PROVE  StoreInv'
<1>1. TypeOK'
  BY NoCallType DEF Gone, StoreInv, TypeOK
<1>2. \A k \in Calls : CallOK(k)'
  BY DEF Gone, NoCall, CallOK, SnapshotOK
<1>3. \A c \in Clients : ClientOK(c)'
  BY ClientFrame DEF Gone, StoreInv
<1> QED
  BY <1>1, <1>2, <1>3 DEF Gone, StoreInv, Sound, EffectsPast

\* No request is open to the rows, or in the way, when the process changes.
LEMMA ProcessStep ==
  ASSUME StoreInv, Signal \/ Start
  PROVE  StoreInv'
<1>1. process' \in {"draining", "serving"} /\ UNCHANGED <<db, calls, writer, seen, told, faults>>
  BY DEF Signal, Start, StoreInv, Sound
<1>2. TypeOK'
  BY <1>1 DEF StoreInv, TypeOK
<1>3. \A k \in Calls : CallOK(k)'
  BY <1>1, CallFrame DEF StoreInv, CallOK
<1>4. \A c \in Clients : ClientOK(c)'
  BY <1>1, ClientFrame DEF StoreInv
<1> QED
  BY <1>1, <1>2, <1>3, <1>4 DEF StoreInv, Sound, EffectsPast

\* What is heard was true of the rows when it was sent, and still is.
LEMMA DeliverStep ==
  ASSUME StoreInv, NEW k \in Calls, Deliver(k)
  PROVE  StoreInv'
<1> DEFINE owner == ClientOf[k]
<1>1. PICK answer : answer = calls[k].answer
  OBVIOUS
<1>2. /\ owner \in Clients /\ CallOK(k) /\ calls[k].phase = "answered"
      /\ answer \in Answers /\ Stands(owner, answer)
  BY <1>1, CallOwner DEF Deliver, StoreInv, CallOK
<1>3. /\ calls' \in [Calls -> CallRows] /\ calls'[k] = NoCall
      /\ \A n \in Calls \ {k} : calls'[n] = calls[n]
  BY ClearRow DEF Deliver, StoreInv
<1>4. /\ db' = db /\ writer' = writer /\ process' = process /\ faults' = faults
      /\ seen' = [seen EXCEPT ![owner] = IF answer.kind = "view" /\ @ = None
                                         THEN answer.version ELSE @]
      /\ told' = [told EXCEPT ![owner] = IF answer.kind \in {"ok", "refused"}
                                         THEN @ \cup {answer} ELSE @]
  BY <1>1 DEF Deliver, Final
<1>5. /\ \A c \in Clients : seen[c] # None => seen'[c] = seen[c]
      /\ \A c \in Clients \ {owner} : seen'[c] = seen[c] /\ told'[c] = told[c]
      /\ told'[owner] \subseteq told[owner] \cup {answer}
      /\ \/ seen'[owner] = seen[owner]
         \/ answer.kind = "view" /\ seen'[owner] = answer.version
  BY <1>2, <1>4 DEF StoreInv, TypeOK
<1>6. TypeOK'
  <2>1. answer.kind = "view" => answer.version \in Nat
    BY <1>2 DEF Answers, Finals
  <2>2. answer.kind \in {"ok", "refused"} => answer \in Finals
    BY <1>2 DEF Answers, Finals
  <2> QED
    BY <1>2, <1>3, <1>4, <2>1, <2>2 DEF StoreInv, TypeOK
<1>7. ASSUME NEW c \in Clients, NEW a, Stands(c, a)
      PROVE  Stands(c, a)'
  BY <1>4, <1>5, <1>7 DEF Stands, KeptFor
<1>8. ASSUME NEW n \in Calls, n # k
      PROVE  CallOK(n)'
  <2>1. CallOK(n) /\ calls'[n] = calls[n] /\ ClientOf[n] \in Clients
    BY <1>3, <1>8, CallOwner DEF StoreInv
  <2>2. calls[n].phase # "idle" /\ calls[n].kind = "command"
          => seen[ClientOf[n]] # None /\ seen'[ClientOf[n]] = seen[ClientOf[n]]
    BY <1>5, <2>1 DEF CallOK
  <2>3. SnapshotOK(n)'
    BY <1>4, <2>1, <2>2 DEF CallOK, SnapshotOK, Past, Job
  <2>4. calls[n].phase = "answered" => Stands(ClientOf[n], calls[n].answer)'
    <3>1. PICK a : a = calls[n].answer
      OBVIOUS
    <3> QED
      BY <1>7, <2>1, <3>1 DEF CallOK
  <2>5. calls[n].phase \in {"checked", "writing"} => Permitted(n)'
    BY <2>1, <2>2 DEF CallOK, Permitted, Job
  <2> QED
    BY <1>4, <2>1, <2>2, <2>3, <2>4, <2>5 DEF CallOK, Key
<1>9. CallOK(k)'
  BY <1>3 DEF NoCall, CallOK, SnapshotOK
<1>10. ASSUME NEW c \in Clients
       PROVE  ClientOK(c)'
  <2>1. ClientOK(c) /\ TypeOK
    BY DEF StoreInv
  <2>2. seen'[c] # None => seen'[c] <= db'.version[JobOf[c]]
    <3>1. CASE seen'[c] = seen[c]
      BY <1>4, <2>1, <3>1 DEF ClientOK
    <3>2. CASE c = owner /\ answer.kind = "view" /\ seen'[c] = answer.version
      BY <1>2, <1>4, <3>2 DEF Stands
    <3> QED
      BY <1>5, <3>1, <3>2
  <2>3. \A a \in told'[c] : Stands(c, a)'
    <3>1. ASSUME NEW a \in told'[c]
          PROVE  Stands(c, a)
      BY <1>2, <1>5, <2>1, <3>1 DEF ClientOK
    <3> QED
      BY <1>7, <3>1
  <2>4. KeptFor(c)' = KeptFor(c)
    BY <1>4 DEF KeptFor
  <2> QED
    BY <1>5, <2>1, <2>2, <2>3, <2>4 DEF ClientOK
<1> QED
  BY <1>3, <1>4, <1>6, <1>8, <1>9, <1>10 DEF StoreInv, Sound, EffectsPast

\* An event chained to the head of an unbroken chain leaves it unbroken.
LEMMA AppendedVerifies ==
  ASSUME NEW events \in Seq(Events), NEW key \in Keys, events # <<>>, VerifyAudit(events)
  PROVE  LET longer == Append(events, Event(LastAuditDigest(events), key)) IN
         /\ longer \in Seq(Events) /\ longer # <<>>
         /\ Len(longer) = Len(events) + 1 /\ VerifyAudit(longer)
<1>1. PICK event : event = Event(LastAuditDigest(events), key)
  OBVIOUS
<1>2. Len(events) \in Nat /\ Len(events) >= 1
  OBVIOUS
<1>3. events[Len(events)] \in Events
  BY <1>2
<1>4. event.prev = events[Len(events)].digest /\ event \in Events
  <2>1. LastAuditDigest(events) \in Digests
    BY <1>3 DEF LastAuditDigest, Events
  <2>2. Append(LastAuditDigest(events), key) \in Digests
    BY <2>1 DEF Digests
  <2> QED
    BY <1>1, <2>1, <2>2 DEF Event, Events, LastAuditDigest
<1>5. PICK longer : longer = Append(events, event)
  OBVIOUS
<1>6. /\ longer \in Seq(Events) /\ Len(longer) = Len(events) + 1
      /\ longer[Len(events) + 1] = event
      /\ \A n \in 1..Len(events) : longer[n] = events[n]
  BY <1>2, <1>4, <1>5
<1>7. VerifyAudit(longer)
  <2>1. ASSUME NEW n \in 1..Len(longer)
        PROVE  longer[n].prev = IF n = 1 THEN <<>> ELSE longer[n - 1].digest
    <3>1. CASE n \in 1..Len(events)
      <4>1. n # 1 => n - 1 \in 1..Len(events)
        BY <1>2, <3>1
      <4> QED
        BY <1>6, <3>1, <4>1 DEF VerifyAudit
    <3>2. CASE n = Len(events) + 1
      BY <1>2, <1>4, <1>6, <3>2
    <3> QED
      BY <1>2, <1>6, <2>1, <3>1, <3>2
  <2> QED
    BY <2>1 DEF VerifyAudit
<1> QED
  BY <1>1, <1>5, <1>6, <1>7

LEMMA AppliedRows ==
  ASSUME NEW rows \in Rows, Sound(rows), NEW j \in Jobs, NEW key \in Keys
  PROVE  LET next == Applied(rows, j, key) IN
         /\ next \in Rows /\ Sound(next)
         /\ next.version = [rows.version EXCEPT ![j] = rows.version[j] + 1]
         /\ next.result = [rows.result EXCEPT ![key] = Effect(rows, j)]
         /\ Effect(rows, j) \in Effects
<1>1. PICK next : next = Applied(rows, j, key)
  OBVIOUS
<1>2. PICK longer : longer = Append(rows.chain[j], Event(LastAuditDigest(rows.chain[j]), key))
  OBVIOUS
<1>3. /\ next.version = [rows.version EXCEPT ![j] = rows.version[j] + 1]
      /\ next.chain = [rows.chain EXCEPT ![j] = longer]
      /\ next.result = [rows.result EXCEPT ![key] = Effect(rows, j)]
      /\ next = [version |-> next.version, chain |-> next.chain, result |-> next.result]
  BY <1>1, <1>2 DEF Applied
<1>4. /\ rows.version \in [Jobs -> Nat] /\ rows.chain \in [Jobs -> Seq(Events)]
      /\ rows.result \in [Keys -> Effects \cup {None}]
  BY DEF Rows
<1>5. /\ longer \in Seq(Events) /\ longer # <<>>
      /\ Len(longer) = Len(rows.chain[j]) + 1 /\ VerifyAudit(longer)
  BY <1>2, <1>4, AppendedVerifies DEF Sound
<1>6. Effect(rows, j) \in Effects
  BY <1>4 DEF Effect, Effects
<1>7. next \in Rows
  <2>1. /\ next.version \in [Jobs -> Nat] /\ next.chain \in [Jobs -> Seq(Events)]
        /\ next.result \in [Keys -> Effects \cup {None}]
    BY <1>3, <1>4, <1>5, <1>6
  <2> QED
    BY <1>3, <2>1 DEF Rows
<1>8. Sound(next)
  BY <1>3, <1>4, <1>5 DEF Sound
<1> QED
  BY <1>1, <1>3, <1>6, <1>7, <1>8

\* The writer's snapshot is the present rows, so its effect is on them: no
\* other command's effect is lost, and what was answered is untouched.
LEMMA CommitStep ==
  ASSUME StoreInv, NEW k \in Calls, Commit(k)
  PROVE  StoreInv'
<1> DEFINE owner == ClientOf[k]
           j == Job(k)
           key == Key(k)
<1>1. /\ owner \in Clients /\ j \in Jobs /\ key \in Keys
      /\ j = JobOf[owner] /\ key = KeyOf[owner]
  BY CallOwner DEF Job, Key
<1>2. /\ CallOK(k) /\ calls[k].phase = "writing" /\ calls[k].snap = db
      /\ db \in Rows /\ Sound(db)
  BY DEF Commit, StoreInv, TypeOK, CallOK
<1>3. /\ db.result[key] = None /\ seen[owner] # None
      /\ db.version[j] = seen[owner] /\ owner \in Acceptable
      /\ calls[k].kind = "command"
  BY <1>2 DEF CallOK, Permitted
<1>4. PICK effect : effect = Effect(db, j)
  OBVIOUS
<1>5. /\ db' \in Rows /\ Sound(db') /\ effect \in Effects
      /\ db'.version = [db.version EXCEPT ![j] = db.version[j] + 1]
      /\ db'.result = [db.result EXCEPT ![key] = effect]
      /\ effect = [job |-> j, version |-> db.version[j] + 1]
  BY <1>1, <1>2, <1>4, AppliedRows DEF Commit, Effect
<1>6. /\ db.version \in [Jobs -> Nat] /\ db.result \in [Keys -> Effects \cup {None}]
      /\ effect # None
  BY <1>2, <1>5, NoneIsNoEffect DEF Rows
<1>7. PICK answer : answer = [kind |-> "ok", effect |-> effect]
  OBVIOUS
<1>8. answer \in Answers /\ Respond(k, answer)
  BY <1>2, <1>4, <1>5, <1>7 DEF Commit, Answers, Finals
<1>9. /\ calls' \in [Calls -> CallRows] /\ calls'[k].phase = "answered"
      /\ \A n \in Calls \ {k} : calls'[n] = calls[n]
      /\ calls'[k].answer = answer /\ calls'[k].kind = calls[k].kind
  BY <1>8, RespondRow DEF StoreInv
<1>10. seen' = seen /\ told' = told /\ writer' = None /\ process' = process /\ faults' = faults
  BY DEF Commit
<1>11. TypeOK'
  BY <1>5, <1>9, <1>10 DEF StoreInv, TypeOK
<1>12. /\ \A i \in Jobs : /\ db.version[i] \in Nat /\ db'.version[i] \in Nat
                           /\ db.version[i] <= db'.version[i]
       /\ db'.version[j] = db.version[j] + 1
       /\ \A x \in Keys : db.result[x] # None => db'.result[x] = db.result[x]
       /\ \A x \in Keys : x # key => db'.result[x] = db.result[x]
       /\ db'.result[key] = effect
  BY <1>1, <1>3, <1>5, <1>6
<1>13. ASSUME NEW c \in Clients, NEW a, Stands(c, a)
       PROVE  Stands(c, a)'
  <2>1. JobOf[c] \in Jobs /\ KeyOf[c] \in Keys
    BY StoreAssumption
  <2>2. a.kind = "ok" => KeptFor(c)' = a.effect /\ KeptFor(c)' # None
    BY <1>12, <1>13, <2>1 DEF Stands, KeptFor
  <2>3. ASSUME a.kind = "refused"
        PROVE  /\ seen[c] # None
               /\ db'.version[JobOf[c]] > seen[c] \/ c \notin Acceptable
               /\ Alone(c) => KeptFor(c)' = None
    <3>1. seen[c] # None /\ seen[c] \in Nat
      BY <1>13, <2>3 DEF Stands, StoreInv, TypeOK
    <3>2. db.version[JobOf[c]] > seen[c] \/ c \notin Acceptable
      BY <1>13, <2>3 DEF Stands
    <3>3. c # owner
      BY <1>1, <1>3, <1>6, <3>1, <3>2
    <3>4. Alone(c) => KeyOf[c] # key
      BY <1>1, <3>3 DEF Alone
    <3>5. db.version[JobOf[c]] > seen[c] => db'.version[JobOf[c]] > seen[c]
      BY <1>12, <2>1, <3>1
    <3>6. Alone(c) => KeptFor(c)' = None
      BY <1>12, <1>13, <2>1, <2>3, <3>4 DEF Stands, KeptFor
    <3> QED
      BY <3>1, <3>2, <3>5, <3>6
  <2>4. a.kind = "view" => /\ a.version \in Nat /\ a.version = a.events
                           /\ a.version <= db'.version[JobOf[c]]
    <3>1. CASE a.kind = "view"
      <4>1. JobOf[c] # j => db'.version[JobOf[c]] = db.version[JobOf[c]]
        BY <1>1, <1>5, <1>6, <2>1
      <4>2. /\ a.version \in Nat /\ a.version = a.events
            /\ a.version <= db.version[JobOf[c]]
        BY <1>13, <3>1 DEF Stands
      <4>3. CASE JobOf[c] # j
        BY <4>1, <4>2, <4>3
      <4>4. CASE JobOf[c] = j
        <5>1. a.version <= db.version[j] + 1
          BY <1>12, <2>1, <4>2, <4>4
        <5> QED
          BY <1>12, <4>2, <4>4, <5>1
      <4> QED
        BY <4>3, <4>4
    <3> QED
      BY <3>1
  <2> QED
    BY <1>10, <2>2, <2>3, <2>4 DEF Stands
<1>14. ASSUME NEW n \in Calls, n # k
       PROVE  CallOK(n)'
  <2>1. CallOK(n) /\ calls'[n] = calls[n] /\ calls[n].phase # "writing"
        /\ ClientOf[n] \in Clients
    BY <1>2, <1>9, <1>14, CallOwner DEF StoreInv, CallOK
  <2>2. ASSUME calls[n].phase \in {"looked", "checked", "writing"}
        PROVE  Past(calls[n].snap)'
    <3>1. Past(calls[n].snap) /\ calls[n].snap \in Rows
      BY <2>1, <2>2 DEF CallOK, SnapshotOK
    <3>2. ASSUME NEW i \in Jobs
          PROVE  calls[n].snap.version[i] <= db'.version[i]
      <4>1. calls[n].snap.version[i] \in Nat
        BY <3>1 DEF Rows
      <4>2. calls[n].snap.version[i] <= db.version[i]
        BY <3>1 DEF Past
      <4> QED
        BY <1>12, <4>1, <4>2
    <3>3. ASSUME NEW x \in Keys
          PROVE  /\ calls[n].snap.result[x] # None
                      => db'.result[x] = calls[n].snap.result[x]
                 /\ db'.result[x] # None =>
                      \/ calls[n].snap.result[x] = db'.result[x]
                      \/ calls[n].snap.version[db'.result[x].job] < db'.result[x].version
      <4>1. CASE x # key
        BY <1>12, <3>1, <4>1 DEF Past
      <4>2. CASE x = key
        <5>1. calls[n].snap.result[x] = None
          BY <1>3, <1>12, <3>1, <4>2 DEF Past
        <5>2. calls[n].snap.version[j] <= db.version[j]
              /\ calls[n].snap.version[j] \in Nat /\ db.version[j] \in Nat
          BY <1>1, <1>12, <3>1 DEF Past, Rows
        <5>3. calls[n].snap.version[effect.job] < effect.version
          BY <1>5, <5>2
        <5> QED
          BY <1>12, <4>2, <5>1, <5>3
      <4> QED
        BY <4>1, <4>2
    <3> QED
      BY <2>1, <3>2, <3>3 DEF Past
  <2>3. SnapshotOK(n)'
    BY <1>10, <2>1, <2>2 DEF CallOK, SnapshotOK, Job
  <2>4. calls[n].phase = "answered" => Stands(ClientOf[n], calls[n].answer)'
    <3>1. PICK a : a = calls[n].answer
      OBVIOUS
    <3> QED
      BY <1>13, <2>1, <3>1 DEF CallOK
  <2> QED
    BY <1>10, <2>1, <2>3, <2>4 DEF CallOK, Permitted, Job, Key
<1>15. CallOK(k)'
  <2>1. Stands(owner, answer)'
    BY <1>1, <1>6, <1>7, <1>12 DEF Stands, KeptFor
  <2> QED
    BY <1>3, <1>8, <1>9, <1>10, <2>1 DEF CallOK, SnapshotOK
<1>16. ASSUME NEW c \in Clients
       PROVE  ClientOK(c)'
  <2>1. ClientOK(c) /\ JobOf[c] \in Jobs /\ KeyOf[c] \in Keys
    BY StoreAssumption DEF StoreInv
  <2>2. seen[c] # None => seen[c] <= db'.version[JobOf[c]]
    <3>1. CASE seen[c] # None
      <4>1. seen[c] \in Nat /\ seen[c] <= db.version[JobOf[c]]
        BY <2>1, <3>1 DEF ClientOK, StoreInv, TypeOK
      <4>2. db'.version[JobOf[c]] \in Nat /\ db.version[JobOf[c]] <= db'.version[JobOf[c]]
        BY <1>5, <1>12, <2>1 DEF Rows
      <4> QED
        BY <1>12, <2>1, <4>1, <4>2
    <3> QED
      BY <3>1
  <2>3. \A a \in told[c] : Stands(c, a)'
    BY <1>13, <2>1 DEF ClientOK
  <2>4. ASSUME KeptFor(c)' # None, Alone(c)
        PROVE  /\ c \in Acceptable /\ seen[c] # None
               /\ KeptFor(c)' = [job |-> JobOf[c], version |-> seen[c] + 1]
    <3>1. CASE KeyOf[c] # key
      BY <1>12, <2>1, <2>4, <3>1 DEF ClientOK, KeptFor
    <3>2. CASE KeyOf[c] = key
      <4>1. c = owner
        BY <1>1, <2>4, <3>2 DEF Alone
      <4> QED
        BY <1>1, <1>3, <1>5, <1>12, <4>1 DEF KeptFor
    <3> QED
      BY <3>1, <3>2
  <2> QED
    BY <1>10, <2>2, <2>3, <2>4 DEF ClientOK
<1>17. EffectsPast'
  <2>1. ASSUME NEW x \in Keys, db'.result[x] # None
        PROVE  db'.result[x].version <= db'.version[db'.result[x].job]
    <3>1. CASE x # key
      <4>1. db'.result[x] = db.result[x] /\ db.result[x] \in Effects
        BY <1>6, <1>12, <2>1, <3>1
      <4>2. db.result[x].job \in Jobs /\ db.result[x].version \in Nat
            /\ db.result[x].version <= db.version[db.result[x].job]
        BY <2>1, <4>1 DEF Effects, StoreInv, EffectsPast
      <4>3. db'.version[db.result[x].job] \in Nat
        BY <1>5, <4>2 DEF Rows
      <4> QED
        BY <1>12, <4>1, <4>2, <4>3
    <3>2. CASE x = key
      BY <1>1, <1>5, <1>12, <3>2
    <3> QED
      BY <3>1, <3>2
  <2> QED
    BY <2>1 DEF EffectsPast
<1>18. Sound(db)'
  BY <1>5 DEF Sound
<1> QED
  BY <1>10, <1>11, <1>14, <1>15, <1>16, <1>17, <1>18 DEF StoreInv
----------------------------------------------------------------------------
(***************************************************************************)
(* Theorems.                                                               *)
(***************************************************************************)
LEMMA StoreStep == StoreInv /\ [Next]_vars => StoreInv'
<1> SUFFICES ASSUME StoreInv, [Next]_vars
             PROVE  StoreInv'
  OBVIOUS
<1>1. ASSUME NEW k \in Calls, Serve(k)
      PROVE  StoreInv'
  BY <1>1, BeginStep, FirstReadStep, DetailStep, ReplayStep, CheckStep,
     FirstWriteStep, BusyStep, CommitStep, DeliverStep DEF Serve
<1>2. ASSUME NEW k \in Calls, Send(k) \/ Fail(k) \/ Disconnect(k)
      PROVE  StoreInv'
  BY <1>2, SendStep, FailStep, DisconnectStep
<1>3. ASSUME Crash \/ Exit \/ Deadline
      PROVE  StoreInv'
  <2>1. Gone /\ faults' \in Nat
    BY <1>3 DEF Crash, Exit, Deadline, Fault, StoreInv, TypeOK
  <2> QED
    BY <2>1, GoneStep
<1>4. ASSUME UNCHANGED vars
      PROVE  StoreInv'
  <2>1. TypeOK'
    BY <1>4 DEF vars, StoreInv, TypeOK
  <2>2. \A k \in Calls : CallOK(k)'
    BY <1>4, CallFrame DEF vars, StoreInv, CallOK
  <2>3. \A c \in Clients : ClientOK(c)'
    BY <1>4, ClientFrame DEF vars, StoreInv
  <2> QED
    BY <1>4, <2>1, <2>2, <2>3 DEF vars, StoreInv, Sound, EffectsPast
<1> QED
  BY <1>1, <1>2, <1>3, <1>4, ProcessStep DEF Next

\* Requests and clients know what the invariant says they know.
THEOREM StoreInvariance == Spec => []StoreInv
  BY InitStore, StoreStep, PTL DEF Spec

\* The rows, requests and answers of the store have the types stated.
THEOREM StoreTypeCorrect == Spec => []TypeOK
  BY StoreInvariance, PTL DEF StoreInv

\* What was answered as done is in the database, through every failure.
THEOREM AcksAreDurable == Spec => []AckedIsDurable
<1>1. StoreInv => AckedIsDurable
  BY DEF StoreInv, AckedIsDurable, AnswersTo, CallOK, ClientOK, Stands
<1> QED
  BY <1>1, StoreInvariance, PTL

\* What was answered as refused never takes effect.
THEOREM RefusalsAreFinal == Spec => []RefusalIsFinal
<1>1. StoreInv => RefusalIsFinal
  BY DEF StoreInv, RefusalIsFinal, AnswersTo, CallOK, ClientOK, Stands
<1> QED
  BY <1>1, StoreInvariance, PTL

\* A command takes effect on the version its client saw.
THEOREM EffectsOnSeenVersion == Spec => []EffectOnSeenVersion
<1>1. StoreInv => EffectOnSeenVersion
  BY DEF StoreInv, EffectOnSeenVersion, ClientOK
<1> QED
  BY <1>1, StoreInvariance, PTL

\* The integrity check at the start never refuses what was committed.
THEOREM StoreStartsAgain == Spec => []StartsAgain
<1>1. StoreInv => StartsAgain
  BY DEF StoreInv, StartsAgain, Sound
<1> QED
  BY <1>1, StoreInvariance, PTL

\* A page is made of one version of its job.
THEOREM ViewsAreOneVersion == Spec => []ViewIsOneVersion
<1>1. ASSUME StoreInv
      PROVE  ViewIsOneVersion
  BY <1>1 DEF StoreInv, ViewIsOneVersion, CallOK, Stands
<1> QED
  BY <1>1, StoreInvariance, PTL
----------------------------------------------------------------------------
(***************************************************************************)
(* The lock and the pool.                                                  *)
(***************************************************************************)
\* Who holds a connection can be counted, and a process that is not running has
\* no request.
HoldInv ==
  /\ \A k \in Calls : writer = k <=> calls[k].phase = "writing"
  /\ IsFiniteSet(Connected) /\ Cardinality(Connected) <= PoolSize
  /\ ~Running => \A k \in Calls : calls[k] = NoCall

\* A request gives back its connection, or keeps what it has.
LEMMA FewerConnected ==
  ASSUME HoldInv, Connected' \subseteq Connected
  PROVE  IsFiniteSet(Connected)' /\ Cardinality(Connected)' <= PoolSize
<1>1. PICK now, then : now = Connected /\ then = Connected'
  OBVIOUS
<1>2. IsFiniteSet(then) /\ Cardinality(then) <= Cardinality(now)
  BY <1>1, FS_Subset DEF HoldInv
<1>3. Cardinality(now) \in Nat /\ Cardinality(then) \in Nat /\ PoolSize \in Nat
  BY <1>1, <1>2, FS_CardinalityType, StoreAssumption DEF HoldInv
<1>4. Cardinality(then) <= PoolSize
  BY <1>1, <1>2, <1>3 DEF HoldInv
<1>. QED
  BY <1>1, <1>2, <1>4

\* The step of a request that leaves another's lock alone and asks for no
\* connection.
LEMMA HolderSteps ==
  ASSUME TypeOK, HoldInv, Running, process' = process, NEW k \in Calls,
         \A n \in Calls \ {k} : calls'[n] = calls[n],
         calls'[k].phase \in {"begun", "looked", "checked", "writing"} =>
           calls[k].phase \in {"begun", "looked", "checked", "writing"},
         \/ writer' = writer /\ (calls'[k].phase = "writing" <=> calls[k].phase = "writing")
         \/ writer' = Released(k) /\ calls'[k].phase # "writing"
         \/ writer = None /\ writer' = k /\ calls'[k].phase = "writing"
  PROVE  HoldInv'
<1>1. Running'
  BY DEF Running
<1>2. Connected' \subseteq Connected
  BY DEF Connected
<1>3. ASSUME NEW n \in Calls  PROVE writer' = n <=> calls'[n].phase = "writing"
  <2>1. CASE n = k
    BY <2>1, StoreAssumption DEF HoldInv, Released
  <2>2. CASE n # k
    BY <2>2, StoreAssumption DEF HoldInv, Released
  <2>. QED
    BY <2>1, <2>2
<1>. QED
  BY <1>1, <1>2, <1>3, FewerConnected DEF HoldInv

LEMMA GoneHolds ==
  ASSUME HoldInv, Gone
  PROVE  HoldInv'
<1>1. \A k \in Calls : calls'[k] = NoCall
  BY DEF Gone
<1>2. Connected' \subseteq Connected
  BY <1>1 DEF Connected, NoCall
<1>3. \A k \in Calls : writer' # k
  BY StoreAssumption DEF Gone
<1>. QED
  BY <1>1, <1>2, <1>3, FewerConnected DEF HoldInv, NoCall

LEMMA BeginHolds ==
  ASSUME TypeOK, HoldInv, NEW k \in Calls, Begin(k)
  PROVE  HoldInv'
<1>1. /\ calls'[k].phase = "begun" /\ calls[k].phase = "sent"
      /\ \A n \in Calls \ {k} : calls'[n] = calls[n]
      /\ writer' = writer /\ process' = process /\ Running
      /\ Cardinality(Connected) < PoolSize
  BY MoveRow DEF Begin, Phases
<1>2. PICK now, then : now = Connected /\ then = Connected'
  OBVIOUS
<1>3. then = now \cup {k}
  BY <1>1, <1>2 DEF Connected
<1>4. IsFiniteSet(then) /\ Cardinality(then) <= Cardinality(now) + 1
  <2>1. IsFiniteSet(now) /\ Cardinality(now) \in Nat
    BY <1>2, FS_CardinalityType DEF HoldInv
  <2>2. /\ IsFiniteSet(now \cup {k})
        /\ \/ Cardinality(now \cup {k}) = Cardinality(now)
           \/ Cardinality(now \cup {k}) = Cardinality(now) + 1
    BY <2>1, FS_AddElement
  <2>. QED
    BY <1>3, <2>1, <2>2
<1>5. Cardinality(now) \in Nat /\ Cardinality(then) \in Nat /\ PoolSize \in Nat
  BY <1>2, <1>4, FS_CardinalityType, StoreAssumption DEF HoldInv
<1>6. Cardinality(then) <= PoolSize
  BY <1>1, <1>2, <1>4, <1>5
<1>7. \A n \in Calls : writer' = n <=> calls'[n].phase = "writing"
  BY <1>1 DEF HoldInv
<1>. QED
  BY <1>1, <1>2, <1>4, <1>6, <1>7 DEF HoldInv, Running

LEMMA ServeHolds ==
  ASSUME TypeOK, HoldInv, NEW k \in Calls, Serve(k)
  PROVE  HoldInv'
<1>1. CASE Begin(k)
  BY <1>1, BeginHolds
<1>2. CASE FirstRead(k)
  BY <1>2, HolderSteps DEF FirstRead, TypeOK, CallRows
<1>3. CASE JobDetail(k)
  BY <1>3, HolderSteps DEF JobDetail, At, Respond, TypeOK, CallRows
<1>4. CASE Replay(k)
  BY <1>4, HolderSteps DEF Replay, At, Respond, TypeOK, CallRows
<1>5. CASE Check(k)
  <2>1. /\ calls[k].phase = "looked" /\ calls'[k].phase \in {"checked", "answered"}
        /\ \A n \in Calls \ {k} : calls'[n] = calls[n]
    BY <1>5 DEF Check, At, Move, Respond, TypeOK, CallRows
  <2>. QED
    BY <1>5, <2>1, HolderSteps DEF Check
<1>6. CASE FirstWrite(k)
  BY <1>6, HolderSteps DEF FirstWrite, MayWrite, Move, TypeOK, CallRows
<1>7. CASE Busy(k)
  BY <1>7, HolderSteps DEF Busy, Respond, TypeOK, CallRows
<1>8. CASE Commit(k)
  <2>1. writer = k
    BY <1>8 DEF Commit, HoldInv
  <2>. QED
    BY <1>8, <2>1, HolderSteps DEF Commit, Released, Respond, TypeOK, CallRows
<1>9. CASE Deliver(k)
  BY <1>9, HolderSteps, ClearRow DEF Deliver, NoCall, HoldInv
<1>. QED
  BY <1>1, <1>2, <1>3, <1>4, <1>5, <1>6, <1>7, <1>8, <1>9 DEF Serve

LEMMA HoldStep ==
  ASSUME TypeOK, HoldInv, [Next]_vars
  PROVE  HoldInv'
<1>1. ASSUME NEW k \in Calls, Send(k)  PROVE HoldInv'
  <2>1. calls[k].phase = "idle" /\ calls'[k].phase = "sent" /\ Running
    BY <1>1 DEF Send, NoCall, Running, TypeOK, CallRows
  <2>. QED
    BY <1>1, <2>1, HolderSteps DEF Send, TypeOK
<1>2. ASSUME NEW k \in Calls, Fail(k)  PROVE HoldInv'
  BY <1>2, HolderSteps DEF Fail, Respond, TypeOK, CallRows
<1>3. ASSUME NEW k \in Calls, Disconnect(k)  PROVE HoldInv'
  BY <1>3, HolderSteps, ClearRow DEF Disconnect, NoCall
<1>4. CASE Crash \/ Exit \/ Deadline
  BY <1>4, GoneHolds DEF Crash, Exit, Deadline
<1>5. CASE Signal \/ Start
  <2>1. calls' = calls /\ writer' = writer /\ (~Running' => ~Running)
    BY <1>5 DEF Signal, Start, Running
  <2>2. Connected' = Connected
    BY <2>1 DEF Connected
  <2>. QED
    BY <2>1, <2>2 DEF HoldInv
<1>6. CASE UNCHANGED vars
  <2>1. calls' = calls /\ writer' = writer /\ process' = process
    BY <1>6 DEF vars
  <2>2. Connected' = Connected
    BY <2>1 DEF Connected
  <2>. QED
    BY <2>1, <2>2 DEF HoldInv, Running
<1>. QED
  BY <1>1, <1>2, <1>3, <1>4, <1>5, <1>6, ServeHolds DEF Next

LEMMA HoldInit ==
  ASSUME Init
  PROVE  HoldInv
<1>1. \A k \in Calls : calls[k] = NoCall /\ calls[k].phase = "idle"
  BY DEF Init, NoCall
<1>2. Connected = {}
  BY <1>1 DEF Connected
<1>3. IsFiniteSet(Connected) /\ Cardinality(Connected) = 0
  BY <1>2, FS_EmptySet
<1>. QED
  BY <1>1, <1>3, StoreAssumption DEF Init, HoldInv

LEMMA HoldersGiveBack == TypeOK /\ HoldInv => ResourcesComeBack
<1>. SUFFICES ASSUME TypeOK, HoldInv, ~Running  PROVE writer = None /\ Connected = {}
  BY DEF HoldInv, ResourcesComeBack
<1>1. \A k \in Calls : calls[k].phase = "idle"
  BY DEF HoldInv, NoCall
<1>. QED
  BY <1>1 DEF HoldInv, TypeOK, Connected

\* Neither the write lock nor a connection outlives its request, for any number
\* of requests and any pool, through every way a request can end.
THEOREM NothingIsLeaked == Spec => []ResourcesComeBack
<1>1. TypeOK /\ HoldInv /\ [Next]_vars => HoldInv'
  BY HoldStep
<1>. QED
  BY <1>1, HoldInit, HoldersGiveBack, StoreTypeCorrect, PTL DEF Spec
----------------------------------------------------------------------------
(***************************************************************************)
(* The serial specification.                                               *)
(***************************************************************************)

\* Only a commit is seen, and it is one serial step.
LEMMA CommitExecutes ==
  ASSUME StoreInv, NEW k \in Calls, Commit(k)
  PROVE  Ledger!Execute(Job(k), Key(k))
<1>1. Job(k) \in Jobs /\ Key(k) \in Keys
  BY CallOwner
<1>2. /\ calls[k].snap = db /\ db \in Rows /\ Sound(db) /\ db.result[Key(k)] = None
      /\ db' = Applied(db, Job(k), Key(k))
  BY DEF Commit, StoreInv, TypeOK, CallOK
<1>3. /\ db'.version = [db.version EXCEPT ![Job(k)] = db.version[Job(k)] + 1]
      /\ db'.result = [db.result EXCEPT ![Key(k)] = Effect(db, Job(k))]
  BY <1>1, <1>2, AppliedRows
<1> QED
  BY <1>2, <1>3 DEF Ledger!Execute, Effect

LEMMA StoreStepImplements ==
  StoreInv /\ [Next]_vars => [Ledger!Next]_(Ledger!vars)
<1> SUFFICES ASSUME StoreInv, [Next]_vars
             PROVE  [Ledger!Next]_(Ledger!vars)
  OBVIOUS
<1>1. ASSUME NEW k \in Calls, Commit(k)
      PROVE  Ledger!Next
  BY <1>1, CommitExecutes, CallOwner DEF Ledger!Next
<1>2. ASSUME UNCHANGED db
      PROVE  UNCHANGED Ledger!vars
  BY <1>2 DEF Ledger!vars
<1>3. ASSUME NEW k \in Calls, Serve(k) \/ Send(k) \/ Fail(k) \/ Disconnect(k)
      PROVE  Commit(k) \/ UNCHANGED db
  BY <1>3 DEF Serve, Begin, FirstRead, JobDetail, Replay, Check, FirstWrite,
              Busy, Deliver, Send, Fail, Disconnect
<1>4. ASSUME Crash \/ Signal \/ Exit \/ Deadline \/ Start \/ UNCHANGED vars
      PROVE  UNCHANGED db
  BY <1>4 DEF Crash, Signal, Exit, Deadline, Start, Gone, vars
<1> QED
  BY <1>1, <1>2, <1>3, <1>4 DEF Next

\* Transactions on eight connections, with faults, are commands one at a time.
THEOREM StoreImplementsLedger == Spec => ImplementsLedger
<1>1. Init => Ledger!Init
  BY DEF Init, Ledger!Init
<1> QED
  BY <1>1, StoreStepImplements, StoreInvariance, PTL
     DEF Spec, ImplementsLedger, Ledger!Spec
=============================================================================
