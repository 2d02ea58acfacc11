---------------------------- MODULE SqliteStore -----------------------------
(***************************************************************************)
(* A command as the server runs it: an HTTP request, a connection of the   *)
(* pool, a transaction that reads on a snapshot and asks for SQLite's one  *)
(* write lock at its first write, an answer that may not arrive, and a     *)
(* client that sends the command again under the same key.  The process    *)
(* may crash, or be told to stop while requests are running.               *)
(*                                                                         *)
(* BeginTx opens a deferred transaction on a database in WAL mode.  Its    *)
(* snapshot is that of its first statement, which is always a SELECT.  Its *)
(* first write is refused at once, without the busy handler and so without *)
(* the busy timeout, when another connection holds the write lock or has   *)
(* committed since the snapshot.                                           *)
(*                                                                         *)
(* CaptionWorkflow says what commands do to the rows.  Here a command      *)
(* raises the version of one job, adds an event to its chain and keeps its *)
(* result under its key.                                                   *)
(***************************************************************************)
EXTENDS Naturals, Sequences, FiniteSets

CONSTANTS
  None,
  Jobs, Keys,
  Clients,    \* each has one command to get done
  JobOf,      \* the job it is about
  KeyOf,      \* and the idempotency key it is sent under
  Acceptable, \* the clients whose command passes the rules at the version seen
  Calls,      \* requests that may be open at a time
  ClientOf,   \* and whose they are
  PoolSize,   \* connections of the pool: 8 in code
  MaxFaults   \* bound: requests cut off, failures and crashes

ASSUME StoreAssumption ==
  /\ JobOf \in [Clients -> Jobs]
  /\ KeyOf \in [Clients -> Keys]
  /\ Acceptable \subseteq Clients
  /\ ClientOf \in [Calls -> Clients]
  /\ None \notin Calls /\ None \notin Nat
  /\ PoolSize \in Nat \ {0} /\ MaxFaults \in Nat

VARIABLES
  db,      \* the rows that are committed
  calls,   \* how far each request has come
  writer,  \* the request that holds the write lock, or None
  seen,    \* the version of its job a client has read, or None
  told,    \* the final answers a client has heard
  process, \* "serving", "draining", "down", or "refused" to start
  faults

vars == <<db, calls, writer, seen, told, process, faults>>

\* Jobs exist, as "create_job" left them: one version, one event.
Event(prev, key) == [prev |-> prev, digest |-> Append(prev, key)]

Created == <<Event(<<>>, None)>>

NoCall == [phase |-> "idle", kind |-> None, snap |-> None, answer |-> None]

Init ==
  /\ db = [version |-> [j \in Jobs |-> 1],
           chain   |-> [j \in Jobs |-> Created],
           result  |-> [k \in Keys |-> None]]
  /\ calls   = [k \in Calls |-> NoCall]
  /\ writer  = None
  /\ seen    = [c \in Clients |-> None]
  /\ told    = [c \in Clients |-> {}]
  /\ process = "serving"
  /\ faults  = 0
----------------------------------------------------------------------------
(***************************************************************************)
(* Requests.                                                               *)
(***************************************************************************)
Job(k) == JobOf[ClientOf[k]]

Key(k) == KeyOf[ClientOf[k]]

At(k, kind, phase) == calls[k].kind = kind /\ calls[k].phase = phase

Move(k, phase) == calls' = [calls EXCEPT ![k].phase = phase]

\* The transaction is over and the handler writes its answer.
Respond(k, answer) ==
  calls' = [calls EXCEPT ![k] = [@ EXCEPT !.phase = "answered", !.snap = None,
                                          !.answer = answer]]

Running == process \in {"serving", "draining"}

\* A client reads its job, then sends its command with the version it read,
\* and sends it again, also while an earlier request is still open, until it
\* hears a final answer.
Send(k) ==
  LET c == ClientOf[k] IN
  /\ process = "serving"
  /\ calls[k] = NoCall
  /\ told[c] = {}
  /\ calls' = [calls EXCEPT ![k].phase = "sent",
               ![k].kind = IF seen[c] = None THEN "view" ELSE "command"]
  /\ UNCHANGED <<db, writer, seen, told, process, faults>>

\* A handler that keeps a connection while it waits for its transaction's.
ConnectedTwice == {k \in Calls : calls[k].phase # "idle"}

\* A connection is taken from "begun" until the transaction ends.
Connected == {k \in Calls : calls[k].phase \in {"begun", "looked", "checked", "writing"}}

\* BeginTx waits for a free connection.
Begin(k) ==
  /\ Running
  /\ calls[k].phase = "sent"
  /\ Cardinality(Connected) < PoolSize
  /\ Move(k, "begun")
  /\ UNCHANGED <<db, writer, seen, told, process, faults>>

\* The first SELECT takes the snapshot: GetIdempotency, or GetJob of a view.
FirstRead(k) ==
  /\ Running
  /\ calls[k].phase = "begun"
  /\ calls' = [calls EXCEPT ![k].phase = "looked", ![k].snap = db]
  /\ UNCHANGED <<db, writer, seen, told, process, faults>>

DetailOutsideTransaction(k) ==
  /\ Running
  /\ At(k, "view", "looked")
  /\ Respond(k, [kind    |-> "view",
                 version |-> calls[k].snap.version[Job(k)],
                 events  |-> Len(db.chain[Job(k)])])
  /\ UNCHANGED <<db, writer, seen, told, process, faults>>

\* JobDetail reads the other tables after the job, on the same snapshot.
JobDetail(k) ==
  /\ Running
  /\ At(k, "view", "looked")
  /\ Respond(k, [kind    |-> "view",
                 version |-> calls[k].snap.version[Job(k)],
                 events  |-> Len(calls[k].snap.chain[Job(k)])])
  /\ UNCHANGED <<db, writer, seen, told, process, faults>>

\* A key that had its effect answers the command, whatever its version.
Replay(k) ==
  /\ Running
  /\ At(k, "command", "looked")
  /\ calls[k].snap.result[Key(k)] # None
  /\ Respond(k, [kind |-> "ok", effect |-> calls[k].snap.result[Key(k)]])
  /\ UNCHANGED <<db, writer, seen, told, process, faults>>

PermittedByRules(k) == ClientOf[k] \in Acceptable

\* The version is the expected one and the rules permit the command.
Permitted(k) ==
  /\ calls[k].snap.version[Job(k)] = seen[ClientOf[k]]
  /\ ClientOf[k] \in Acceptable

CheckWithoutKey(k) ==
  /\ Running
  /\ At(k, "command", "looked")
  /\ IF Permitted(k) THEN Move(k, "checked")
                     ELSE Respond(k, [kind |-> "refused"])
  /\ UNCHANGED <<db, writer, seen, told, process, faults>>

Check(k) ==
  /\ Running
  /\ At(k, "command", "looked")
  /\ calls[k].snap.result[Key(k)] = None
  /\ IF Permitted(k) THEN Move(k, "checked")
                     ELSE Respond(k, [kind |-> "refused"])
  /\ UNCHANGED <<db, writer, seen, told, process, faults>>

WriteOnOldSnapshot(k) == writer = None

\* The first write turns the read transaction into the writing one.
MayWrite(k) == writer = None /\ calls[k].snap = db

FirstWrite(k) ==
  /\ Running
  /\ calls[k].phase = "checked"
  /\ MayWrite(k)
  /\ writer' = k
  /\ Move(k, "writing")
  /\ UNCHANGED <<db, seen, told, process, faults>>

\* SQLITE_BUSY or SQLITE_BUSY_SNAPSHOT: no domain error, so answered with 500.
Busy(k) ==
  /\ Running
  /\ calls[k].phase = "checked"
  /\ ~MayWrite(k)
  /\ Respond(k, [kind |-> "busy"])
  /\ UNCHANGED <<db, writer, seen, told, process, faults>>

FirstAuditDigest(events) == events[1].digest

LastAuditDigest(events) == events[Len(events)].digest

\* UpdateJob, AppendAudit and PutIdempotency.
Effect(rows, j) == [job |-> j, version |-> rows.version[j] + 1]

Applied(rows, j, key) ==
  [version |-> [rows.version EXCEPT ![j] = @ + 1],
   chain   |-> [rows.chain EXCEPT ![j] = Append(@, Event(LastAuditDigest(@), key))],
   result  |-> [rows.result EXCEPT ![key] = Effect(rows, j)]]

Commit(k) ==
  /\ Running
  /\ calls[k].phase = "writing"
  /\ db' = Applied(calls[k].snap, Job(k), Key(k))
  /\ writer' = None
  /\ Respond(k, [kind |-> "ok", effect |-> Effect(calls[k].snap, Job(k))])
  /\ UNCHANGED <<seen, told, process, faults>>

Final(answer) == answer.kind \in {"ok", "refused"}

\* A final answer settles the command; after a 500 the client is as before.
Deliver(k) ==
  LET c == ClientOf[k]
      answer == calls[k].answer
  IN
  /\ Running
  /\ calls[k].phase = "answered"
  /\ calls' = [calls EXCEPT ![k] = NoCall]
  /\ seen' = [seen EXCEPT ![c] =
       IF answer.kind = "view" /\ @ = None THEN answer.version ELSE @]
  /\ told' = [told EXCEPT ![c] =
       IF Final(answer) THEN @ \cup {answer} ELSE @]
  /\ UNCHANGED <<db, writer, process, faults>>
----------------------------------------------------------------------------
(***************************************************************************)
(* Faults.                                                                 *)
(***************************************************************************)
Fault == faults < MaxFaults /\ faults' = faults + 1

NeverReleased(k) == writer

Released(k) == IF writer = k THEN None ELSE writer

\* A statement after the first write fails: Rollback, and the client hears 500.
Fail(k) ==
  /\ Running /\ Fault
  /\ calls[k].phase = "writing"
  /\ writer' = Released(k)
  /\ Respond(k, [kind |-> "error"])
  /\ UNCHANGED <<db, seen, told, process>>

\* The client goes away.  Its context rolls the transaction back, unless it
\* is committed: then only the answer is lost.
Disconnect(k) ==
  /\ Running /\ Fault
  /\ calls[k] # NoCall
  /\ calls' = [calls EXCEPT ![k] = NoCall]
  /\ writer' = Released(k)
  /\ UNCHANGED <<db, seen, told, process>>

\* Requests and transactions go with the process; committed rows stay.
Gone ==
  /\ calls' = [k \in Calls |-> NoCall]
  /\ writer' = None
  /\ process' = "down"
  /\ UNCHANGED <<db, seen, told>>

Crash == Running /\ Fault /\ Gone

\* SIGTERM: the listener closes, open requests go on.
Signal ==
  /\ process = "serving"
  /\ process' = "draining"
  /\ UNCHANGED <<db, calls, writer, seen, told, faults>>

\* Shutdown returns when no request is open.
Exit ==
  /\ process = "draining"
  /\ \A k \in Calls : calls[k] = NoCall
  /\ Gone /\ UNCHANGED faults

\* Shutdown gives up after ten seconds, and run closes the store and returns.
Deadline ==
  /\ process = "draining"
  /\ \E k \in Calls : calls[k] # NoCall
  /\ Gone /\ UNCHANGED faults

VerifyAudit(events) ==
  \A n \in 1..Len(events) :
    events[n].prev = IF n = 1 THEN <<>> ELSE events[n - 1].digest

\* Open configures and migrates, which changes nothing in a database that has
\* its tables; CheckIntegrity must find every chain unbroken before run listens.
Start ==
  /\ process = "down"
  /\ process' = IF \A j \in Jobs : VerifyAudit(db.chain[j])
                THEN "serving" ELSE "refused"
  /\ UNCHANGED <<db, calls, writer, seen, told, faults>>
----------------------------------------------------------------------------
\* What the server does for a request without anything going wrong.
Serve(k) ==
  \/ Begin(k) \/ FirstRead(k) \/ JobDetail(k) \/ Replay(k) \/ Check(k)
  \/ FirstWrite(k) \/ Busy(k) \/ Commit(k) \/ Deliver(k)

Next ==
  \/ \E k \in Calls : Send(k) \/ Serve(k) \/ Fail(k) \/ Disconnect(k)
  \/ Crash \/ Signal \/ Exit \/ Deadline \/ Start

Spec == Init /\ [][Next]_vars

\* The goroutine of a request is scheduled, database/sql hands connections to
\* waiters, Shutdown polls, and a client that is not settled tries again.
Fairness ==
  /\ \A k \in Calls : WF_vars(Serve(k)) /\ WF_vars(Send(k))
  /\ WF_vars(Exit)

FairSpec == Spec /\ Fairness
----------------------------------------------------------------------------
(***************************************************************************)
(* Properties.                                                             *)
(***************************************************************************)
Effects == [job : Jobs, version : Nat]

\* A missing result is not a result.
ASSUME NoneIsNoEffect == None \notin Effects

Digests == Seq(Keys \cup {None})

Events == [prev : Digests, digest : Digests]

Rows ==
  [version : [Jobs -> Nat],
   chain   : [Jobs -> Seq(Events)],
   result  : [Keys -> Effects \cup {None}]]

Finals == [kind : {"ok"}, effect : Effects] \cup [kind : {"refused"}]

Answers ==
  Finals \cup [kind : {"busy", "error"}]
         \cup [kind : {"view"}, version : Nat, events : Nat]

CallRows ==
  [phase  : {"idle", "sent", "begun", "looked", "checked", "writing", "answered"},
   kind   : {None, "view", "command"},
   snap   : Rows \cup {None},
   answer : Answers \cup {None}]

TypeOK ==
  /\ db \in Rows
  /\ calls \in [Calls -> CallRows]
  /\ writer \in Calls \cup {None}
  /\ seen \in [Clients -> Nat \cup {None}]
  /\ told \in [Clients -> SUBSET Finals]
  /\ process \in {"serving", "draining", "down", "refused"}
  /\ faults \in Nat

\* Answers to a client, heard or on their way.
AnswersTo(c) ==
  told[c] \cup {calls[k].answer : k \in {n \in Calls : /\ ClientOf[n] = c
                                                      /\ calls[n].phase = "answered"}}

KeptFor(c) == db.result[KeyOf[c]]

Alone(c) == \A d \in Clients : KeyOf[d] = KeyOf[c] => d = c

\* A command that was reported as done stays done, with the result that was
\* reported, through failures, crashes and restarts.
AckedIsDurable ==
  \A c \in Clients : \A answer \in AnswersTo(c) :
    answer.kind = "ok" => KeptFor(c) = answer.effect

\* A command that was refused has no effect, then or later: not through a
\* request that is still open, nor through one that is sent again.  So no
\* client hears both yes and no.  Not so for a key two clients use.
RefusalIsFinal ==
  \A c \in Clients : \A answer \in AnswersTo(c) :
    answer.kind = "refused" /\ Alone(c) => KeptFor(c) = None

\* A command takes effect on the version its client had read, or not at all,
\* although reading, checking and writing are far apart.
EffectOnSeenVersion ==
  \A c \in Clients :
    KeptFor(c) # None /\ Alone(c) =>
      /\ seen[c] # None
      /\ KeptFor(c) = [job |-> JobOf[c], version |-> seen[c] + 1]

\* What is committed passes the integrity check: the server starts again after
\* a crash or a stop at any point.
StartsAgain ==
  /\ process # "refused"
  /\ \A j \in Jobs : VerifyAudit(db.chain[j])

\* A page is made of one version of its job: what is read from one table fits
\* what was read from another before.
ViewIsOneVersion ==
  \A k \in Calls :
    calls[k].phase = "answered" /\ calls[k].kind = "view" =>
      calls[k].answer.version = calls[k].answer.events

\* The write lock is held by the request that writes and by nobody when none
\* does, and no more connections are out than the pool has: however a request
\* ends, by an answer, a failure, a client that goes or a process that does, its
\* lock and its connection come back, and never another's.
ResourcesComeBack ==
  /\ \A k \in Calls : writer = k <=> calls[k].phase = "writing"
  /\ Cardinality(Connected) <= PoolSize
  /\ ~Running => writer = None /\ Connected = {}

\* The committed rows go through the steps of the serial specification.
Ledger == INSTANCE SerialLedger WITH
  First <- 1, version <- db.version, result <- db.result

ImplementsLedger == Ledger!Spec

\* While the server stays up, every client that keeps trying is told in the end
\* whether its command was carried out: no request waits for ever for a
\* connection or the lock, and losing a race is not repeated for ever.
ClientsAreSettled ==
  <>[](process = "serving") => \A c \in Clients : <>(told[c] # {})

\* A server that is told to stop stops, without the deadline's help.
DrainEnds == process = "draining" ~> process = "down"
=============================================================================
