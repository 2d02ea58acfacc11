----------------------------- MODULE Workbench ------------------------------
(***************************************************************************)
(* The workbench page.  It keeps the job it shows and the rows it shows of *)
(* it, both from one answer of the server.  A click sends a command on the *)
(* job and version that are shown, under a key drawn for the click; when   *)
(* it has succeeded, the page loads again whichever job it shows by then.  *)
(*                                                                         *)
(* Nothing is disabled while a request is open, so a user may click twice, *)
(* and requests are carried out and answered in any order, or after the    *)
(* page has given them up.  Other clients change the same jobs.            *)
(*                                                                         *)
(* Of the server the page relies on what SerialLedger says, which          *)
(* CaptionWorkflow and SqliteStore are shown to implement.                 *)
(***************************************************************************)
EXTENDS Naturals

CONSTANTS
  None,
  Refused,   \* the answer to a command that was not carried out
  Created,   \* what is seen at a click that creates a job: no rows
  Jobs, Keys,
  Slots      \* bound: requests of the page that may be open at a time

ASSUME WorkbenchAssumption == None \notin Jobs /\ None # Refused /\ None # Created

VARIABLES
  version,   \* of each job on the server; 0 is a job not created yet
  result,    \* of each key on the server
  page,      \* state.job and the rows next to it, or None
  requests,  \* those the page has open
  clicked    \* keys the page has drawn: the rows the user saw at the click

server == <<version, result>>
vars   == <<version, result, page, requests, clicked>>

Server == INSTANCE SerialLedger WITH First <- 0

Init ==
  /\ Server!Init
  /\ page     = None
  /\ requests = [s \in Slots |-> None]
  /\ clicked  = [k \in Keys |-> None]
----------------------------------------------------------------------------
(***************************************************************************)
(* The page.                                                               *)
(***************************************************************************)
Load(j) == [kind |-> "load", job |-> j, answer |-> None, awaited |-> TRUE]

Command(j, expected, key) ==
  [kind |-> "command", job |-> j, expected |-> expected, key |-> key,
   answer |-> None, awaited |-> TRUE]

Open(s, request) ==
  /\ requests[s] = None
  /\ requests' = [requests EXCEPT ![s] = request]

Close(s) == requests' = [requests EXCEPT ![s] = None]

Answered(s, kind) ==
  /\ requests[s] # None
  /\ requests[s].kind = kind
  /\ requests[s].answer # None

\* A page that takes the job from the list and its rows when they come.
SelectFromList(s, j) ==
  /\ version[j] > 0
  /\ Open(s, Load(j))
  /\ page' = IF page = None THEN None
             ELSE [page EXCEPT !.job = [id |-> j, version |-> version[j]]]
  /\ UNCHANGED <<server, clicked>>

\* A job is clicked on in the list.
Select(s, j) ==
  /\ version[j] > 0
  /\ Open(s, Load(j))
  /\ UNCHANGED <<server, page, clicked>>

\* Whichever answer comes last is shown, the job with its rows.
Show(s) ==
  /\ Answered(s, "load") /\ requests[s].awaited
  /\ page' = [job |-> requests[s].answer, rows |-> requests[s].answer]
  /\ Close(s)
  /\ UNCHANGED <<server, clicked>>

FreshKey(k) == clicked[k] = None /\ result[k] = None

\* Submit, check, dispose, review or freeze.
Click(s, k) ==
  /\ page # None
  /\ FreshKey(k)
  /\ Open(s, Command(page.job.id, page.job.version, k))
  /\ clicked' = [clicked EXCEPT ![k] = page.rows]
  /\ UNCHANGED <<server, page>>

\* The form for a new job expects no version.
ClickCreate(s, k) ==
  /\ FreshKey(k)
  /\ Open(s, Command(None, 0, k))
  /\ clicked' = [clicked EXCEPT ![k] = Created]
  /\ UNCHANGED <<server, page>>

\* A command succeeded: the job that is shown now is loaded again, or the new
\* one for the first time.
Succeed(s) ==
  /\ Answered(s, "command") /\ requests[s].awaited
  /\ requests[s].answer # Refused
  /\ requests' = [requests EXCEPT ![s] =
       Load(IF requests[s].job = None THEN requests[s].answer.job ELSE page.job.id)]
  /\ UNCHANGED <<server, page, clicked>>

\* A command failed, and a message says so.
Report(s) ==
  /\ Answered(s, "command") /\ requests[s].awaited
  /\ requests[s].answer = Refused
  /\ Close(s)
  /\ UNCHANGED <<server, page, clicked>>

\* The connection fails: a message says so, and the user may click again while
\* the server still has the request.
GiveUp(s) ==
  /\ requests[s] # None /\ requests[s].awaited
  /\ requests' = [requests EXCEPT ![s].awaited = FALSE]
  /\ UNCHANGED <<server, page, clicked>>

\* A request nobody waits for is answered, or never arrived.
Forget(s) ==
  /\ requests[s] # None /\ ~requests[s].awaited
  /\ Close(s)
  /\ UNCHANGED <<server, page, clicked>>
----------------------------------------------------------------------------
(***************************************************************************)
(* The server.                                                             *)
(***************************************************************************)
Pending(s, kind) ==
  /\ requests[s] # None
  /\ requests[s].kind = kind
  /\ requests[s].answer = None

Answer(s, answer) == requests' = [requests EXCEPT ![s].answer = answer]

\* The detail of a job is read in one transaction.
Detail(s) ==
  LET j == requests[s].job IN
  /\ Pending(s, "load")
  /\ Answer(s, [id |-> j, version |-> version[j]])
  /\ UNCHANGED <<server, page, clicked>>

AnyVersion(j, expected) == version[j] > 0

ExpectVersion(j, expected) == version[j] > 0 /\ version[j] = expected

\* On an existing job, at the version the client expects; or a new job.
Execute(s) ==
  /\ Pending(s, "command")
  /\ \E j \in Jobs :
       /\ IF requests[s].job = None
          THEN version[j] = 0
          ELSE j = requests[s].job /\ ExpectVersion(j, requests[s].expected)
       /\ Server!Execute(j, requests[s].key)
       /\ Answer(s, [job |-> j, version |-> version[j] + 1])
  /\ UNCHANGED <<page, clicked>>

\* For its version, by the rules of the command, or because the store is busy.
Refuse(s) ==
  /\ Pending(s, "command")
  /\ Answer(s, Refused)
  /\ UNCHANGED <<server, page, clicked>>

\* Commands of other clients, under keys of their own.
OtherClient ==
  /\ \E j \in Jobs, k \in Keys : FreshKey(k) /\ Server!Execute(j, k)
  /\ UNCHANGED <<page, requests, clicked>>
----------------------------------------------------------------------------
User(s) ==
  \/ \E j \in Jobs : Select(s, j)
  \/ \E k \in Keys : Click(s, k) \/ ClickCreate(s, k)

Next ==
  \/ \E s \in Slots :
       \/ User(s)
       \/ Show(s) \/ Succeed(s) \/ Report(s) \/ GiveUp(s) \/ Forget(s)
       \/ Detail(s) \/ Execute(s) \/ Refuse(s)
  \/ OtherClient

Spec == Init /\ [][Next]_vars
----------------------------------------------------------------------------
(***************************************************************************)
(* Properties.                                                             *)
(***************************************************************************)
Rows == [id : Jobs, version : Nat]

Effects == [job : Jobs, version : Nat]

\* What stands for a missing row or answer is none.
ASSUME NoneIsNoAnswer ==
  \A missing \in {None, Refused, Created} :
    missing \notin Effects \cup Rows \cup [job : Rows, rows : Rows]

Requests ==
  [kind : {"load"}, job : Jobs, answer : Rows \cup {None}, awaited : BOOLEAN]
    \cup
  [kind : {"command"}, job : Jobs \cup {None}, expected : Nat, key : Keys,
   answer : Effects \cup {None, Refused}, awaited : BOOLEAN]

TypeOK ==
  /\ version \in [Jobs -> Nat]
  /\ result \in [Keys -> Effects \cup {None}]
  /\ page \in [job : Rows, rows : Rows] \cup {None}
  /\ requests \in [Slots -> Requests \cup {None}]
  /\ clicked \in [Keys -> Rows \cup {None, Created}]

\* A click has its effect on what the user saw at that moment, the job and the
\* version of it, or none: whatever was selected, answered late or changed by
\* others since.
EffectOnShown ==
  \A k \in Keys :
    result[k] # None /\ clicked[k] \notin {None, Created} =>
      result[k] = [job |-> clicked[k].id, version |-> clicked[k].version + 1]

\* Clicking again, on the same picture of a job, never does a thing twice,
\* although every click has a key of its own.
OneEffectPerPicture ==
  \A k, l \in Keys :
    /\ clicked[k] \notin {None, Created} /\ clicked[l] = clicked[k]
    /\ result[k] # None /\ result[l] # None
    => k = l
=============================================================================
