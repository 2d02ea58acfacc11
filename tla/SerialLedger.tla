---------------------------- MODULE SerialLedger ----------------------------
(***************************************************************************)
(* What every layer of the audit desk promises about commands: they take   *)
(* effect one at a time, each raises the version of one job by one, and    *)
(* its result is kept under a key that has no other effect, for good.      *)
(*                                                                         *)
(* CaptionWorkflow implements it with whole transactions as steps, and     *)
(* SqliteStore with connections, snapshots, locks and crashes.             *)
(***************************************************************************)
EXTENDS Naturals

CONSTANTS
  None,   \* no result
  Jobs,
  Keys,   \* what a repeated command is recognised by
  First   \* the version a job starts from

VARIABLES
  version,  \* of each job
  result    \* of each key: the job and the version its command made

vars == <<version, result>>

Init ==
  /\ version = [j \in Jobs |-> First]
  /\ result  = [k \in Keys |-> None]

Execute(j, k) ==
  /\ result[k] = None
  /\ version' = [version EXCEPT ![j] = version[j] + 1]
  /\ result' = [result EXCEPT ![k] = [job |-> j, version |-> version[j] + 1]]

Next == \E j \in Jobs, k \in Keys : Execute(j, k)

Spec == Init /\ [][Next]_vars
=============================================================================
