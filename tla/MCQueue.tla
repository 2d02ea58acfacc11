------------------------------ MODULE MCQueue -------------------------------
(***************************************************************************)
(* Small instances of WorkQueue for TLC.                                   *)
(***************************************************************************)
EXTENDS WorkQueue

AllJobs  == [status |-> None, profile |-> None]
ToRemedy == [status |-> "remediating", profile |-> "P1"]

SomeFilters == {AllJobs, ToRemedy}
=============================================================================
