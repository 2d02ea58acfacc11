------------------------------ MODULE MCStore -------------------------------
(***************************************************************************)
(* A small instance of SqliteStore for TLC.                                *)
(***************************************************************************)
EXTENDS SqliteStore, TLC

CONSTANTS ann, ben, j1, x, y, a1, a2, b1

\* Ann and Ben want something of the same job, under keys of their own.
Wanted == ann :> j1 @@ ben :> j1
Sent   == ann :> x @@ ben :> y

\* Ann may have two requests open at a time.
Owner == a1 :> ann @@ a2 :> ann @@ b1 :> ben
=============================================================================
