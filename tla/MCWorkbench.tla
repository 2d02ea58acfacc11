---------------------------- MODULE MCWorkbench -----------------------------
(***************************************************************************)
(* A small instance of Workbench for TLC.                                  *)
(***************************************************************************)
EXTENDS Workbench, TLC

Symmetry == Permutations(Jobs) \cup Permutations(Keys) \cup Permutations(Slots)
=============================================================================
