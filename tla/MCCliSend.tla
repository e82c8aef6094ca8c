----------------------------- MODULE MCCliSend -----------------------------
(***************************************************************************)
(* Instances of CliSend for TLC.                                           *)
(***************************************************************************)
EXTENDS CliSend, TLC

\* Sound for the invariants: tasks are interchangeable.
Symmetry == Permutations(Tasks)
=============================================================================
