---------------------------- MODULE MCCliReceive ----------------------------
(***************************************************************************)
(* Instances of CliReceive for TLC.                                        *)
(***************************************************************************)
EXTENDS CliReceive, TLC

\* Sound for the invariants: sessions, senders and files are interchangeable,
\* but for the CHOOSE of an unused offer's sender.
Symmetry == Permutations(Sessions) \cup Permutations(Files)
=============================================================================
