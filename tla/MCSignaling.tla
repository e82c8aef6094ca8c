---------------------------- MODULE MCSignaling -----------------------------
(***************************************************************************)
(* Small instances of Signaling for TLC.                                   *)
(***************************************************************************)
EXTENDS Signaling, TLC

\* Connections are told apart only by what they do.
Symmetry == Permutations(Conns)
=============================================================================
