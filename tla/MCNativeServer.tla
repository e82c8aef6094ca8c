--------------------------- MODULE MCNativeServer ---------------------------
(***************************************************************************)
(* Instances of NativeServer for TLC.                                      *)
(***************************************************************************)
EXTENDS NativeServer, TLC

\* Sound for the invariants: sessions and files are interchangeable.
Symmetry == Permutations(Sessions) \cup Permutations(Files)
=============================================================================
