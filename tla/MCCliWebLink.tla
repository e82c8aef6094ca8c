---------------------------- MODULE MCCliWebLink ----------------------------
(***************************************************************************)
(* Instances of CliWebLink for TLC.                                        *)
(***************************************************************************)
EXTENDS CliWebLink, TLC

\* Sound for the invariants: requests are interchangeable, and so are files.
Symmetry == Permutations(Requests) \cup Permutations(Files)
=============================================================================
