---------------------------- MODULE MCNativeHome ----------------------------
(***************************************************************************)
(* Small instances of NativeHome for TLC.                                  *)
(***************************************************************************)
EXTENDS NativeHome

CONSTANTS d1, d2, c1, c2, c3, f1, f2
=============================================================================
