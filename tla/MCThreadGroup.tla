--------------------------- MODULE MCThreadGroup ---------------------------
(***************************************************************************)
(* Small instances of ThreadGroup.                                         *)
(***************************************************************************)
EXTENDS ThreadGroup, TLC

CONSTANTS m, w1, w2, w3
=============================================================================
