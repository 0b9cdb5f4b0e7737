---------------------------- MODULE MCHostQueue ----------------------------
(***************************************************************************)
(* Small instances of HostQueue.                                           *)
(***************************************************************************)
EXTENDS HostQueue

CONSTANTS p1, p2, c1, c2
=============================================================================
