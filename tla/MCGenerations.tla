---------------------------- MODULE MCGenerations ----------------------------
(***************************************************************************)
(* Small instances of Generations: the main thread and one worker.         *)
(***************************************************************************)
EXTENDS Generations, TLC

CONSTANTS t1, t2
=============================================================================
