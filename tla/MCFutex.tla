------------------------------ MODULE MCFutex ------------------------------
(***************************************************************************)
(* Small instances of Futex.                                               *)
(***************************************************************************)
EXTENDS Futex

CONSTANTS t1, t2

\* One wait on the slot that REQUEUE locks first may throw.
FaultOnFirst == [a \in Addrs |-> IF a = 1 THEN 1 ELSE 0]
=============================================================================
