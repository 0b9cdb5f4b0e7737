---------------------------- MODULE MCForkLocks ----------------------------
(***************************************************************************)
(* Small instances of ForkLocks: the comm table, a futex shard, the thread *)
(* list, the timers and guest memory, and the lock of a CPU's pending      *)
(* signals, which fork_guest does not take.                                *)
(***************************************************************************)
EXTENDS ForkLocks

TryOrder == <<"comm", "shard", "threads", "timers", "memory">>

ChildNeeds == <<"memory", "threads">>

AllLocks == {"comm", "shard", "threads", "timers", "memory", "pending"}

\* Nested against the fork's order, or alone.
Backwards == {<<"memory", "threads", "comm">>, <<"timers", "threads">>, <<"shard">>}

Alone == {<<"pending">>, <<"threads">>}
=============================================================================
