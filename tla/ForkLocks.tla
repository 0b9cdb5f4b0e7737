----------------------------- MODULE ForkLocks -----------------------------
(***************************************************************************)
(* The locks of Emulator::fork_guest (System/Core/Threads.cpp).  The child *)
(* of a host fork is a copy in which only the forking thread exists: a     *)
(* lock another thread held stays locked there for good.  fork_guest tries *)
(* its locks in order and lets go of all of them when one is taken; after  *)
(* three seconds it takes the first ones, waits for them, and forks        *)
(* without the rest.                                                       *)
(*                                                                         *)
(* Other threads take locks in nests of any order; what the locks guard is *)
(* left out.  The debugger's lock, which holds its service still across    *)
(* the fork, and the exclusive monitor (ExclusiveMonitor) are too.         *)
(***************************************************************************)
EXTENDS Integers, Sequences, FiniteSets

CONSTANTS Others, Forker, Free,
          Locks,        \* every lock the child or its guest code uses
          Order,        \* those try_all takes, in its order
          Always,       \* how many of these the fallback takes: comm_mu_ and the futex shards
          Fresh,        \* locks the child makes anew: the timers'
          Kept,         \* locks it holds until it has emptied what they guard: the thread lists'
          Needs,        \* locks it takes before it returns to the guest
          Nests,        \* sequences of locks other threads take
          Deadline      \* whether three seconds may pass

ASSUME LockAssumption ==
    /\ Forker \notin Others /\ Free \notin Others \cup {Forker}
    /\ Order \in Seq(Locks) /\ Needs \in Seq(Locks) /\ Nests \subseteq Seq(Locks)
    /\ Always \in 0 .. Len(Order)
    /\ Fresh \subseteq Locks /\ Kept \subseteq Locks
    /\ \A l \in Kept : \E k \in DOMAIN Needs : Needs[k] = l
    /\ Deadline \in BOOLEAN

VARIABLES
    holder,      \* who holds a lock
    nest, depth, \* the locks a thread is taking, and how many it has
    pc, i,       \* fork_guest, and the next lock of its loop
    late,        \* the deadline has passed
    fell         \* the fallback was taken

lockvars == <<holder, nest, depth, pc, i, late, fell>>

Taken == {Order[k] : k \in DOMAIN Order}

Child == pc \in {"settle", "need", "child"}

LockInit ==
    /\ holder = [l \in Locks |-> Free]
    /\ nest = [o \in Others |-> <<>>] /\ depth = [o \in Others |-> 0]
    /\ pc = "run" /\ i = 0 /\ late = FALSE /\ fell = FALSE

-----------------------------------------------------------------------------
(* The other threads: none of them exists in the child.                    *)

Begin(o, n) ==
    /\ ~Child /\ nest[o] = <<>>
    /\ nest' = [nest EXCEPT ![o] = n]
    /\ UNCHANGED <<holder, depth, pc, i, late, fell>>

Acquire(o) ==
    /\ ~Child /\ depth[o] < Len(nest[o])
    /\ holder[nest[o][depth[o] + 1]] = Free
    /\ holder' = [holder EXCEPT ![nest[o][depth[o] + 1]] = o]
    /\ depth' = [depth EXCEPT ![o] = @ + 1]
    /\ UNCHANGED <<nest, pc, i, late, fell>>

Drop(who) == [l \in Locks |-> IF holder[l] = who THEN Free ELSE holder[l]]

Unnest(o) ==
    /\ ~Child /\ nest[o] # <<>> /\ depth[o] = Len(nest[o])
    /\ holder' = Drop(o)
    /\ nest' = [nest EXCEPT ![o] = <<>>] /\ depth' = [depth EXCEPT ![o] = 0]
    /\ UNCHANGED <<pc, i, late, fell>>

-----------------------------------------------------------------------------
(* fork_guest.                                                             *)

Call ==
    /\ pc = "run"
    /\ pc' = "try" /\ i' = 0 /\ late' = FALSE /\ fell' = FALSE
    /\ UNCHANGED <<holder, nest, depth>>

Late ==
    /\ Deadline /\ pc \in {"try", "pause"} /\ ~late
    /\ late' = TRUE
    /\ UNCHANGED <<holder, nest, depth, pc, i, fell>>

Hold(l) == holder[l] = Free /\ holder' = [holder EXCEPT ![l] = Forker]

TryNext ==
    /\ pc = "try" /\ i < Len(Order)
    /\ Hold(Order[i + 1]) /\ i' = i + 1
    /\ UNCHANGED <<nest, depth, pc, late, fell>>

\* Mistaken variants: try_all keeps what it has, or passes over a lock that
\* is taken.
TryFailsKeeps ==
    /\ pc = "try" /\ i < Len(Order) /\ holder[Order[i + 1]] # Free
    /\ pc' = "pause" /\ UNCHANGED <<holder, nest, depth, i, late, fell>>

TryFailsSkips ==
    /\ pc = "try" /\ i < Len(Order) /\ holder[Order[i + 1]] # Free
    /\ i' = i + 1 /\ UNCHANGED <<holder, nest, depth, pc, late, fell>>

\* release_all.
TryFails ==
    /\ pc = "try" /\ i < Len(Order) /\ holder[Order[i + 1]] # Free
    /\ holder' = Drop(Forker) /\ pc' = "pause"
    /\ UNCHANGED <<nest, depth, i, late, fell>>

\* A mistaken variant: the deadline is not looked at.
RetryAlways ==
    /\ pc = "pause"
    /\ pc' = "try" /\ i' = 0
    /\ UNCHANGED <<holder, nest, depth, late, fell>>

Retry ==
    /\ pc = "pause" /\ ~late
    /\ pc' = "try" /\ i' = 0
    /\ UNCHANGED <<holder, nest, depth, late, fell>>

GiveUp ==
    /\ pc = "pause" /\ late
    /\ pc' = "fallback" /\ i' = 0 /\ fell' = TRUE
    /\ UNCHANGED <<holder, nest, depth, late>>

FallbackNext ==
    /\ pc = "fallback" /\ i < Always
    /\ Hold(Order[i + 1]) /\ i' = i + 1
    /\ UNCHANGED <<nest, depth, pc, late, fell>>

Quiesced ==
    \/ pc = "try" /\ i = Len(Order)
    \/ pc = "fallback" /\ i = Always

\* The parent, or a fork that failed: every lock is released.
ForkParent ==
    /\ Quiesced
    /\ pc' = "run" /\ holder' = Drop(Forker)
    /\ UNCHANGED <<nest, depth, i, late, fell>>

ForkChild ==
    /\ Quiesced
    /\ pc' = "settle"
    /\ UNCHANGED <<holder, nest, depth, i, late, fell>>

\* The child lets go of what it owns, except the thread lists, and makes
\* the timers' lock anew.
Settle ==
    /\ pc = "settle"
    /\ holder' = [l \in Locks |->
                    IF l \in Fresh \/ (holder[l] = Forker /\ l \notin Kept) THEN Free ELSE holder[l]]
    /\ pc' = "need" /\ i' = 0
    /\ UNCHANGED <<nest, depth, late, fell>>

\* The locks the child takes itself; it waits for ever for a thread that
\* does not exist.
Need ==
    /\ pc = "need" /\ i < Len(Needs)
    /\ holder[Needs[i + 1]] \in {Free, Forker}
    /\ holder' = [holder EXCEPT ![Needs[i + 1]] = Free] /\ i' = i + 1
    /\ UNCHANGED <<nest, depth, pc, late, fell>>

Returns ==
    /\ pc = "need" /\ i = Len(Needs)
    /\ pc' = "child"
    /\ UNCHANGED <<holder, nest, depth, i, late, fell>>

-----------------------------------------------------------------------------
Fork == \/ Call \/ Late \/ TryNext \/ TryFails \/ Retry \/ GiveUp \/ FallbackNext
        \/ ForkParent \/ ForkChild \/ Settle \/ Need \/ Returns

LockNext ==
    \/ Fork
    \/ \E o \in Others : Acquire(o) \/ Unnest(o) \/ \E n \in Nests : Begin(o, n)

LockSpec == LockInit /\ [][LockNext]_lockvars

\* Threads are scheduled, the clock runs, and a lock that is free again and
\* again is granted at last.
LockFairSpec ==
    /\ LockSpec
    /\ WF_lockvars(Late)
    /\ WF_lockvars(TryNext \/ TryFails \/ Retry \/ GiveUp \/ ForkParent \/ ForkChild
                 \/ Settle \/ Need \/ Returns)
    /\ SF_lockvars(FallbackNext)
    /\ \A o \in Others : SF_lockvars(Acquire(o)) /\ WF_lockvars(Unnest(o))

-----------------------------------------------------------------------------
\* Types of the lock table and the loops.
LockTypeOK ==
    /\ holder \in [Locks -> Others \cup {Forker, Free}]
    /\ nest \in [Others -> Seq(Locks)] /\ depth \in [Others -> Nat]
    /\ pc \in {"run", "try", "pause", "fallback", "settle", "need", "child"}
    /\ i \in 0 .. (CASE pc = "fallback" -> Always
                     [] pc = "need" -> Len(Needs)
                     [] OTHER -> Len(Order) + Len(Needs))
    /\ late \in BOOLEAN /\ fell \in BOOLEAN

\* A child forked with its locks inherits none of them from a thread that
\* does not exist, and none of them stays locked when it returns to the
\* guest, whatever the other threads were doing (fork_guest).
Clean ==
    /\ Child /\ ~fell => \A l \in Taken : holder[l] \in {Free, Forker}
    /\ pc = "child" /\ ~fell => \A l \in Taken : holder[l] = Free

\* Whichever way the fork went, fork_guest leaves no lock held behind, in
\* the parent or in the child.
LetsGo == pc \in {"run", "child", "pause"} => \A l \in Locks : holder[l] # Forker

\* The fork takes place: the other threads' locks delay it by three seconds
\* and the critical sections of the locks it waits for.
ForkHappens == pc = "try" ~> (pc = "run" \/ Child)

\* "threads that nest them in a different order cannot deadlock with the
\* fork": another thread's nest ends, unless the child goes on without it.
NestsEnd == \A o \in Others : nest[o] # <<>> ~> (nest[o] = <<>> \/ Child)

-----------------------------------------------------------------------------
\* "Take every lock the child, or the guest code it runs, uses at once":
\* a child forked with its locks can take any lock its guest code needs.
ChildUsable == pc = "child" /\ ~fell => \A l \in Locks : holder[l] = Free
=============================================================================
