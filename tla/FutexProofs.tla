---------------------------- MODULE FutexProofs ----------------------------
(***************************************************************************)
(* Theorems about Futex, for every set of threads, words and values.       *)
(*                                                                         *)
(* NoSleeperMissed and NoSignalMissed are not inductive by themselves.  A  *)
(* WAKE skips its notification when the slot counts no waiter, so the      *)
(* first needs CountsAccounted, by which the count is never too low; it    *)
(* also needs MutexOK, because a thread that has rechecked the word but is *)
(* not asleep yet is protected only by the slot mutex, and StopOK, because *)
(* a thread stopped between its store and its WAKE never makes the WAKE.   *)
(* The second needs PublishedOK: the sender reads the address the sleeper  *)
(* has published.  FutexInv is the conjunction; there is one lemma for     *)
(* each action, with one step for each conjunct.                           *)
(***************************************************************************)
EXTENDS Futex, FiniteSetTheorems, TLAPS

(***************************************************************************)
(* Slots                                                                   *)
(***************************************************************************)
\* Sleepers and counted threads form finite sets no larger than Threads.
LEMMA CountedFinite ==
  ASSUME NEW a \in Addrs
  PROVE  /\ IsFiniteSet(Counted(a))
         /\ Cardinality(Counted(a)) \in Nat
         /\ Cardinality(Counted(a)) <= Cardinality(Threads)
         /\ Cardinality(Threads) \in Nat
         /\ IsFiniteSet(Sleepers(a))
         /\ Sleepers(a) \subseteq Counted(a)
<1>1. Counted(a) \subseteq Threads /\ Sleepers(a) \subseteq Counted(a)
  BY DEF Counted, Sleepers
<1>2. IsFiniteSet(Counted(a)) /\ IsFiniteSet(Sleepers(a))
  BY <1>1, ThreadsFinite, FS_Subset
<1>3. Cardinality(Counted(a)) <= Cardinality(Threads)
  BY <1>1, ThreadsFinite, FS_Subset
<1> QED
  BY <1>1, <1>2, <1>3, ThreadsFinite, FS_CardinalityType

\* Threads that are counted before and after a step leave the count right.
LEMMA SameCount ==
  ASSUME CountsAccounted, UNCHANGED countVars, \A a \in Addrs : Counted(a)' = Counted(a)
  PROVE  CountsAccounted'
BY DEF CountsAccounted, countVars

\* A slot that counts nobody has no sleepers: skipping its notification is safe.
LEMMA NoneCounted ==
  ASSUME TypeOK, CountsAccounted, NEW a \in Addrs, waiters[a] = 0
  PROVE  Sleepers(a) = {}
<1>1. leaked[a] \in Nat /\ Cardinality(Counted(a)) \in Nat
  BY CountedFinite DEF TypeOK
<1>2. Cardinality(Counted(a)) + leaked[a] = 0
  BY DEF CountsAccounted
<1>3. Cardinality(Counted(a)) = 0
  BY <1>1, <1>2
<1>4. Counted(a) = {}
  BY <1>3, CountedFinite, FS_EmptySet
<1> QED
  BY <1>4, CountedFinite

\* Whatever a WAKE or a REQUEUE notifies was asleep on its slot.
LEMMA ChosenAsleep ==
  ASSUME NEW a \in Addrs, NEW n \in Counts, NEW S \in Chosen(a, n)
  PROVE  S \subseteq Sleepers(a)
BY DEF Chosen

(***************************************************************************)
(* FUTEX_WAIT                                                              *)
(***************************************************************************)
\* FUTEX_WAIT starts: the word is right and somebody could wake it.
LEMMA WaitLoadStep ==
  ASSUME FutexInv, NEW t \in Threads, NEW a \in Addrs, NEW v \in Vals, WaitLoad(t, a, v)
  PROVE  FutexInv'
<1> USE AddrsPositive, ValsNatural, NobodyIsNoThread, MainIsThread
    DEF FutexInv, WaitLoad, vars, slotVars, countVars, callVars, signalVars, groupVars, Goto, Return,
        Notify, Idle, Interrupted
<1>1. TypeOK'
  BY DEF TypeOK, Pcs, WaitPcs, Counts, NoAddr, NoVal
<1>2. ArgsOK'
  BY DEF TypeOK, ArgsOK, WithAddr, WaitPcs, NoAddr
<1>3. MutexOK'
  BY DEF TypeOK, ArgsOK, WithAddr, WaitPcs, MutexOK, Holds, FirstLock, TwoSlots, NoAddr
<1>4. PublishedOK'
  BY DEF TypeOK, PublishedOK, ArgsOK, WithAddr, WaitPcs, NoAddr
<1>5. StopOK'
  BY DEF TypeOK, StopOK, Gone
<1>6. CountsAccounted'
  BY DEF TypeOK, CountsAccounted, Counted, ArgsOK, WithAddr, WaitPcs
<1>7. NoSleeperMissed'
  BY DEF TypeOK, NoSleeperMissed, WakeOwed, StopOK, Gone, ArgsOK, WithAddr, WaitPcs,
      MutexOK, Holds
<1>8. NoSignalMissed'
  BY DEF TypeOK, NoSignalMissed, KickOwed, PublishedOK, ArgsOK, WithAddr, WaitPcs, MutexOK,
      Holds, NoAddr
<1> QED
  BY <1>1, <1>2, <1>3, <1>4, <1>5, <1>6, <1>7, <1>8

\* The waiter takes the slot mutex.
LEMMA WaitLockStep ==
  ASSUME FutexInv, NEW t \in Threads, WaitLock(t)
  PROVE  FutexInv'
<1> USE AddrsPositive, ValsNatural, NobodyIsNoThread, MainIsThread
    DEF FutexInv, WaitLock, vars, slotVars, countVars, callVars, signalVars, groupVars, Goto, Return,
        Notify, Idle, Interrupted
<1>1. TypeOK'
  BY DEF TypeOK, Pcs, WaitPcs, Counts, NoAddr, NoVal
<1>2. ArgsOK'
  BY DEF TypeOK, ArgsOK, WithAddr, WaitPcs, NoAddr
<1>3. MutexOK'
  BY DEF TypeOK, ArgsOK, WithAddr, WaitPcs, MutexOK, Holds, FirstLock, TwoSlots, NoAddr
<1>4. PublishedOK'
  BY DEF TypeOK, PublishedOK, ArgsOK, WithAddr, WaitPcs, NoAddr
<1>5. StopOK'
  BY DEF TypeOK, StopOK, Gone
<1>6. CountsAccounted'
  BY DEF TypeOK, CountsAccounted, Counted, ArgsOK, WithAddr, WaitPcs
<1>7. NoSleeperMissed'
  BY DEF TypeOK, NoSleeperMissed, WakeOwed, StopOK, Gone, ArgsOK, WithAddr, WaitPcs,
      MutexOK, Holds
<1>8. NoSignalMissed'
  BY DEF TypeOK, NoSignalMissed, KickOwed, PublishedOK, ArgsOK, WithAddr, WaitPcs, MutexOK,
      Holds, NoAddr
<1> QED
  BY <1>1, <1>2, <1>3, <1>4, <1>5, <1>6, <1>7, <1>8

\* The waiter loads the word again, or gives up.
LEMMA WaitRecheckStep ==
  ASSUME FutexInv, NEW t \in Threads, WaitRecheck(t)
  PROVE  FutexInv'
<1> USE AddrsPositive, ValsNatural, NobodyIsNoThread, MainIsThread
    DEF FutexInv, WaitRecheck, vars, slotVars, countVars, callVars, signalVars, groupVars, Goto,
        Return, Notify, Idle, Interrupted
<1>1. TypeOK'
  <2>1. mu' \in [Addrs -> Threads \cup {Nobody}]
    BY DEF TypeOK
  <2>2. waitaddr' \in [Threads -> Addrs \cup {NoAddr}]
    BY DEF TypeOK
  <2>3. at' \in [Threads -> Pcs]
    BY DEF TypeOK, Pcs, WaitPcs
  <2>4. /\ uaddr' \in [Threads -> Addrs \cup {NoAddr}]
        /\ uaddr2' \in [Threads -> Addrs \cup {NoAddr}]
        /\ val' \in [Threads -> Vals \cup {NoVal}]
        /\ peer' \in [Threads -> Threads]
    <3>1. CASE Return(t)
      BY <3>1 DEF TypeOK
    <3>2. CASE UNCHANGED callVars
      BY <3>2 DEF TypeOK
    <3> QED
      BY <3>1, <3>2
  <2>5. todo' = todo
    OBVIOUS
  <2> QED
    BY <2>1, <2>2, <2>3, <2>4, <2>5 DEF TypeOK
<1>2. ArgsOK'
  BY DEF TypeOK, ArgsOK, WithAddr, WaitPcs, NoAddr
<1>3. MutexOK'
  BY DEF TypeOK, ArgsOK, WithAddr, WaitPcs, MutexOK, Holds, FirstLock, TwoSlots, NoAddr
<1>4. PublishedOK'
  BY DEF TypeOK, PublishedOK, ArgsOK, WithAddr, WaitPcs, NoAddr
<1>5. StopOK'
  BY DEF TypeOK, StopOK, Gone
<1>6. CountsAccounted'
  BY DEF TypeOK, CountsAccounted, Counted, ArgsOK, WithAddr, WaitPcs
<1>7. NoSleeperMissed'
  <2>1. SUFFICES ASSUME NEW u \in Threads, ~leaving, word[uaddr'[u]] # val'[u],
                        at'[u] \in {"publish", "check", "enqueue", "asleep"}
                 PROVE  WakeOwed(uaddr[u])'
    BY DEF NoSleeperMissed
  <2>2. u # t /\ at[u] = at'[u] /\ uaddr'[u] = uaddr[u] /\ val'[u] = val[u]
    BY <2>1 DEF TypeOK
  <2>3. PICK s \in Threads : at[s] \in {"stored", "exitnotify"} /\ uaddr[s] = uaddr[u]
    BY <2>1, <2>2 DEF NoSleeperMissed, WakeOwed
  <2>4. s # t
    BY <2>3
  <2> QED
    BY <2>2, <2>3, <2>4 DEF WakeOwed, TypeOK
<1>8. NoSignalMissed'
  BY DEF TypeOK, NoSignalMissed, KickOwed, PublishedOK, ArgsOK, WithAddr, WaitPcs, MutexOK,
      Holds, NoAddr
<1> QED
  BY <1>1, <1>2, <1>3, <1>4, <1>5, <1>6, <1>7, <1>8

\* The waiter publishes its address.
LEMMA WaitPublishStep ==
  ASSUME FutexInv, NEW t \in Threads, WaitPublish(t)
  PROVE  FutexInv'
<1> USE AddrsPositive, ValsNatural, NobodyIsNoThread, MainIsThread
    DEF FutexInv, WaitPublish, vars, slotVars, countVars, callVars, signalVars, groupVars, Goto,
        Return, Notify, Idle, Interrupted
<1>1. TypeOK'
  BY DEF TypeOK, Pcs, WaitPcs, Counts, NoAddr, NoVal
<1>2. ArgsOK'
  BY DEF TypeOK, ArgsOK, WithAddr, WaitPcs, NoAddr
<1>3. MutexOK'
  BY DEF TypeOK, ArgsOK, WithAddr, WaitPcs, MutexOK, Holds, FirstLock, TwoSlots, NoAddr
<1>4. PublishedOK'
  BY DEF TypeOK, PublishedOK, ArgsOK, WithAddr, WaitPcs, NoAddr
<1>5. StopOK'
  BY DEF TypeOK, StopOK, Gone
<1>6. CountsAccounted'
  BY DEF TypeOK, CountsAccounted, Counted, ArgsOK, WithAddr, WaitPcs
<1>7. NoSleeperMissed'
  BY DEF TypeOK, NoSleeperMissed, WakeOwed, StopOK, Gone, ArgsOK, WithAddr, WaitPcs,
      MutexOK, Holds
<1>8. NoSignalMissed'
  BY DEF TypeOK, NoSignalMissed, KickOwed, PublishedOK, ArgsOK, WithAddr, WaitPcs, MutexOK,
      Holds, NoAddr
<1> QED
  BY <1>1, <1>2, <1>3, <1>4, <1>5, <1>6, <1>7, <1>8

\* The waiter looks for a signal before it sleeps.
LEMMA WaitCheckStep ==
  ASSUME FutexInv, NEW t \in Threads, WaitCheck(t)
  PROVE  FutexInv'
<1> USE AddrsPositive, ValsNatural, NobodyIsNoThread, MainIsThread
    DEF FutexInv, WaitCheck, vars, slotVars, countVars, callVars, signalVars, groupVars, Goto, Return,
        Notify, Idle, Interrupted
<1>1. TypeOK'
  <2>1. mu' \in [Addrs -> Threads \cup {Nobody}]
    BY DEF TypeOK
  <2>2. waitaddr' \in [Threads -> Addrs \cup {NoAddr}]
    BY DEF TypeOK
  <2>3. at' \in [Threads -> Pcs]
    BY DEF TypeOK, Pcs, WaitPcs
  <2>4. /\ uaddr' \in [Threads -> Addrs \cup {NoAddr}]
        /\ uaddr2' \in [Threads -> Addrs \cup {NoAddr}]
        /\ val' \in [Threads -> Vals \cup {NoVal}]
        /\ peer' \in [Threads -> Threads]
    <3>1. CASE Return(t)
      BY <3>1 DEF TypeOK
    <3>2. CASE UNCHANGED callVars
      BY <3>2 DEF TypeOK
    <3> QED
      BY <3>1, <3>2
  <2>5. todo' = todo
    OBVIOUS
  <2> QED
    BY <2>1, <2>2, <2>3, <2>4, <2>5 DEF TypeOK
<1>2. ArgsOK'
  BY DEF TypeOK, ArgsOK, WithAddr, WaitPcs, NoAddr
<1>3. MutexOK'
  BY DEF TypeOK, ArgsOK, WithAddr, WaitPcs, MutexOK, Holds, FirstLock, TwoSlots, NoAddr
<1>4. PublishedOK'
  BY DEF TypeOK, PublishedOK, ArgsOK, WithAddr, WaitPcs, NoAddr
<1>5. StopOK'
  BY DEF TypeOK, StopOK, Gone
<1>6. CountsAccounted'
  BY DEF TypeOK, CountsAccounted, Counted, ArgsOK, WithAddr, WaitPcs
<1>7. NoSleeperMissed'
  <2>1. SUFFICES ASSUME NEW u \in Threads, at'[u] \in {"publish", "check", "enqueue", "asleep"},
                        word'[uaddr'[u]] # val'[u], ~leaving'
                 PROVE  WakeOwed(uaddr[u])'
    BY DEF NoSleeperMissed
  <2>2. /\ at[u] \in {"publish", "check", "enqueue", "asleep"}
        /\ uaddr'[u] = uaddr[u] /\ val'[u] = val[u]
    BY <2>1 DEF TypeOK
  <2>3. WakeOwed(uaddr[u])
    BY <2>1, <2>2 DEF NoSleeperMissed
  <2>4. PICK s \in Threads : at[s] \in {"stored", "exitnotify"} /\ uaddr[s] = uaddr[u]
    BY <2>3 DEF WakeOwed
  <2>5. at'[s] = at[s] /\ uaddr'[s] = uaddr[s]
    BY <2>1, <2>4 DEF TypeOK
  <2> QED
    BY <2>2, <2>4, <2>5 DEF WakeOwed
<1>8. NoSignalMissed'
  BY DEF TypeOK, NoSignalMissed, KickOwed, PublishedOK, ArgsOK, WithAddr, WaitPcs, MutexOK,
      Holds, NoAddr
<1> QED
  BY <1>1, <1>2, <1>3, <1>4, <1>5, <1>6, <1>7, <1>8

\* The waiter is counted and falls asleep.
LEMMA WaitSleepStep ==
  ASSUME FutexInv, NEW t \in Threads, WaitSleep(t)
  PROVE  FutexInv'
<1> USE AddrsPositive, ValsNatural, NobodyIsNoThread, MainIsThread
    DEF FutexInv, WaitSleep, vars, slotVars, countVars, callVars, signalVars, groupVars, Goto, Return,
        Notify, Idle, Interrupted
<1>1. TypeOK'
  <2>1. uaddr[t] \in Addrs
    BY DEF ArgsOK, WithAddr, WaitPcs
  <2>2. waiters' \in [Addrs -> Int]
    <3>1. waiters \in [Addrs -> Int] /\ waiters[uaddr[t]] \in Int
      BY <2>1 DEF TypeOK
    <3> QED
      BY <2>1, <3>1
  <2> QED
    BY <2>1, <2>2 DEF TypeOK, Pcs, WaitPcs, NoAddr, NoVal
<1>2. ArgsOK'
  BY DEF TypeOK, ArgsOK, WithAddr, WaitPcs, NoAddr
<1>3. MutexOK'
  BY DEF TypeOK, ArgsOK, WithAddr, WaitPcs, MutexOK, Holds, FirstLock, TwoSlots, NoAddr
<1>4. PublishedOK'
  BY DEF TypeOK, PublishedOK, ArgsOK, WithAddr, WaitPcs, NoAddr
<1>5. StopOK'
  BY DEF TypeOK, StopOK, Gone
<1>6. CountsAccounted'
  <2>1. uaddr[t] \in Addrs /\ t \notin Counted(uaddr[t])
    BY DEF ArgsOK, WithAddr, WaitPcs, Counted
  <2>2. Counted(uaddr[t])' = Counted(uaddr[t]) \cup {t}
    BY <2>1 DEF TypeOK, Counted
  <2>3. Cardinality(Counted(uaddr[t])') = Cardinality(Counted(uaddr[t])) + 1
    BY <2>1, <2>2, CountedFinite, FS_AddElement
  <2>4. ASSUME NEW c \in Addrs, c # uaddr[t] PROVE Counted(c)' = Counted(c)
    BY <2>4 DEF TypeOK, Counted
  <2>5. ASSUME NEW c \in Addrs PROVE waiters'[c] = Cardinality(Counted(c)') + leaked'[c]
    <3>1. /\ waiters[c] = Cardinality(Counted(c)) + leaked[c]
          /\ waiters[c] \in Int /\ leaked[c] \in Nat /\ Cardinality(Counted(c)) \in Nat
      BY CountedFinite DEF TypeOK, CountsAccounted
    <3> QED
      BY <2>1, <2>3, <2>4, <3>1 DEF TypeOK
  <2> QED
    BY <2>5 DEF CountsAccounted
<1>7. NoSleeperMissed'
  BY DEF TypeOK, NoSleeperMissed, WakeOwed, StopOK, Gone, ArgsOK, WithAddr, WaitPcs,
      MutexOK, Holds
<1>8. NoSignalMissed'
  BY DEF TypeOK, NoSignalMissed, KickOwed, PublishedOK, ArgsOK, WithAddr, WaitPcs, MutexOK,
      Holds, NoAddr
<1> QED
  BY <1>1, <1>2, <1>3, <1>4, <1>5, <1>6, <1>7, <1>8

\* The timeout could not be loaded: the slot counts a wait that is over.
LEMMA WaitFaultStep ==
  ASSUME FutexInv, NEW t \in Threads, WaitFault(t)
  PROVE  FutexInv'
<1> USE AddrsPositive, ValsNatural, NobodyIsNoThread, MainIsThread
    DEF FutexInv, WaitFault, vars, slotVars, countVars, callVars, signalVars, groupVars, Goto,
        Return, Notify, Idle, Interrupted
<1>1. TypeOK'
  <2>1. uaddr[t] \in Addrs
    BY DEF ArgsOK, WithAddr, WaitPcs
  <2>2. waiters' \in [Addrs -> Int] /\ leaked' \in [Addrs -> Nat]
    <3>1. /\ waiters \in [Addrs -> Int] /\ waiters[uaddr[t]] \in Int
          /\ leaked \in [Addrs -> Nat] /\ leaked[uaddr[t]] \in Nat
      BY <2>1 DEF TypeOK
    <3> QED
      BY <2>1, <3>1
  <2> QED
    BY <2>1, <2>2 DEF TypeOK, Pcs, WaitPcs, NoAddr, NoVal
<1>2. ArgsOK'
  BY DEF TypeOK, ArgsOK, WithAddr, WaitPcs, NoAddr
<1>3. MutexOK'
  BY DEF TypeOK, ArgsOK, WithAddr, WaitPcs, MutexOK, Holds, FirstLock, TwoSlots, NoAddr
<1>4. PublishedOK'
  BY DEF TypeOK, PublishedOK, ArgsOK, WithAddr, WaitPcs, NoAddr
<1>5. StopOK'
  BY DEF TypeOK, StopOK, Gone
<1>6. CountsAccounted'
  <2>1. uaddr[t] \in Addrs
    BY DEF ArgsOK, WithAddr, WaitPcs
  <2>2. ASSUME NEW c \in Addrs PROVE Counted(c)' = Counted(c)
    BY DEF TypeOK, Counted
  <2>3. ASSUME NEW c \in Addrs PROVE waiters'[c] = Cardinality(Counted(c)') + leaked'[c]
    <3>1. /\ waiters[c] = Cardinality(Counted(c)) + leaked[c]
          /\ waiters[c] \in Int /\ leaked[c] \in Nat /\ Cardinality(Counted(c)) \in Nat
      BY CountedFinite DEF TypeOK, CountsAccounted
    <3> QED
      BY <2>1, <2>2, <3>1 DEF TypeOK
  <2> QED
    BY <2>3 DEF CountsAccounted
<1>7. NoSleeperMissed'
  BY DEF TypeOK, NoSleeperMissed, WakeOwed, StopOK, Gone, ArgsOK, WithAddr, WaitPcs,
      MutexOK, Holds
<1>8. NoSignalMissed'
  BY DEF TypeOK, NoSignalMissed, KickOwed, PublishedOK, ArgsOK, WithAddr, WaitPcs, MutexOK,
      Holds, NoAddr
<1> QED
  BY <1>1, <1>2, <1>3, <1>4, <1>5, <1>6, <1>7, <1>8

\* The deadline had already passed.
LEMMA WaitExpiredStep ==
  ASSUME FutexInv, NEW t \in Threads, WaitExpired(t)
  PROVE  FutexInv'
<1> USE AddrsPositive, ValsNatural, NobodyIsNoThread, MainIsThread
    DEF FutexInv, WaitExpired, vars, slotVars, countVars, callVars, signalVars, groupVars, Goto,
        Return, Notify, Idle, Interrupted
<1>1. TypeOK'
  BY DEF TypeOK, Pcs, WaitPcs, Counts, NoAddr, NoVal
<1>2. ArgsOK'
  BY DEF TypeOK, ArgsOK, WithAddr, WaitPcs, NoAddr
<1>3. MutexOK'
  BY DEF TypeOK, ArgsOK, WithAddr, WaitPcs, MutexOK, Holds, FirstLock, TwoSlots, NoAddr
<1>4. PublishedOK'
  BY DEF TypeOK, PublishedOK, ArgsOK, WithAddr, WaitPcs, NoAddr
<1>5. StopOK'
  BY DEF TypeOK, StopOK, Gone
<1>6. CountsAccounted'
  BY DEF TypeOK, CountsAccounted, Counted, ArgsOK, WithAddr, WaitPcs
<1>7. NoSleeperMissed'
  BY DEF TypeOK, NoSleeperMissed, WakeOwed, StopOK, Gone, ArgsOK, WithAddr, WaitPcs,
      MutexOK, Holds
<1>8. NoSignalMissed'
  BY DEF TypeOK, NoSignalMissed, KickOwed, PublishedOK, ArgsOK, WithAddr, WaitPcs, MutexOK,
      Holds, NoAddr
<1> QED
  BY <1>1, <1>2, <1>3, <1>4, <1>5, <1>6, <1>7, <1>8

\* The deadline passes during the sleep.
LEMMA TimeoutStep ==
  ASSUME FutexInv, NEW t \in Threads, Timeout(t)
  PROVE  FutexInv'
<1> USE AddrsPositive, ValsNatural, NobodyIsNoThread, MainIsThread
    DEF FutexInv, Timeout, vars, slotVars, countVars, callVars, signalVars, groupVars, Goto, Return,
        Notify, Idle, Interrupted
<1>1. TypeOK'
  BY DEF TypeOK, Pcs, WaitPcs, Counts, NoAddr, NoVal
<1>2. ArgsOK'
  BY DEF TypeOK, ArgsOK, WithAddr, WaitPcs, NoAddr
<1>3. MutexOK'
  BY DEF TypeOK, ArgsOK, WithAddr, WaitPcs, MutexOK, Holds, FirstLock, TwoSlots, NoAddr
<1>4. PublishedOK'
  BY DEF TypeOK, PublishedOK, ArgsOK, WithAddr, WaitPcs, NoAddr
<1>5. StopOK'
  BY DEF TypeOK, StopOK, Gone
<1>6. CountsAccounted'
  BY DEF TypeOK, CountsAccounted, Counted, ArgsOK, WithAddr, WaitPcs
<1>7. NoSleeperMissed'
  BY DEF TypeOK, NoSleeperMissed, WakeOwed, StopOK, Gone, ArgsOK, WithAddr, WaitPcs,
      MutexOK, Holds
<1>8. NoSignalMissed'
  BY DEF TypeOK, NoSignalMissed, KickOwed, PublishedOK, ArgsOK, WithAddr, WaitPcs, MutexOK,
      Holds, NoAddr
<1> QED
  BY <1>1, <1>2, <1>3, <1>4, <1>5, <1>6, <1>7, <1>8

\* The waiter is back from the condition variable.
LEMMA WaitReturnStep ==
  ASSUME FutexInv, NEW t \in Threads, WaitReturn(t)
  PROVE  FutexInv'
<1> USE AddrsPositive, ValsNatural, NobodyIsNoThread, MainIsThread
    DEF FutexInv, WaitReturn, vars, slotVars, countVars, callVars, signalVars, groupVars, Goto, Return,
        Notify, Idle, Interrupted
<1>1. TypeOK'
  <2>1. uaddr[t] \in Addrs
    BY DEF ArgsOK, WithAddr, WaitPcs
  <2>2. waiters' \in [Addrs -> Int]
    <3>1. waiters \in [Addrs -> Int] /\ waiters[uaddr[t]] \in Int
      BY <2>1 DEF TypeOK
    <3> QED
      BY <2>1, <3>1
  <2> QED
    BY <2>1, <2>2 DEF TypeOK, Pcs, WaitPcs, NoAddr, NoVal
<1>2. ArgsOK'
  BY DEF TypeOK, ArgsOK, WithAddr, WaitPcs, NoAddr
<1>3. MutexOK'
  BY DEF TypeOK, ArgsOK, WithAddr, WaitPcs, MutexOK, Holds, FirstLock, TwoSlots, NoAddr
<1>4. PublishedOK'
  BY DEF TypeOK, PublishedOK, ArgsOK, WithAddr, WaitPcs, NoAddr
<1>5. StopOK'
  BY DEF TypeOK, StopOK, Gone
<1>6. CountsAccounted'
  <2>1. PICK a \in Addrs : a = uaddr[t] /\ t \in Counted(a)
    BY DEF ArgsOK, WithAddr, WaitPcs, Counted
  <2>2. Counted(a)' = Counted(a) \ {t}
    BY <2>1, AddrsPositive DEF TypeOK, Counted, NoAddr
  <2>3. Cardinality(Counted(a)') = Cardinality(Counted(a)) - 1
    BY <2>1, <2>2, CountedFinite, FS_RemoveElement
  <2>4. ASSUME NEW c \in Addrs, c # a PROVE Counted(c)' = Counted(c)
    BY <2>1, <2>4 DEF TypeOK, Counted, NoAddr
  <2>5. ASSUME NEW c \in Addrs PROVE waiters'[c] = Cardinality(Counted(c)') + leaked'[c]
    <3>1. /\ waiters[c] = Cardinality(Counted(c)) + leaked[c]
          /\ waiters[c] \in Int /\ leaked[c] \in Nat /\ Cardinality(Counted(c)) \in Nat
      BY CountedFinite DEF TypeOK, CountsAccounted
    <3> QED
      BY <2>1, <2>3, <2>4, <3>1 DEF TypeOK
  <2> QED
    BY <2>5 DEF CountsAccounted
<1>7. NoSleeperMissed'
  BY SMTT(40) DEF TypeOK, NoSleeperMissed, WakeOwed, StopOK, Gone, ArgsOK, WithAddr, WaitPcs,
      MutexOK, Holds
<1>8. NoSignalMissed'
  BY DEF TypeOK, NoSignalMissed, KickOwed, PublishedOK, ArgsOK, WithAddr, WaitPcs, MutexOK,
      Holds, NoAddr
<1> QED
  BY <1>1, <1>2, <1>3, <1>4, <1>5, <1>6, <1>7, <1>8

(***************************************************************************)
(* FUTEX_WAKE                                                              *)
(***************************************************************************)
\* The guest changes a word and owes a wake.
LEMMA GuestStoreStep ==
  ASSUME FutexInv, NEW t \in Threads, NEW a \in Addrs, NEW v \in Vals, GuestStore(t, a, v)
  PROVE  FutexInv'
<1> USE AddrsPositive, ValsNatural, NobodyIsNoThread, MainIsThread
    DEF FutexInv, GuestStore, vars, slotVars, countVars, callVars, signalVars, groupVars, Goto, Return,
        Notify, Idle, Interrupted
<1>1. TypeOK'
  BY DEF TypeOK, Pcs, WaitPcs, Counts, NoAddr, NoVal
<1>2. ArgsOK'
  BY DEF TypeOK, ArgsOK, WithAddr, WaitPcs, NoAddr
<1>3. MutexOK'
  BY DEF TypeOK, ArgsOK, WithAddr, WaitPcs, MutexOK, Holds, FirstLock, TwoSlots, NoAddr
<1>4. PublishedOK'
  BY DEF TypeOK, PublishedOK, ArgsOK, WithAddr, WaitPcs, NoAddr
<1>5. StopOK'
  BY DEF TypeOK, StopOK, Gone
<1>6. CountsAccounted'
  BY DEF TypeOK, CountsAccounted, Counted, ArgsOK, WithAddr, WaitPcs
<1>7. NoSleeperMissed'
  BY DEF TypeOK, NoSleeperMissed, WakeOwed, StopOK, Gone, ArgsOK, WithAddr, WaitPcs,
      MutexOK, Holds
<1>8. NoSignalMissed'
  BY DEF TypeOK, NoSignalMissed, KickOwed, PublishedOK, ArgsOK, WithAddr, WaitPcs, MutexOK,
      Holds, NoAddr
<1> QED
  BY <1>1, <1>2, <1>3, <1>4, <1>5, <1>6, <1>7, <1>8

\* It makes that wake.
LEMMA WakeStoredStep ==
  ASSUME FutexInv, NEW t \in Threads, WakeStored(t)
  PROVE  FutexInv'
<1> USE AddrsPositive, ValsNatural, NobodyIsNoThread, MainIsThread
    DEF FutexInv, WakeStored, vars, slotVars, countVars, callVars, signalVars, groupVars, Goto, Return,
        Notify, Idle, Interrupted
<1>1. TypeOK'
  BY DEF TypeOK, Pcs, WaitPcs, Counts, NoAddr, NoVal, Sleepers
<1>2. ArgsOK'
  BY DEF TypeOK, ArgsOK, WithAddr, WaitPcs, NoAddr, Sleepers
<1>3. MutexOK'
  BY DEF TypeOK, ArgsOK, WithAddr, WaitPcs, MutexOK, Holds, FirstLock, TwoSlots, NoAddr,
      Sleepers
<1>4. PublishedOK'
  BY DEF TypeOK, PublishedOK, ArgsOK, WithAddr, WaitPcs, NoAddr, Sleepers
<1>5. StopOK'
  BY DEF TypeOK, StopOK, Gone, Sleepers
<1>6. CountsAccounted'
  <2> DEFINE S == Sleepers(uaddr[t])
  <2>1. uaddr[t] \in Addrs
    BY DEF ArgsOK, WithAddr
  <2>2. Notify(S, t, "user")
    BY <2>1, NoneCounted
  <2>3. ASSUME NEW c \in Addrs PROVE Counted(c)' = Counted(c)
    BY <2>2 DEF TypeOK, Counted, Sleepers
  <2> QED
    BY <2>3, SameCount
<1>7. NoSleeperMissed'
  <2> DEFINE S == Sleepers(uaddr[t])
  <2>1. uaddr[t] \in Addrs
    BY DEF ArgsOK, WithAddr
  <2>2. Notify(S, t, "user")
    BY <2>1, NoneCounted
  <2>3. SUFFICES ASSUME NEW u \in Threads, ~leaving, word[uaddr'[u]] # val'[u],
                        at'[u] \in {"publish", "check", "enqueue", "asleep"}
                 PROVE  WakeOwed(uaddr[u])'
    BY DEF NoSleeperMissed
  <2>4. u # t /\ at[u] = at'[u] /\ uaddr'[u] = uaddr[u] /\ val'[u] = val[u]
    BY <2>2, <2>3 DEF TypeOK
  <2>5. uaddr[u] # uaddr[t]
    <3>1. ASSUME uaddr[u] = uaddr[t], at[u] = "asleep" PROVE FALSE
      <4>1. u \in S
        BY <3>1 DEF Sleepers
      <4>2. at'[u] = "woken"
        BY <4>1, <2>2, <2>4
      <4> QED
        BY <2>4, <3>1, <4>2
    <3>2. ASSUME uaddr[u] = uaddr[t], at[u] # "asleep" PROVE FALSE
      <4>1. Holds(u, uaddr[t])
        BY <2>3, <2>4, <3>2 DEF Holds
      <4> QED
        BY <2>1, <4>1 DEF MutexOK
    <3> QED
      BY <3>1, <3>2
  <2>6. PICK s \in Threads : at[s] \in {"stored", "exitnotify"} /\ uaddr[s] = uaddr[u]
    BY <2>3, <2>4 DEF NoSleeperMissed, WakeOwed
  <2>7. s # t /\ s \notin S
    BY <2>5, <2>6 DEF Sleepers
  <2> QED
    BY <2>2, <2>4, <2>6, <2>7 DEF WakeOwed, TypeOK
<1>8. NoSignalMissed'
  BY DEF TypeOK, NoSignalMissed, KickOwed, PublishedOK, ArgsOK, WithAddr, WaitPcs, MutexOK,
      Holds, NoAddr, Sleepers
<1> QED
  BY <1>1, <1>2, <1>3, <1>4, <1>5, <1>6, <1>7, <1>8

\* FUTEX_WAKE of n.
LEMMA FutexWakeStep ==
  ASSUME FutexInv, NEW t \in Threads, NEW a \in Addrs, NEW n \in Counts, FutexWake(t, a, n)
  PROVE  FutexInv'
<1> USE AddrsPositive, ValsNatural, NobodyIsNoThread, MainIsThread
    DEF FutexInv, FutexWake, vars, slotVars, countVars, callVars, signalVars, groupVars, Goto, Return,
        Notify, Idle, Interrupted
<1>1. TypeOK'
  BY DEF TypeOK, Pcs, WaitPcs, Counts, NoAddr, NoVal, Sleepers, Chosen
<1>2. ArgsOK'
  BY DEF TypeOK, ArgsOK, WithAddr, WaitPcs, NoAddr, Sleepers, Chosen
<1>3. MutexOK'
  BY DEF TypeOK, ArgsOK, WithAddr, WaitPcs, MutexOK, Holds, FirstLock, TwoSlots, NoAddr,
      Sleepers, Chosen
<1>4. PublishedOK'
  BY DEF TypeOK, PublishedOK, ArgsOK, WithAddr, WaitPcs, NoAddr, Sleepers, Chosen
<1>5. StopOK'
  BY DEF TypeOK, StopOK, Gone, Sleepers, Chosen
<1>6. CountsAccounted'
  <2>1. PICK S \in Chosen(a, n) : Notify(S, t, "user")
    OBVIOUS
  <2>2. S \subseteq Sleepers(a)
    BY ChosenAsleep
  <2>3. ASSUME NEW c \in Addrs PROVE Counted(c)' = Counted(c)
    BY <2>1, <2>2 DEF TypeOK, Counted, Sleepers
  <2> QED
    BY <2>3, SameCount
<1>7. NoSleeperMissed'
  BY DEF TypeOK, NoSleeperMissed, WakeOwed, StopOK, Gone, ArgsOK, WithAddr, WaitPcs,
      MutexOK, Holds, Sleepers, Chosen
<1>8. NoSignalMissed'
  BY DEF TypeOK, NoSignalMissed, KickOwed, PublishedOK, ArgsOK, WithAddr, WaitPcs, MutexOK,
      Holds, NoAddr, Sleepers, Chosen
<1> QED
  BY <1>1, <1>2, <1>3, <1>4, <1>5, <1>6, <1>7, <1>8

(***************************************************************************)
(* FUTEX_REQUEUE                                                           *)
(***************************************************************************)
\* REQUEUE starts.
LEMMA RequeueStep ==
  ASSUME FutexInv, NEW t \in Threads, NEW a \in Addrs, NEW b \in Addrs \cup {NoAddr},
      Requeue(t, a, b)
  PROVE  FutexInv'
<1> USE AddrsPositive, ValsNatural, NobodyIsNoThread, MainIsThread
    DEF FutexInv, Requeue, vars, slotVars, countVars, callVars, signalVars, groupVars, Goto, Return,
        Notify, Idle, Interrupted
<1>1. TypeOK'
  BY DEF TypeOK, Pcs, WaitPcs, Counts, NoAddr, NoVal, FirstLock, TwoSlots, SecondLock
<1>2. ArgsOK'
  BY DEF TypeOK, ArgsOK, WithAddr, WaitPcs, NoAddr, FirstLock, TwoSlots, SecondLock
<1>3. MutexOK'
  BY DEF TypeOK, ArgsOK, WithAddr, WaitPcs, MutexOK, Holds, FirstLock, TwoSlots, NoAddr,
      SecondLock
<1>4. PublishedOK'
  BY DEF TypeOK, PublishedOK, ArgsOK, WithAddr, WaitPcs, NoAddr, FirstLock, TwoSlots, SecondLock
<1>5. StopOK'
  BY DEF TypeOK, StopOK, Gone, FirstLock, TwoSlots, SecondLock
<1>6. CountsAccounted'
  BY DEF TypeOK, CountsAccounted, Counted, ArgsOK, WithAddr, WaitPcs, FirstLock, TwoSlots,
      SecondLock
<1>7. NoSleeperMissed'
  BY DEF TypeOK, NoSleeperMissed, WakeOwed, StopOK, Gone, ArgsOK, WithAddr, WaitPcs,
      MutexOK, Holds, FirstLock, TwoSlots, SecondLock
<1>8. NoSignalMissed'
  BY DEF TypeOK, NoSignalMissed, KickOwed, PublishedOK, ArgsOK, WithAddr, WaitPcs, MutexOK,
      Holds, NoAddr, FirstLock, TwoSlots, SecondLock
<1> QED
  BY <1>1, <1>2, <1>3, <1>4, <1>5, <1>6, <1>7, <1>8

\* It takes the lower slot.
LEMMA RequeueLockStep ==
  ASSUME FutexInv, NEW t \in Threads, RequeueLock(t)
  PROVE  FutexInv'
<1> USE AddrsPositive, ValsNatural, NobodyIsNoThread, MainIsThread
    DEF FutexInv, RequeueLock, vars, slotVars, countVars, callVars, signalVars, groupVars, Goto,
        Return, Notify, Idle, Interrupted
<1>1. TypeOK'
  BY DEF TypeOK, Pcs, WaitPcs, Counts, NoAddr, NoVal, FirstLock, TwoSlots, SecondLock
<1>2. ArgsOK'
  BY DEF TypeOK, ArgsOK, WithAddr, WaitPcs, NoAddr, FirstLock, TwoSlots, SecondLock
<1>3. MutexOK'
  BY DEF TypeOK, ArgsOK, WithAddr, WaitPcs, MutexOK, Holds, FirstLock, TwoSlots, NoAddr,
      SecondLock
<1>4. PublishedOK'
  BY DEF TypeOK, PublishedOK, ArgsOK, WithAddr, WaitPcs, NoAddr, FirstLock, TwoSlots, SecondLock
<1>5. StopOK'
  BY DEF TypeOK, StopOK, Gone, FirstLock, TwoSlots, SecondLock
<1>6. CountsAccounted'
  BY DEF TypeOK, CountsAccounted, Counted, ArgsOK, WithAddr, WaitPcs, FirstLock, TwoSlots,
      SecondLock
<1>7. NoSleeperMissed'
  BY DEF TypeOK, NoSleeperMissed, WakeOwed, StopOK, Gone, ArgsOK, WithAddr, WaitPcs,
      MutexOK, Holds, FirstLock, TwoSlots, SecondLock
<1>8. NoSignalMissed'
  BY DEF TypeOK, NoSignalMissed, KickOwed, PublishedOK, ArgsOK, WithAddr, WaitPcs, MutexOK,
      Holds, NoAddr, FirstLock, TwoSlots, SecondLock
<1> QED
  BY <1>1, <1>2, <1>3, <1>4, <1>5, <1>6, <1>7, <1>8

\* It takes the higher slot, notifies and releases both.
LEMMA RequeueMoveStep ==
  ASSUME FutexInv, NEW t \in Threads, NEW n \in Counts, NEW m \in Counts, RequeueMove(t, n, m)
  PROVE  FutexInv'
<1> USE AddrsPositive, ValsNatural, NobodyIsNoThread, MainIsThread
    DEF FutexInv, RequeueMove, vars, slotVars, countVars, callVars, signalVars, groupVars, Goto,
        Return, Notify, Idle, Interrupted
<1>1. TypeOK'
  BY DEF TypeOK, Pcs, WaitPcs, Counts, NoAddr, NoVal, ArgsOK, WithAddr, Sleepers, Chosen,
      FirstLock, TwoSlots, SecondLock
<1>2. ArgsOK'
  BY DEF TypeOK, ArgsOK, WithAddr, WaitPcs, NoAddr, Sleepers, Chosen, FirstLock, TwoSlots,
      SecondLock
<1>3. MutexOK'
  BY DEF TypeOK, ArgsOK, WithAddr, WaitPcs, MutexOK, Holds, FirstLock, TwoSlots, NoAddr,
      Sleepers, Chosen, SecondLock
<1>4. PublishedOK'
  BY DEF TypeOK, PublishedOK, ArgsOK, WithAddr, WaitPcs, NoAddr, Sleepers, Chosen,
      FirstLock, TwoSlots, SecondLock
<1>5. StopOK'
  BY DEF TypeOK, StopOK, Gone, Sleepers, Chosen, FirstLock, TwoSlots, SecondLock
<1>6. CountsAccounted'
  <2>1. uaddr[t] \in Addrs
    BY DEF ArgsOK, WithAddr
  <2>2. PICK S \in Chosen(uaddr[t], n) :
          Notify(IF uaddr2[t] # NoAddr /\ m > 0 /\ waiters[uaddr[t]] > 0
                   THEN Sleepers(uaddr[t]) ELSE S, t, "user")
    OBVIOUS
  <2>3. S \subseteq Sleepers(uaddr[t])
    BY <2>1, ChosenAsleep
  <2>4. ASSUME NEW c \in Addrs PROVE Counted(c)' = Counted(c)
    BY <2>2, <2>3 DEF TypeOK, Counted, Sleepers
  <2> QED
    BY <2>4, SameCount
<1>7. NoSleeperMissed'
  <2>1. uaddr[t] \in Addrs
    BY DEF ArgsOK, WithAddr
  <2>2. PICK S \in Chosen(uaddr[t], n) :
          Notify(IF uaddr2[t] # NoAddr /\ m > 0 /\ waiters[uaddr[t]] > 0
                   THEN Sleepers(uaddr[t]) ELSE S, t, "user")
    OBVIOUS
  <2>3. S \subseteq Sleepers(uaddr[t])
    BY <2>1, ChosenAsleep
  <2>4. ASSUME NEW u \in Threads, u # t
        PROVE  at'[u] = at[u] \/ (at[u] = "asleep" /\ at'[u] = "woken")
    BY <2>2, <2>3, <2>4 DEF TypeOK, Sleepers
  <2>5. at[t] = "requeue2" /\ at'[t] = "user" /\ word' = word /\ leaving' = leaving
    BY <2>2 DEF TypeOK
  <2>6. ASSUME NEW u \in Threads, u # t PROVE uaddr'[u] = uaddr[u] /\ val'[u] = val[u]
    BY <2>6 DEF TypeOK
  <2> HIDE DEF RequeueMove, FutexInv, Notify
  <2>7. NoSleeperMissed
    BY DEF FutexInv
  <2> QED
    BY <2>4, <2>5, <2>6, <2>7 DEF NoSleeperMissed, WakeOwed
<1>8. NoSignalMissed'
  BY DEF TypeOK, NoSignalMissed, KickOwed, PublishedOK, ArgsOK, WithAddr, WaitPcs, MutexOK,
      Holds, NoAddr, Sleepers, Chosen, FirstLock, TwoSlots, SecondLock
<1> QED
  BY <1>1, <1>2, <1>3, <1>4, <1>5, <1>6, <1>7, <1>8

(***************************************************************************)
(* Signals                                                                 *)
(***************************************************************************)
\* A signal is queued for u.
LEMMA SignalPushStep ==
  ASSUME FutexInv, NEW t \in Threads, NEW u \in Threads, SignalPush(t, u)
  PROVE  FutexInv'
<1> USE AddrsPositive, ValsNatural, NobodyIsNoThread, MainIsThread
    DEF FutexInv, SignalPush, vars, slotVars, countVars, callVars, signalVars, groupVars, Goto, Return,
        Notify, Idle, Interrupted
<1>1. TypeOK'
  BY DEF TypeOK, Pcs, WaitPcs, Counts, NoAddr, NoVal
<1>2. ArgsOK'
  BY DEF TypeOK, ArgsOK, WithAddr, WaitPcs, NoAddr
<1>3. MutexOK'
  BY DEF TypeOK, ArgsOK, WithAddr, WaitPcs, MutexOK, Holds, FirstLock, TwoSlots, NoAddr
<1>4. PublishedOK'
  BY DEF TypeOK, PublishedOK, ArgsOK, WithAddr, WaitPcs, NoAddr
<1>5. StopOK'
  BY DEF TypeOK, StopOK, Gone
<1>6. CountsAccounted'
  BY DEF TypeOK, CountsAccounted, Counted, ArgsOK, WithAddr, WaitPcs
<1>7. NoSleeperMissed'
  BY DEF TypeOK, NoSleeperMissed, WakeOwed, StopOK, Gone, ArgsOK, WithAddr, WaitPcs,
      MutexOK, Holds
<1>8. NoSignalMissed'
  BY DEF TypeOK, NoSignalMissed, KickOwed, PublishedOK, ArgsOK, WithAddr, WaitPcs, MutexOK,
      Holds, NoAddr
<1> QED
  BY <1>1, <1>2, <1>3, <1>4, <1>5, <1>6, <1>7, <1>8

\* The sender reads the mask of the target.
LEMMA SignalMaskStep ==
  ASSUME FutexInv, NEW t \in Threads, SignalMask(t)
  PROVE  FutexInv'
<1> USE AddrsPositive, ValsNatural, NobodyIsNoThread, MainIsThread
    DEF FutexInv, SignalMask, vars, slotVars, countVars, callVars, signalVars, groupVars, Goto, Return,
        Notify, Idle, Interrupted
<1>1. TypeOK'
  <2>1. CASE blocked[peer[t]]
    BY <2>1 DEF TypeOK, Pcs, WaitPcs, NoAddr, NoVal, ArgsOK, WithAddr
  <2>2. CASE ~(blocked[peer[t]])
    BY <2>2 DEF TypeOK, Pcs, WaitPcs, NoAddr, NoVal, ArgsOK, WithAddr
  <2> QED
    BY <2>1, <2>2
<1>2. ArgsOK'
  BY DEF TypeOK, ArgsOK, WithAddr, WaitPcs, NoAddr
<1>3. MutexOK'
  BY DEF TypeOK, ArgsOK, WithAddr, WaitPcs, MutexOK, Holds, FirstLock, TwoSlots, NoAddr
<1>4. PublishedOK'
  BY DEF TypeOK, PublishedOK, ArgsOK, WithAddr, WaitPcs, NoAddr
<1>5. StopOK'
  BY DEF TypeOK, StopOK, Gone
<1>6. CountsAccounted'
  BY DEF TypeOK, CountsAccounted, Counted, ArgsOK, WithAddr, WaitPcs
<1>7. NoSleeperMissed'
  <2>1. SUFFICES ASSUME NEW u \in Threads, at'[u] \in {"publish", "check", "enqueue", "asleep"},
                        word'[uaddr'[u]] # val'[u], ~leaving'
                 PROVE  WakeOwed(uaddr[u])'
    BY DEF NoSleeperMissed
  <2>2. /\ at[u] \in {"publish", "check", "enqueue", "asleep"}
        /\ uaddr'[u] = uaddr[u] /\ val'[u] = val[u]
    BY <2>1 DEF TypeOK
  <2>3. WakeOwed(uaddr[u])
    BY <2>1, <2>2 DEF NoSleeperMissed
  <2>4. PICK s \in Threads : at[s] \in {"stored", "exitnotify"} /\ uaddr[s] = uaddr[u]
    BY <2>3 DEF WakeOwed
  <2>5. at'[s] = at[s] /\ uaddr'[s] = uaddr[s]
    BY <2>1, <2>4 DEF TypeOK
  <2> QED
    BY <2>2, <2>4, <2>5 DEF WakeOwed
<1>8. NoSignalMissed'
  <2>1. SUFFICES ASSUME NEW u \in Threads, at'[u] \in {"enqueue", "asleep"}, Interrupted(u)'
                 PROVE  KickOwed(u)'
    BY DEF NoSignalMissed
  <2>2. u # t /\ at[u] = at'[u] /\ uaddr'[u] = uaddr[u] /\ ~blocked[u]
    BY <2>1 DEF TypeOK
  <2>2a. KickOwed(u)
    <3>1. Interrupted(u) /\ at[u] \in {"enqueue", "asleep"}
      BY <2>1, <2>2
    <3> QED
      BY <3>1 DEF NoSignalMissed
  <2>3. PICK s \in Threads :
          peer[s] = u /\ (at[s] \in {"mask", "kick"} \/ (at[s] = "notify" /\ uaddr[s] =
              uaddr[u]))
    BY <2>2a DEF KickOwed
  <2>4. CASE s = t
    BY <2>2, <2>3, <2>4 DEF KickOwed, TypeOK
  <2>5. CASE s # t
    BY <2>2, <2>3, <2>5 DEF KickOwed, TypeOK
  <2> QED
    BY <2>4, <2>5
<1> QED
  BY <1>1, <1>2, <1>3, <1>4, <1>5, <1>6, <1>7, <1>8

\* The sender reads the published address.
LEMMA KickLoadStep ==
  ASSUME FutexInv, NEW t \in Threads, KickLoad(t)
  PROVE  FutexInv'
<1> USE AddrsPositive, ValsNatural, NobodyIsNoThread, MainIsThread
    DEF FutexInv, KickLoad, vars, slotVars, countVars, callVars, signalVars, groupVars, Goto, Return,
        Notify, Idle, Interrupted
<1>1. TypeOK'
  <2>1. CASE waitaddr[peer[t]] = NoAddr
    BY <2>1 DEF TypeOK, Pcs, WaitPcs, NoAddr, NoVal, ArgsOK, WithAddr
  <2>2. CASE ~(waitaddr[peer[t]] = NoAddr)
    BY <2>2 DEF TypeOK, Pcs, WaitPcs, NoAddr, NoVal, ArgsOK, WithAddr
  <2> QED
    BY <2>1, <2>2
<1>2. ArgsOK'
  BY DEF TypeOK, ArgsOK, WithAddr, WaitPcs, NoAddr
<1>3. MutexOK'
  BY DEF TypeOK, ArgsOK, WithAddr, WaitPcs, MutexOK, Holds, FirstLock, TwoSlots, NoAddr
<1>4. PublishedOK'
  BY DEF TypeOK, PublishedOK, ArgsOK, WithAddr, WaitPcs, NoAddr
<1>5. StopOK'
  BY DEF TypeOK, StopOK, Gone
<1>6. CountsAccounted'
  BY DEF TypeOK, CountsAccounted, Counted, ArgsOK, WithAddr, WaitPcs
<1>7. NoSleeperMissed'
  BY DEF TypeOK, NoSleeperMissed, WakeOwed, StopOK, Gone, ArgsOK, WithAddr, WaitPcs,
      MutexOK, Holds
<1>8. NoSignalMissed'
  BY DEF TypeOK, NoSignalMissed, KickOwed, PublishedOK, ArgsOK, WithAddr, WaitPcs, MutexOK,
      Holds, NoAddr
<1> QED
  BY <1>1, <1>2, <1>3, <1>4, <1>5, <1>6, <1>7, <1>8

\* The sender notifies that slot.
LEMMA KickNotifyStep ==
  ASSUME FutexInv, NEW t \in Threads, KickNotify(t)
  PROVE  FutexInv'
<1> USE AddrsPositive, ValsNatural, NobodyIsNoThread, MainIsThread
    DEF FutexInv, KickNotify, vars, slotVars, countVars, callVars, signalVars, groupVars, Goto, Return,
        Notify, Idle, Interrupted
<1>1. TypeOK'
  BY DEF TypeOK, Pcs, WaitPcs, Counts, NoAddr, NoVal, Sleepers
<1>2. ArgsOK'
  BY DEF TypeOK, ArgsOK, WithAddr, WaitPcs, NoAddr, Sleepers
<1>3. MutexOK'
  BY DEF TypeOK, ArgsOK, WithAddr, WaitPcs, MutexOK, Holds, FirstLock, TwoSlots, NoAddr,
      Sleepers
<1>4. PublishedOK'
  BY DEF TypeOK, PublishedOK, ArgsOK, WithAddr, WaitPcs, NoAddr, Sleepers
<1>5. StopOK'
  BY DEF TypeOK, StopOK, Gone, Sleepers
<1>6. CountsAccounted'
  <2>1. ASSUME NEW c \in Addrs PROVE Counted(c)' = Counted(c)
    BY DEF TypeOK, Counted, Sleepers
  <2> QED
    BY <2>1, SameCount
<1>7. NoSleeperMissed'
  BY DEF TypeOK, NoSleeperMissed, WakeOwed, StopOK, Gone, ArgsOK, WithAddr, WaitPcs,
      MutexOK, Holds, Sleepers
<1>8. NoSignalMissed'
  <2>1. SUFFICES ASSUME NEW u \in Threads, at'[u] \in {"enqueue", "asleep"}, Interrupted(u)'
                 PROVE  KickOwed(u)'
    BY DEF NoSignalMissed
  <2>2. u # t /\ at[u] = at'[u] /\ uaddr'[u] = uaddr[u] /\ uaddr[t] \in Addrs
    BY <2>1 DEF TypeOK, ArgsOK, WithAddr
  <2>2a. KickOwed(u)
    <3>1. Interrupted(u) /\ at[u] \in {"enqueue", "asleep"}
      BY <2>1, <2>2
    <3> QED
      BY <3>1 DEF NoSignalMissed
  <2>3. uaddr[u] # uaddr[t]
    BY <2>1, <2>2, NobodyIsNoThread DEF TypeOK, Sleepers, MutexOK, Holds
  <2>4. PICK s \in Threads :
          peer[s] = u /\ (at[s] \in {"mask", "kick"} \/ (at[s] = "notify" /\ uaddr[s] =
              uaddr[u]))
    BY <2>2a DEF KickOwed
  <2>5. s # t
    BY <2>3, <2>4
  <2> QED
    BY <2>2, <2>4, <2>5 DEF KickOwed, TypeOK, Sleepers
<1> QED
  BY <1>1, <1>2, <1>3, <1>4, <1>5, <1>6, <1>7, <1>8

\* The owner delivers its signal.
LEMMA DrainStep ==
  ASSUME FutexInv, NEW t \in Threads, Drain(t)
  PROVE  FutexInv'
<1> USE AddrsPositive, ValsNatural, NobodyIsNoThread, MainIsThread
    DEF FutexInv, Drain, vars, slotVars, countVars, callVars, signalVars, groupVars, Goto, Return,
        Notify, Idle, Interrupted
<1>1. TypeOK'
  BY DEF TypeOK, Pcs, WaitPcs, Counts, NoAddr, NoVal
<1>2. ArgsOK'
  BY DEF TypeOK, ArgsOK, WithAddr, WaitPcs, NoAddr
<1>3. MutexOK'
  BY DEF TypeOK, ArgsOK, WithAddr, WaitPcs, MutexOK, Holds, FirstLock, TwoSlots, NoAddr
<1>4. PublishedOK'
  BY DEF TypeOK, PublishedOK, ArgsOK, WithAddr, WaitPcs, NoAddr
<1>5. StopOK'
  BY DEF TypeOK, StopOK, Gone
<1>6. CountsAccounted'
  BY DEF TypeOK, CountsAccounted, Counted, ArgsOK, WithAddr, WaitPcs
<1>7. NoSleeperMissed'
  BY DEF TypeOK, NoSleeperMissed, WakeOwed, StopOK, Gone, ArgsOK, WithAddr, WaitPcs,
      MutexOK, Holds
<1>8. NoSignalMissed'
  BY DEF TypeOK, NoSignalMissed, KickOwed, PublishedOK, ArgsOK, WithAddr, WaitPcs, MutexOK,
      Holds, NoAddr
<1> QED
  BY <1>1, <1>2, <1>3, <1>4, <1>5, <1>6, <1>7, <1>8

\* rt_sigprocmask.
LEMMA SetMaskStep ==
  ASSUME FutexInv, NEW t \in Threads, SetMask(t)
  PROVE  FutexInv'
<1> USE AddrsPositive, ValsNatural, NobodyIsNoThread, MainIsThread
    DEF FutexInv, SetMask, vars, slotVars, countVars, callVars, signalVars, groupVars, Goto, Return,
        Notify, Idle, Interrupted
<1>1. TypeOK'
  BY DEF TypeOK, Pcs, WaitPcs, Counts, NoAddr, NoVal
<1>2. ArgsOK'
  BY DEF TypeOK, ArgsOK, WithAddr, WaitPcs, NoAddr
<1>3. MutexOK'
  BY DEF TypeOK, ArgsOK, WithAddr, WaitPcs, MutexOK, Holds, FirstLock, TwoSlots, NoAddr
<1>4. PublishedOK'
  BY DEF TypeOK, PublishedOK, ArgsOK, WithAddr, WaitPcs, NoAddr
<1>5. StopOK'
  BY DEF TypeOK, StopOK, Gone
<1>6. CountsAccounted'
  BY DEF TypeOK, CountsAccounted, Counted, ArgsOK, WithAddr, WaitPcs
<1>7. NoSleeperMissed'
  BY DEF TypeOK, NoSleeperMissed, WakeOwed, StopOK, Gone, ArgsOK, WithAddr, WaitPcs,
      MutexOK, Holds
<1>8. NoSignalMissed'
  BY DEF TypeOK, NoSignalMissed, KickOwed, PublishedOK, ArgsOK, WithAddr, WaitPcs, MutexOK,
      Holds, NoAddr
<1> QED
  BY <1>1, <1>2, <1>3, <1>4, <1>5, <1>6, <1>7, <1>8

(***************************************************************************)
(* The thread group                                                        *)
(***************************************************************************)
\* clone.
LEMMA SpawnStep ==
  ASSUME FutexInv, NEW t \in Threads, NEW u \in Threads, Spawn(t, u)
  PROVE  FutexInv'
<1> USE AddrsPositive, ValsNatural, NobodyIsNoThread, MainIsThread
    DEF FutexInv, Spawn, vars, slotVars, countVars, callVars, signalVars, groupVars, Goto, Return,
        Notify, Idle, Interrupted
<1>1. TypeOK'
  BY DEF TypeOK, Pcs, WaitPcs, Counts, NoAddr, NoVal
<1>2. ArgsOK'
  BY DEF TypeOK, ArgsOK, WithAddr, WaitPcs, NoAddr
<1>3. MutexOK'
  BY DEF TypeOK, ArgsOK, WithAddr, WaitPcs, MutexOK, Holds, FirstLock, TwoSlots, NoAddr
<1>4. PublishedOK'
  BY DEF TypeOK, PublishedOK, ArgsOK, WithAddr, WaitPcs, NoAddr
<1>5. StopOK'
  BY DEF TypeOK, StopOK, Gone
<1>6. CountsAccounted'
  BY DEF TypeOK, CountsAccounted, Counted, ArgsOK, WithAddr, WaitPcs
<1>7. NoSleeperMissed'
  BY DEF TypeOK, NoSleeperMissed, WakeOwed, StopOK, Gone, ArgsOK, WithAddr, WaitPcs,
      MutexOK, Holds
<1>8. NoSignalMissed'
  BY DEF TypeOK, NoSignalMissed, KickOwed, PublishedOK, ArgsOK, WithAddr, WaitPcs, MutexOK,
      Holds, NoAddr
<1> QED
  BY <1>1, <1>2, <1>3, <1>4, <1>5, <1>6, <1>7, <1>8

\* A worker leaves its run loop.
LEMMA ExitStep ==
  ASSUME FutexInv, NEW t \in Threads, NEW S \in SUBSET Addrs, Exit(t, S)
  PROVE  FutexInv'
<1> USE AddrsPositive, ValsNatural, NobodyIsNoThread, MainIsThread
    DEF FutexInv, Exit, vars, slotVars, countVars, callVars, signalVars, groupVars, Goto, Return,
        Notify, Idle, Interrupted
<1>1. TypeOK'
  BY DEF TypeOK, Pcs, WaitPcs, Counts, NoAddr, NoVal
<1>2. ArgsOK'
  BY DEF TypeOK, ArgsOK, WithAddr, WaitPcs, NoAddr
<1>3. MutexOK'
  BY DEF TypeOK, ArgsOK, WithAddr, WaitPcs, MutexOK, Holds, FirstLock, TwoSlots, NoAddr
<1>4. PublishedOK'
  BY DEF TypeOK, PublishedOK, ArgsOK, WithAddr, WaitPcs, NoAddr
<1>5. StopOK'
  BY DEF TypeOK, StopOK, Gone
<1>6. CountsAccounted'
  BY DEF TypeOK, CountsAccounted, Counted, ArgsOK, WithAddr, WaitPcs
<1>7. NoSleeperMissed'
  <2>1. SUFFICES ASSUME NEW u \in Threads, at'[u] \in {"publish", "check", "enqueue", "asleep"},
                        word'[uaddr'[u]] # val'[u], ~leaving'
                 PROVE  WakeOwed(uaddr[u])'
    BY DEF NoSleeperMissed
  <2>2. /\ at[u] \in {"publish", "check", "enqueue", "asleep"}
        /\ uaddr'[u] = uaddr[u] /\ val'[u] = val[u]
    BY <2>1 DEF TypeOK
  <2>3. WakeOwed(uaddr[u])
    BY <2>1, <2>2 DEF NoSleeperMissed
  <2>4. PICK s \in Threads : at[s] \in {"stored", "exitnotify"} /\ uaddr[s] = uaddr[u]
    BY <2>3 DEF WakeOwed
  <2>5. at'[s] = at[s] /\ uaddr'[s] = uaddr[s]
    BY <2>1, <2>4 DEF TypeOK, StopOK, Gone
  <2> QED
    BY <2>2, <2>4, <2>5 DEF WakeOwed
<1>8. NoSignalMissed'
  BY DEF TypeOK, NoSignalMissed, KickOwed, PublishedOK, ArgsOK, WithAddr, WaitPcs, MutexOK,
      Holds, NoAddr
<1> QED
  BY <1>1, <1>2, <1>3, <1>4, <1>5, <1>6, <1>7, <1>8

\* Its exit rewrites a word ...
LEMMA ExitStoreStep ==
  ASSUME FutexInv, NEW t \in Threads, NEW a \in Addrs, NEW v \in Vals, ExitStore(t, a, v)
  PROVE  FutexInv'
<1> USE AddrsPositive, ValsNatural, NobodyIsNoThread, MainIsThread
    DEF FutexInv, ExitStore, vars, slotVars, countVars, callVars, signalVars, groupVars, Goto, Return,
        Notify, Idle, Interrupted
<1>1. TypeOK'
  BY DEF TypeOK, Pcs, WaitPcs, Counts, NoAddr, NoVal
<1>2. ArgsOK'
  BY DEF TypeOK, ArgsOK, WithAddr, WaitPcs, NoAddr
<1>3. MutexOK'
  BY DEF TypeOK, ArgsOK, WithAddr, WaitPcs, MutexOK, Holds, FirstLock, TwoSlots, NoAddr
<1>4. PublishedOK'
  BY DEF TypeOK, PublishedOK, ArgsOK, WithAddr, WaitPcs, NoAddr
<1>5. StopOK'
  BY DEF TypeOK, StopOK, Gone
<1>6. CountsAccounted'
  BY DEF TypeOK, CountsAccounted, Counted, ArgsOK, WithAddr, WaitPcs
<1>7. NoSleeperMissed'
  BY DEF TypeOK, NoSleeperMissed, WakeOwed, StopOK, Gone, ArgsOK, WithAddr, WaitPcs,
      MutexOK, Holds
<1>8. NoSignalMissed'
  BY DEF TypeOK, NoSignalMissed, KickOwed, PublishedOK, ArgsOK, WithAddr, WaitPcs, MutexOK,
      Holds, NoAddr
<1> QED
  BY <1>1, <1>2, <1>3, <1>4, <1>5, <1>6, <1>7, <1>8

\* ... and notifies the slot.
LEMMA ExitNotifyStep ==
  ASSUME FutexInv, NEW t \in Threads, ExitNotify(t)
  PROVE  FutexInv'
<1> USE AddrsPositive, ValsNatural, NobodyIsNoThread, MainIsThread
    DEF FutexInv, ExitNotify, vars, slotVars, countVars, callVars, signalVars, groupVars, Goto, Return,
        Notify, Idle, Interrupted
<1>1. TypeOK'
  BY DEF TypeOK, Pcs, WaitPcs, Counts, NoAddr, NoVal, Sleepers
<1>2. ArgsOK'
  BY DEF TypeOK, ArgsOK, WithAddr, WaitPcs, NoAddr, Sleepers
<1>3. MutexOK'
  BY DEF TypeOK, ArgsOK, WithAddr, WaitPcs, MutexOK, Holds, FirstLock, TwoSlots, NoAddr,
      Sleepers
<1>4. PublishedOK'
  BY DEF TypeOK, PublishedOK, ArgsOK, WithAddr, WaitPcs, NoAddr, Sleepers
<1>5. StopOK'
  BY DEF TypeOK, StopOK, Gone, Sleepers
<1>6. CountsAccounted'
  <2>1. ASSUME NEW c \in Addrs PROVE Counted(c)' = Counted(c)
    BY DEF TypeOK, Counted, Sleepers
  <2> QED
    BY <2>1, SameCount
<1>7. NoSleeperMissed'
  <2>1. SUFFICES ASSUME NEW u \in Threads, ~leaving, word[uaddr'[u]] # val'[u],
                        at'[u] \in {"publish", "check", "enqueue", "asleep"}
                 PROVE  WakeOwed(uaddr[u])'
    BY DEF NoSleeperMissed
  <2>2. u # t /\ at[u] = at'[u] /\ uaddr'[u] = uaddr[u] /\ val'[u] = val[u] /\ uaddr[t] \in
      Addrs
    BY <2>1 DEF TypeOK, ArgsOK, WithAddr
  <2>3. uaddr[u] # uaddr[t]
    BY <2>1, <2>2, NobodyIsNoThread DEF TypeOK, Sleepers, MutexOK, Holds
  <2>4. PICK s \in Threads : at[s] \in {"stored", "exitnotify"} /\ uaddr[s] = uaddr[u]
    BY <2>1, <2>2 DEF NoSleeperMissed, WakeOwed
  <2>5. s # t
    BY <2>3, <2>4
  <2> QED
    BY <2>2, <2>4, <2>5 DEF WakeOwed, TypeOK, Sleepers
<1>8. NoSignalMissed'
  BY DEF TypeOK, NoSignalMissed, KickOwed, PublishedOK, ArgsOK, WithAddr, WaitPcs, MutexOK,
      Holds, NoAddr, Sleepers
<1> QED
  BY <1>1, <1>2, <1>3, <1>4, <1>5, <1>6, <1>7, <1>8

\* The worker is gone.
LEMMA ExitDoneStep ==
  ASSUME FutexInv, NEW t \in Threads, ExitDone(t)
  PROVE  FutexInv'
<1> USE AddrsPositive, ValsNatural, NobodyIsNoThread, MainIsThread
    DEF FutexInv, ExitDone, vars, slotVars, countVars, callVars, signalVars, groupVars, Goto, Return,
        Notify, Idle, Interrupted
<1>1. TypeOK'
  BY DEF TypeOK, Pcs, WaitPcs, Counts, NoAddr, NoVal
<1>2. ArgsOK'
  BY DEF TypeOK, ArgsOK, WithAddr, WaitPcs, NoAddr
<1>3. MutexOK'
  BY DEF TypeOK, ArgsOK, WithAddr, WaitPcs, MutexOK, Holds, FirstLock, TwoSlots, NoAddr
<1>4. PublishedOK'
  BY DEF TypeOK, PublishedOK, ArgsOK, WithAddr, WaitPcs, NoAddr
<1>5. StopOK'
  BY DEF TypeOK, StopOK, Gone
<1>6. CountsAccounted'
  BY DEF TypeOK, CountsAccounted, Counted, ArgsOK, WithAddr, WaitPcs
<1>7. NoSleeperMissed'
  BY DEF TypeOK, NoSleeperMissed, WakeOwed, StopOK, Gone, ArgsOK, WithAddr, WaitPcs,
      MutexOK, Holds
<1>8. NoSignalMissed'
  BY DEF TypeOK, NoSignalMissed, KickOwed, PublishedOK, ArgsOK, WithAddr, WaitPcs, MutexOK,
      Holds, NoAddr
<1> QED
  BY <1>1, <1>2, <1>3, <1>4, <1>5, <1>6, <1>7, <1>8

\* Threads are told to stop (group exit, kill_other_threads, join_threads).
LEMMA StopStep ==
  ASSUME FutexInv, NEW t \in Threads, NEW S \in SUBSET Threads,
         at[t] \in {"user", "stored", "poll"}, Stop(t, S)
  PROVE  FutexInv'
<1> USE AddrsPositive, ValsNatural, NobodyIsNoThread, MainIsThread
    DEF FutexInv, Stop, vars, slotVars, countVars, callVars, signalVars, groupVars, Goto, Return,
        Notify, Idle, Interrupted
<1>1. TypeOK'
  BY DEF TypeOK, Pcs, WaitPcs, Counts, NoAddr, NoVal
<1>2. ArgsOK'
  BY DEF TypeOK, ArgsOK, WithAddr, WaitPcs, NoAddr
<1>3. MutexOK'
  BY DEF TypeOK, ArgsOK, WithAddr, WaitPcs, MutexOK, Holds, FirstLock, TwoSlots, NoAddr
<1>4. PublishedOK'
  BY DEF TypeOK, PublishedOK, ArgsOK, WithAddr, WaitPcs, NoAddr
<1>5. StopOK'
  BY DEF TypeOK, StopOK, Gone
<1>6. CountsAccounted'
  <2>1. ASSUME NEW c \in Addrs PROVE Counted(c)' = Counted(c)
    BY DEF TypeOK, Counted, Sleepers
  <2> QED
    BY <2>1, SameCount
<1>7. NoSleeperMissed'
  BY DEF TypeOK, NoSleeperMissed, WakeOwed, StopOK, Gone, ArgsOK, WithAddr, WaitPcs,
      MutexOK, Holds
<1>8. NoSignalMissed'
  BY DEF TypeOK, NoSignalMissed, KickOwed, PublishedOK, ArgsOK, WithAddr, WaitPcs, MutexOK,
      Holds, NoAddr
<1> QED
  BY <1>1, <1>2, <1>3, <1>4, <1>5, <1>6, <1>7, <1>8

\* The main thread calls exit(2).
LEMMA MainExitStep ==
  ASSUME FutexInv, MainExit
  PROVE  FutexInv'
<1> USE AddrsPositive, ValsNatural, NobodyIsNoThread, MainIsThread
    DEF FutexInv, MainExit, vars, slotVars, countVars, callVars, signalVars, groupVars, Goto, Return,
        Notify, Idle, Interrupted
<1>1. TypeOK'
  BY DEF TypeOK, Pcs, WaitPcs, Counts, NoAddr, NoVal
<1>2. ArgsOK'
  BY DEF TypeOK, ArgsOK, WithAddr, WaitPcs, NoAddr
<1>3. MutexOK'
  BY DEF TypeOK, ArgsOK, WithAddr, WaitPcs, MutexOK, Holds, FirstLock, TwoSlots, NoAddr
<1>4. PublishedOK'
  BY DEF TypeOK, PublishedOK, ArgsOK, WithAddr, WaitPcs, NoAddr
<1>5. StopOK'
  BY DEF TypeOK, StopOK, Gone
<1>6. CountsAccounted'
  BY DEF TypeOK, CountsAccounted, Counted, ArgsOK, WithAddr, WaitPcs
<1>7. NoSleeperMissed'
  BY DEF TypeOK, NoSleeperMissed, WakeOwed, StopOK, Gone, ArgsOK, WithAddr, WaitPcs,
      MutexOK, Holds
<1>8. NoSignalMissed'
  BY DEF TypeOK, NoSignalMissed, KickOwed, PublishedOK, ArgsOK, WithAddr, WaitPcs, MutexOK,
      Holds, NoAddr
<1> QED
  BY <1>1, <1>2, <1>3, <1>4, <1>5, <1>6, <1>7, <1>8

\* wake_all_futexes visits a slot.
LEMMA SweepStep ==
  ASSUME FutexInv, NEW t \in Threads, NEW a \in Addrs, Sweep(t, a)
  PROVE  FutexInv'
<1> USE AddrsPositive, ValsNatural, NobodyIsNoThread, MainIsThread
    DEF FutexInv, Sweep, vars, slotVars, countVars, callVars, signalVars, groupVars, Goto, Return,
        Notify, Idle, Interrupted
<1>1. TypeOK'
  BY DEF TypeOK, Pcs, WaitPcs, Counts, NoAddr, NoVal, Sleepers
<1>2. ArgsOK'
  BY DEF TypeOK, ArgsOK, WithAddr, WaitPcs, NoAddr, Sleepers
<1>3. MutexOK'
  BY DEF TypeOK, ArgsOK, WithAddr, WaitPcs, MutexOK, Holds, FirstLock, TwoSlots, NoAddr,
      Sleepers
<1>4. PublishedOK'
  BY DEF TypeOK, PublishedOK, ArgsOK, WithAddr, WaitPcs, NoAddr, Sleepers
<1>5. StopOK'
  BY DEF TypeOK, StopOK, Gone, Sleepers
<1>6. CountsAccounted'
  <2>1. ASSUME NEW c \in Addrs PROVE Counted(c)' = Counted(c)
    BY DEF TypeOK, Counted, Sleepers
  <2> QED
    BY <2>1, SameCount
<1>7. NoSleeperMissed'
  BY DEF TypeOK, NoSleeperMissed, WakeOwed, StopOK, Gone, ArgsOK, WithAddr, WaitPcs,
      MutexOK, Holds, Sleepers
<1>8. NoSignalMissed'
  BY DEF TypeOK, NoSignalMissed, KickOwed, PublishedOK, ArgsOK, WithAddr, WaitPcs, MutexOK,
      Holds, NoAddr, Sleepers
<1> QED
  BY <1>1, <1>2, <1>3, <1>4, <1>5, <1>6, <1>7, <1>8

\* wake_all_futexes is done.
LEMMA SweepDoneStep ==
  ASSUME FutexInv, NEW t \in Threads, SweepDone(t)
  PROVE  FutexInv'
<1> USE AddrsPositive, ValsNatural, NobodyIsNoThread, MainIsThread
    DEF FutexInv, SweepDone, vars, slotVars, countVars, callVars, signalVars, groupVars, Goto, Return,
        Notify, Idle, Interrupted
<1>1. TypeOK'
  BY DEF TypeOK, Pcs, WaitPcs, Counts, NoAddr, NoVal
<1>2. ArgsOK'
  BY DEF TypeOK, ArgsOK, WithAddr, WaitPcs, NoAddr
<1>3. MutexOK'
  BY DEF TypeOK, ArgsOK, WithAddr, WaitPcs, MutexOK, Holds, FirstLock, TwoSlots, NoAddr
<1>4. PublishedOK'
  BY DEF TypeOK, PublishedOK, ArgsOK, WithAddr, WaitPcs, NoAddr
<1>5. StopOK'
  BY DEF TypeOK, StopOK, Gone
<1>6. CountsAccounted'
  BY DEF TypeOK, CountsAccounted, Counted, ArgsOK, WithAddr, WaitPcs
<1>7. NoSleeperMissed'
  BY DEF TypeOK, NoSleeperMissed, WakeOwed, StopOK, Gone, ArgsOK, WithAddr, WaitPcs,
      MutexOK, Holds
<1>8. NoSignalMissed'
  BY DEF TypeOK, NoSignalMissed, KickOwed, PublishedOK, ArgsOK, WithAddr, WaitPcs, MutexOK,
      Holds, NoAddr
<1> QED
  BY <1>1, <1>2, <1>3, <1>4, <1>5, <1>6, <1>7, <1>8

\* The main thread has joined the others.
LEMMA MainJoinedStep ==
  ASSUME FutexInv, MainJoined
  PROVE  FutexInv'
<1> USE AddrsPositive, ValsNatural, NobodyIsNoThread, MainIsThread
    DEF FutexInv, MainJoined, vars, slotVars, countVars, callVars, signalVars, groupVars, Goto, Return,
        Notify, Idle, Interrupted
<1>1. TypeOK'
  BY DEF TypeOK, Pcs, WaitPcs, Counts, NoAddr, NoVal
<1>2. ArgsOK'
  BY DEF TypeOK, ArgsOK, WithAddr, WaitPcs, NoAddr
<1>3. MutexOK'
  BY DEF TypeOK, ArgsOK, WithAddr, WaitPcs, MutexOK, Holds, FirstLock, TwoSlots, NoAddr
<1>4. PublishedOK'
  BY DEF TypeOK, PublishedOK, ArgsOK, WithAddr, WaitPcs, NoAddr
<1>5. StopOK'
  BY DEF TypeOK, StopOK, Gone
<1>6. CountsAccounted'
  BY DEF TypeOK, CountsAccounted, Counted, ArgsOK, WithAddr, WaitPcs
<1>7. NoSleeperMissed'
  BY DEF TypeOK, NoSleeperMissed, WakeOwed, StopOK, Gone, ArgsOK, WithAddr, WaitPcs,
      MutexOK, Holds
<1>8. NoSignalMissed'
  BY DEF TypeOK, NoSignalMissed, KickOwed, PublishedOK, ArgsOK, WithAddr, WaitPcs, MutexOK,
      Holds, NoAddr
<1> QED
  BY <1>1, <1>2, <1>3, <1>4, <1>5, <1>6, <1>7, <1>8

\* fork, in the child.
LEMMA ForkStep ==
  ASSUME FutexInv, NEW t \in Threads, Fork(t)
  PROVE  FutexInv'
<1> USE AddrsPositive, ValsNatural, NobodyIsNoThread, MainIsThread
    DEF FutexInv, Fork, vars, slotVars, countVars, callVars, signalVars, groupVars, Goto, Return,
        Notify, Idle, Interrupted
<1>1. TypeOK'
  BY DEF TypeOK, Pcs, WaitPcs, Counts, NoAddr, NoVal
<1>2. ArgsOK'
  BY DEF TypeOK, ArgsOK, WithAddr, WaitPcs, NoAddr
<1>3. MutexOK'
  BY DEF TypeOK, ArgsOK, WithAddr, WaitPcs, MutexOK, Holds, FirstLock, TwoSlots, NoAddr
<1>4. PublishedOK'
  BY DEF TypeOK, PublishedOK, ArgsOK, WithAddr, WaitPcs, NoAddr
<1>5. StopOK'
  BY DEF TypeOK, StopOK, Gone
<1>6. CountsAccounted'
  <2>1. ASSUME NEW c \in Addrs PROVE waiters'[c] = 0 /\ leaked'[c] = 0 /\ Counted(c)' = {}
    BY DEF TypeOK, Counted
  <2>2. Cardinality({}) = 0
    BY FS_EmptySet
  <2> HIDE DEF Fork, FutexInv
  <2> QED
    BY <2>1, <2>2 DEF CountsAccounted
<1>7. NoSleeperMissed'
  BY DEF TypeOK, NoSleeperMissed, WakeOwed, StopOK, Gone, ArgsOK, WithAddr, WaitPcs,
      MutexOK, Holds
<1>8. NoSignalMissed'
  BY DEF TypeOK, NoSignalMissed, KickOwed, PublishedOK, ArgsOK, WithAddr, WaitPcs, MutexOK,
      Holds, NoAddr
<1> QED
  BY <1>1, <1>2, <1>3, <1>4, <1>5, <1>6, <1>7, <1>8

\* A fork child ends.
LEMMA ChildExitStep ==
  ASSUME FutexInv, NEW t \in Threads, ChildExit(t)
  PROVE  FutexInv'
<1> USE AddrsPositive, ValsNatural, NobodyIsNoThread, MainIsThread
    DEF FutexInv, ChildExit, vars, slotVars, countVars, callVars, signalVars, groupVars, Goto, Return,
        Notify, Idle, Interrupted
<1>1. TypeOK'
  BY DEF TypeOK, Pcs, WaitPcs, Counts, NoAddr, NoVal
<1>2. ArgsOK'
  BY DEF TypeOK, ArgsOK, WithAddr, WaitPcs, NoAddr
<1>3. MutexOK'
  BY DEF TypeOK, ArgsOK, WithAddr, WaitPcs, MutexOK, Holds, FirstLock, TwoSlots, NoAddr
<1>4. PublishedOK'
  BY DEF TypeOK, PublishedOK, ArgsOK, WithAddr, WaitPcs, NoAddr
<1>5. StopOK'
  BY DEF TypeOK, StopOK, Gone
<1>6. CountsAccounted'
  <2>1. ASSUME NEW c \in Addrs PROVE waiters'[c] = 0 /\ leaked'[c] = 0 /\ Counted(c)' = {}
    BY DEF TypeOK, Counted
  <2>2. Cardinality({}) = 0
    BY FS_EmptySet
  <2> HIDE DEF ChildExit, FutexInv
  <2> QED
    BY <2>1, <2>2 DEF CountsAccounted
<1>7. NoSleeperMissed'
  BY DEF TypeOK, NoSleeperMissed, WakeOwed, StopOK, Gone, ArgsOK, WithAddr, WaitPcs,
      MutexOK, Holds
<1>8. NoSignalMissed'
  BY DEF TypeOK, NoSignalMissed, KickOwed, PublishedOK, ArgsOK, WithAddr, WaitPcs, MutexOK,
      Holds, NoAddr
<1> QED
  BY <1>1, <1>2, <1>3, <1>4, <1>5, <1>6, <1>7, <1>8
(***************************************************************************)
(* The theorems                                                            *)
(***************************************************************************)
\* The invariant holds when the emulator starts.
LEMMA FutexInvInit ==
  ASSUME Init
  PROVE  FutexInv
<1> USE AddrsPositive, ValsNatural, NobodyIsNoThread, MainIsThread DEF Init
<1>1. TypeOK
  <2>1. running \in [Threads -> BOOLEAN]
    BY Zenon
  <2>2. at \in [Threads -> Pcs]
    BY DEF Pcs
  <2>3. pending \in [Threads -> BOOLEAN] /\ blocked \in [Threads -> BOOLEAN]
    BY Zenon
  <2>4. /\ waiters \in [Addrs -> Int]
        /\ leaked \in [Addrs -> Nat]
        /\ mu \in [Addrs -> Threads \cup {Nobody}]
        /\ todo \in [Threads -> SUBSET Addrs]
        /\ peer \in [Threads -> Threads]
    OBVIOUS
  <2>5. /\ uaddr \in [Threads -> Addrs \cup {NoAddr}]
        /\ uaddr2 \in [Threads -> Addrs \cup {NoAddr}]
        /\ waitaddr \in [Threads -> Addrs \cup {NoAddr}]
        /\ val \in [Threads -> Vals \cup {NoVal}]
    OBVIOUS
  <2>6. alive \in Int
    OBVIOUS
  <2>7. word \in [Addrs -> Vals] /\ leaving \in BOOLEAN /\ forked \in BOOLEAN
    BY Zenon
  <2> HIDE DEF Init
  <2> QED
    BY <2>1, <2>2, <2>3, <2>4, <2>5, <2>6, <2>7 DEF TypeOK
<1>2. ArgsOK /\ MutexOK /\ PublishedOK /\ StopOK
  BY DEF ArgsOK, WithAddr, WaitPcs, MutexOK, Holds, PublishedOK, StopOK, Gone
<1>3. CountsAccounted
  <2>1. ASSUME NEW a \in Addrs PROVE Counted(a) = {}
    BY DEF Counted
  <2> QED
    BY <2>1, FS_EmptySet DEF CountsAccounted
<1>4. NoSleeperMissed /\ NoSignalMissed
  BY DEF NoSleeperMissed, NoSignalMissed
<1> QED
  BY <1>1, <1>2, <1>3, <1>4 DEF FutexInv

\* Every step keeps the invariant: one case for each group of actions.
LEMMA FutexInvStep ==
  ASSUME FutexInv, [Next]_vars
  PROVE  FutexInv'
<1>1. CASE UNCHANGED vars
  BY <1>1 DEF FutexInv, vars, slotVars, countVars, callVars, signalVars, groupVars,
    TypeOK, ArgsOK, MutexOK, Holds, FirstLock, TwoSlots, PublishedOK, StopOK,
    CountsAccounted, Counted, NoSleeperMissed, WakeOwed, NoSignalMissed, KickOwed, Interrupted
<1>2. ASSUME NEW t \in Threads, NEW a \in Addrs, NEW v \in Vals, WaitLoad(t, a, v) PROVE
    FutexInv'
  BY <1>2, WaitLoadStep
<1>3. ASSUME NEW t \in Threads, Wait(t) PROVE FutexInv'
  BY <1>3, WaitLockStep, WaitRecheckStep, WaitPublishStep, WaitCheckStep, WaitSleepStep,
     WaitFaultStep, WaitExpiredStep, TimeoutStep, WaitReturnStep DEF Wait
<1>4. ASSUME NEW t \in Threads, Wake(t) PROVE FutexInv'
  BY <1>4, FutexWakeStep, GuestStoreStep, WakeStoredStep DEF Wake
<1>5. ASSUME NEW t \in Threads, Move(t) PROVE FutexInv'
  BY <1>5, RequeueStep, RequeueLockStep, RequeueMoveStep DEF Move
<1>6. ASSUME NEW t \in Threads, Signal(t) PROVE FutexInv'
  BY <1>6, SignalPushStep, SignalMaskStep, KickLoadStep, KickNotifyStep, DrainStep, SetMaskStep
  DEF Signal
<1>7. ASSUME NEW t \in Threads, Leave(t) PROVE FutexInv'
  BY <1>7, ExitStep, ExitStoreStep, ExitNotifyStep, ExitDoneStep, StopStep, SweepStep,
     SweepDoneStep DEF Leave, GroupExit, Idle
<1>8. ASSUME NEW t \in Threads, NEW u \in Threads, Spawn(t, u) PROVE FutexInv'
  BY <1>8, SpawnStep
<1>9. ASSUME NEW t \in Threads, Fork(t) \/ ChildExit(t) PROVE FutexInv'
  BY <1>9, ForkStep, ChildExitStep
<1>10. CASE MainKill \/ MainStop
  BY <1>10, StopStep, MainIsThread DEF MainKill, MainStop
<1>11. CASE MainExit \/ MainJoined
  BY <1>11, MainExitStep, MainJoinedStep
<1> QED
  BY <1>1, <1>2, <1>3, <1>4, <1>5, <1>6, <1>7, <1>8, <1>9, <1>10, <1>11 DEF Next

\* The invariant holds in every reachable state.
LEMMA FutexInvariant == Spec => []FutexInv
<1>1. Init => FutexInv
  BY FutexInvInit
<1>2. FutexInv /\ [Next]_vars => FutexInv'
  BY FutexInvStep
<1> QED
  BY <1>1, <1>2, PTL DEF Spec

\* Futex calls, signals, exits and forks keep every field within its type.
THEOREM TypeCorrect == Spec => []TypeOK
<1>1. FutexInv => TypeOK
  BY DEF FutexInv
<1> QED
  BY <1>1, FutexInvariant, PTL

\* FutexSlot::waiters is the number of threads inside their wait and of the
\* waits that threw on their timeout since the slot was made: no wakeup,
\* timeout, signal, requeue or fork makes it lower, nothing else makes it higher.
THEOREM WaitersCounted == Spec => []CountsAccounted
<1>1. FutexInv => CountsAccounted
  BY DEF FutexInv
<1> QED
  BY <1>1, FutexInvariant, PTL

\* No thread sleeps on a word that has lost its value while nobody is about
\* to notify the slot: the recheck under the slot lock closes the race
\* between FUTEX_WAIT and a store followed by FUTEX_WAKE.
THEOREM NoLostWakeup == Spec => []NoSleeperMissed
<1>1. FutexInv => NoSleeperMissed
  BY DEF FutexInv
<1> QED
  BY <1>1, FutexInvariant, PTL

\* No thread sleeps on an unblocked signal while no sender is about to
\* notify it: publishing the wait address before the last look at the
\* signals closes the race between FUTEX_WAIT and kick_cpu_wait.
THEOREM NoLostSignal == Spec => []NoSignalMissed
<1>1. FutexInv => NoSignalMissed
  BY DEF FutexInv
<1> QED
  BY <1>1, FutexInvariant, PTL

\* FUTEX_WAKE reaches n sleepers, or all of them.
THEOREM WakeReaches == Spec => []WakesEnough
<1>1. FutexInv => WakesEnough
  <2> SUFFICES ASSUME FutexInv, NEW a \in Addrs, NEW n \in Counts, NEW S \in Chosen(a, n)
               PROVE  S = Sleepers(a) \/ Cardinality(S) >= n
    BY DEF WakesEnough
  <2>1. CASE waiters[a] = 0
    BY <2>1, NoneCounted DEF FutexInv, Chosen
  <2>2. CASE waiters[a] # 0 /\ n >= waiters[a]
    BY <2>2 DEF Chosen
  <2>3. CASE waiters[a] # 0 /\ ~(n >= waiters[a])
    <3>1. S = Sleepers(a) \/ Cardinality(S) = n
      BY <2>3 DEF Chosen
    <3>2. n \in Int
      BY CountedFinite DEF Counts
    <3> QED
      BY <3>1, <3>2
  <2> QED
    BY <2>1, <2>2, <2>3
<1> QED
  BY <1>1, FutexInvariant, PTL

\* Requeues in opposite directions cannot wait for each other's slot.
THEOREM LocksOrdered == Spec => []NoLockCycle
<1>1. ASSUME FutexInv, NEW t \in Threads, Awaits(t) # NoAddr
      PROVE  /\ at[t] = "requeue2"
             /\ Awaits(t) = SecondLock(t)
             /\ FirstLock(t) < SecondLock(t)
             /\ FirstLock(t) \in Int /\ SecondLock(t) \in Int
             /\ SecondLock(t) \in Addrs
  <2>1. at[t] = "requeue2" /\ TwoSlots(t) /\ Awaits(t) = SecondLock(t)
    BY <1>1 DEF Awaits
  <2>2. uaddr[t] \in Addrs /\ uaddr2[t] \in Addrs /\ uaddr[t] # uaddr2[t]
    BY <1>1, <2>1 DEF FutexInv, TypeOK, ArgsOK, WithAddr, TwoSlots
  <2>3. uaddr[t] \in Int /\ uaddr2[t] \in Int
    BY <2>2, AddrsPositive
  <2> QED
    BY <2>1, <2>2, <2>3 DEF FirstLock, SecondLock
<1>2. ASSUME FutexInv, NEW t \in Threads, NEW u \in Threads, Awaits(t) # NoAddr,
             Awaits(u) # NoAddr, mu[Awaits(t)] = u
      PROVE  SecondLock(t) = FirstLock(u)
  <2>1. Holds(u, SecondLock(t)) /\ at[u] = "requeue2"
    BY <1>1, <1>2 DEF FutexInv, MutexOK
  <2> QED
    BY <2>1 DEF Holds
<1>3. FutexInv => NoLockCycle
  <2> SUFFICES ASSUME FutexInv, NEW t \in Threads, NEW u \in Threads,
                      Awaits(t) # NoAddr, Awaits(u) # NoAddr,
                      mu[Awaits(t)] = u, mu[Awaits(u)] = t
               PROVE  FALSE
    BY DEF NoLockCycle
  <2>1. SecondLock(t) = FirstLock(u) /\ SecondLock(u) = FirstLock(t)
    BY <1>2
  <2>2. FirstLock(t) < SecondLock(t) /\ FirstLock(u) < SecondLock(u)
    BY <1>1
  <2>3. FirstLock(t) \in Int /\ FirstLock(u) \in Int
    BY <1>1
  <2> QED
    BY <2>1, <2>2, <2>3
<1> QED
  BY <1>3, FutexInvariant, PTL
=============================================================================
