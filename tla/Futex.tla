------------------------------- MODULE Futex -------------------------------
(***************************************************************************)
(* The private futexes of the emulated kernel: futex(2) on a table of      *)
(* slots, one (mutex, condition variable, waiter count) per guest address  *)
(* (System/Syscalls/Process/Threads.cpp, System/Core/Emulator.hpp), and    *)
(* everything else that notifies those condition variables: a signal sent  *)
(* to a sleeper, the exit of a thread, the end of the thread group, and    *)
(* fork, which gives the child an empty table (System/Core/Threads.cpp).   *)
(*                                                                         *)
(* A step is one access to state that other threads reach without the slot *)
(* mutex (the guest word, the published wait address, the pending signals),*)
(* or a whole critical section of the slot mutex.  Return values are not   *)
(* recorded: a call that fails before it changes anything is no step; one  *)
(* that fails later (a guest pointer that cannot be loaded) is.            *)
(*                                                                         *)
(* Guest programs are the environment.  They follow the futex discipline:  *)
(* a thread that stores a new value in a word next wakes all its waiters.  *)
(***************************************************************************)
EXTENDS Integers, FiniteSets

CONSTANTS
  Threads,  \* the guest threads (vCPUs); each is a host thread
  Main,     \* the thread that runs Emulator::run
  Addrs,    \* the futex words, as numbers: REQUEUE locks slots in address order
  Vals,     \* what a word can hold
  Forks,    \* whether the guest calls fork
  MaxFaults \* bound on leaked: how many waits may throw on each slot

ASSUME MainIsThread == Main \in Threads
ASSUME ThreadsFinite == IsFiniteSet(Threads)
ASSUME AddrsPositive == Addrs \subseteq Nat \ {0}
ASSUME ValsNatural == Vals \subseteq Nat
ASSUME ForksBoolean == Forks \in BOOLEAN
ASSUME MaxFaultsNatural == MaxFaults \in [Addrs -> Nat]

\* UINT64_MAX in futex_wait_address: no active wait.  Also a null uaddr2.
NoAddr == 0
NoVal == -1
Nobody == "nobody"

ASSUME NobodyIsNoThread == Nobody \notin Threads

VARIABLES
  word,      \* the guest words
  mu,        \* who holds a slot's mutex
  waiters,   \* FutexSlot::waiters
  leaked,    \* history: the slot's waits that threw between waiters++ and waiters--
  at,        \* what each thread is doing
  uaddr,     \* the address its operation is about
  uaddr2,    \* the second address of its REQUEUE
  val,       \* the value its WAIT expects
  peer,      \* the thread it is sending a signal to
  todo,      \* the slots its exit or its sweep has still to notify
  waitaddr,  \* CPU::futex_wait_address
  pending,   \* CPU::pending_queue holds a signal
  blocked,   \* CPU::sigmask blocks that signal
  running,   \* CPU::running
  alive,     \* Emulator::alive_threads_
  leaving,   \* Emulator::group_exit_, or exit_group in the main thread
  forked     \* Emulator::host_fork_child_

countVars == <<waiters, leaked>>
slotVars == <<mu, countVars>>
callVars == <<uaddr, uaddr2, val, peer, todo>>
signalVars == <<waitaddr, pending, blocked>>
groupVars == <<running, alive, leaving, forked>>
vars == <<word, slotVars, at, callVars, signalVars, groupVars>>

\* unborn, dead, over: no host thread.  user: in guest code or in a call
\* that leaves the futexes alone.  lock .. woken: inside FUTEX_WAIT, in
\* this order.  stored: the guest has changed a word and will now wake it.
WaitPcs == {"lock", "recheck", "publish", "check", "enqueue", "asleep", "woken"}
Pcs == WaitPcs \cup
  {"unborn", "user", "stored", "requeue", "requeue2", "mask", "kick", "notify",
   "exit", "exitnotify", "sweep", "poll", "join", "dead", "over"}

Gone == {"unborn", "dead", "over"}

\* The state has the shape its C++ declarations give it.
TypeOK ==
  /\ word \in [Addrs -> Vals]
  /\ mu \in [Addrs -> Threads \cup {Nobody}]
  /\ waiters \in [Addrs -> Int]
  /\ leaked \in [Addrs -> Nat]
  /\ at \in [Threads -> Pcs]
  /\ uaddr \in [Threads -> Addrs \cup {NoAddr}]
  /\ uaddr2 \in [Threads -> Addrs \cup {NoAddr}]
  /\ val \in [Threads -> Vals \cup {NoVal}]
  /\ peer \in [Threads -> Threads]
  /\ todo \in [Threads -> SUBSET Addrs]
  /\ waitaddr \in [Threads -> Addrs \cup {NoAddr}]
  /\ pending \in [Threads -> BOOLEAN]
  /\ blocked \in [Threads -> BOOLEAN]
  /\ running \in [Threads -> BOOLEAN]
  /\ alive \in Int
  /\ leaving \in BOOLEAN
  /\ forked \in BOOLEAN

Init ==
  /\ word \in [Addrs -> Vals]
  /\ mu = [a \in Addrs |-> Nobody]
  /\ waiters = [a \in Addrs |-> 0]
  /\ leaked = [a \in Addrs |-> 0]
  /\ at = [t \in Threads |-> IF t = Main THEN "user" ELSE "unborn"]
  /\ uaddr = [t \in Threads |-> NoAddr]
  /\ uaddr2 = [t \in Threads |-> NoAddr]
  /\ val = [t \in Threads |-> NoVal]
  /\ peer = [t \in Threads |-> t]
  /\ todo = [t \in Threads |-> {}]
  /\ waitaddr = [t \in Threads |-> NoAddr]
  /\ pending = [t \in Threads |-> FALSE]
  /\ blocked = [t \in Threads |-> FALSE]
  /\ running = [t \in Threads |-> t = Main]
  /\ alive = 0
  /\ leaving = FALSE
  /\ forked = FALSE
-----------------------------------------------------------------------------
(***************************************************************************)
(* Helpers                                                                 *)
(***************************************************************************)
\* CPU::has_unblocked_pending_signals.
Interrupted(t) == pending[t] /\ ~blocked[t]

\* A thread that may enter a system call: Emulator::syscall first drains the
\* signals that are pending and then returns if the thread was stopped.
Idle(t) == at[t] = "user" /\ running[t] /\ ~Interrupted(t)

Goto(t, from, to) == at[t] = from /\ at' = [at EXCEPT ![t] = to]

\* t's call is over; its arguments are forgotten.
Return(t) ==
  /\ uaddr' = [uaddr EXCEPT ![t] = NoAddr]
  /\ uaddr2' = [uaddr2 EXCEPT ![t] = NoAddr]
  /\ val' = [val EXCEPT ![t] = NoVal]
  /\ peer' = [peer EXCEPT ![t] = t]

\* The threads inside the slot's condition variable, and those it counts.
Sleepers(a) == {u \in Threads : at[u] = "asleep" /\ uaddr[u] = a}
Counted(a) == {u \in Threads : at[u] \in {"asleep", "woken"} /\ uaddr[u] = a}

\* t goes to `to` and the members of S leave their condition variable.
Notify(S, t, to) ==
  at' = [u \in Threads |-> IF u = t THEN to ELSE IF u \in S THEN "woken" ELSE at[u]]

\* Whom the notifications of a WAKE of n can reach: nobody when the slot
\* counts no waiter, everybody when it counts at most n, else n of them
\* (notify_one picks; it finds fewer if some are on their way out).
Chosen(a, n) ==
  IF waiters[a] = 0 THEN {{}}
  ELSE IF n >= waiters[a] THEN {Sleepers(a)}
  ELSE {S \in SUBSET Sleepers(a) :
          \/ Cardinality(S) = n
          \/ S = Sleepers(a) /\ Cardinality(S) < n}

Counts == 0..Cardinality(Threads)
-----------------------------------------------------------------------------
(***************************************************************************)
(* FUTEX_WAIT                                                              *)
(***************************************************************************)
\* The word still holds the expected value and another thread is alive to
\* wake this one (otherwise the call returns at once).
WaitLoad(t, a, v) ==
  /\ Idle(t)
  /\ word[a] = v
  /\ alive # 0
  /\ at' = [at EXCEPT ![t] = "lock"]
  /\ uaddr' = [uaddr EXCEPT ![t] = a]
  /\ val' = [val EXCEPT ![t] = v]
  /\ UNCHANGED <<word, slotVars, uaddr2, peer, todo, signalVars, groupVars>>

WaitLock(t) ==
  /\ Goto(t, "lock", "recheck")
  /\ mu[uaddr[t]] = Nobody
  /\ mu' = [mu EXCEPT ![uaddr[t]] = t]
  /\ UNCHANGED <<word, countVars, callVars, signalVars, groupVars>>

\* A bug this code had to avoid: trusting the load made before the lock.
WaitRecheckSkipped(t) ==
  /\ Goto(t, "recheck", "publish")
  /\ UNCHANGED <<word, slotVars, callVars, signalVars, groupVars>>

\* Under the slot lock: load the word again; EAGAIN if it has changed, EFAULT
\* if its page has gone in the meantime.
WaitRecheck(t) ==
  /\ at[t] = "recheck"
  /\ \/ /\ word[uaddr[t]] = val[t]
        /\ at' = [at EXCEPT ![t] = "publish"]
        /\ UNCHANGED <<mu, callVars>>
     \/ /\ at' = [at EXCEPT ![t] = "user"]
        /\ mu' = [mu EXCEPT ![uaddr[t]] = Nobody]
        /\ Return(t)
        /\ UNCHANGED todo
  /\ UNCHANGED <<word, countVars, signalVars, groupVars>>

\* A bug this code had to avoid: waiting without publishing the address.
WaitPublishNothing(t) ==
  /\ Goto(t, "publish", "check")
  /\ UNCHANGED <<word, slotVars, callVars, signalVars, groupVars>>

\* The address kick_cpu_wait will notify, published under the slot lock.
WaitPublish(t) ==
  /\ Goto(t, "publish", "check")
  /\ waitaddr' = [waitaddr EXCEPT ![t] = uaddr[t]]
  /\ UNCHANGED <<word, slotVars, callVars, pending, blocked, groupVars>>

\* A bug this code had to avoid: looking for a signal too early.
WaitCheckSkipped(t) ==
  /\ Goto(t, "check", "enqueue")
  /\ UNCHANGED <<word, slotVars, callVars, signalVars, groupVars>>

\* A signal that is already pending ends the wait with EINTR.
WaitCheck(t) ==
  /\ at[t] = "check"
  /\ \/ /\ Interrupted(t)
        /\ at' = [at EXCEPT ![t] = "user"]
        /\ mu' = [mu EXCEPT ![uaddr[t]] = Nobody]
        /\ waitaddr' = [waitaddr EXCEPT ![t] = NoAddr]
        /\ Return(t)
        /\ UNCHANGED todo
     \/ /\ ~Interrupted(t)
        /\ at' = [at EXCEPT ![t] = "enqueue"]
        /\ UNCHANGED <<mu, waitaddr, callVars>>
  /\ UNCHANGED <<word, countVars, pending, blocked, groupVars>>

\* A bug this code had to avoid: a sleeper the slot does not count.
WaitSleepUncounted(t) ==
  /\ Goto(t, "enqueue", "asleep")
  /\ mu' = [mu EXCEPT ![uaddr[t]] = Nobody]
  /\ UNCHANGED <<word, countVars, callVars, signalVars, groupVars>>

\* waiters++ and cv.wait, which releases the mutex as it falls asleep.
WaitSleep(t) ==
  /\ Goto(t, "enqueue", "asleep")
  /\ waiters' = [waiters EXCEPT ![uaddr[t]] = @ + 1]
  /\ mu' = [mu EXCEPT ![uaddr[t]] = Nobody]
  /\ UNCHANGED <<word, leaked, callVars, signalVars, groupVars>>

\* The timeout cannot be loaded from guest memory: the load throws after
\* waiters++, unwinding withdraws the address and unlocks, and the call
\* returns EFAULT.  Nothing undoes the waiters++.
WaitFault(t) ==
  /\ Goto(t, "enqueue", "user")
  /\ leaked[uaddr[t]] < MaxFaults[uaddr[t]]
  /\ waiters' = [waiters EXCEPT ![uaddr[t]] = @ + 1]
  /\ leaked' = [leaked EXCEPT ![uaddr[t]] = @ + 1]
  /\ mu' = [mu EXCEPT ![uaddr[t]] = Nobody]
  /\ waitaddr' = [waitaddr EXCEPT ![t] = NoAddr]
  /\ Return(t)
  /\ UNCHANGED <<word, todo, pending, blocked, groupVars>>

\* The absolute deadline has passed: waiters++, waiters-- and return.
WaitExpired(t) ==
  /\ Goto(t, "enqueue", "user")
  /\ mu' = [mu EXCEPT ![uaddr[t]] = Nobody]
  /\ waitaddr' = [waitaddr EXCEPT ![t] = NoAddr]
  /\ Return(t)
  /\ UNCHANGED <<word, countVars, todo, pending, blocked, groupVars>>

\* The deadline passes during the sleep, or the wakeup is spurious.  A wait
\* without a timeout is one whose deadline never comes.
Timeout(t) ==
  /\ Goto(t, "asleep", "woken")
  /\ UNCHANGED <<word, slotVars, callVars, signalVars, groupVars>>

\* cv.wait has the mutex again: waiters--, the address is withdrawn, the
\* mutex released.  A pending signal makes the result EINTR; Drain delivers it.
WaitReturn(t) ==
  /\ Goto(t, "woken", "user")
  /\ mu[uaddr[t]] = Nobody
  /\ waiters' = [waiters EXCEPT ![uaddr[t]] = @ - 1]
  /\ waitaddr' = [waitaddr EXCEPT ![t] = NoAddr]
  /\ Return(t)
  /\ UNCHANGED <<word, mu, leaked, todo, pending, blocked, groupVars>>
-----------------------------------------------------------------------------
(***************************************************************************)
(* FUTEX_WAKE, FUTEX_REQUEUE, FUTEX_CMP_REQUEUE                            *)
(***************************************************************************)
\* The guest stores a new value; waking every waiter is its next call.
GuestStore(t, a, v) ==
  /\ Goto(t, "user", "stored")
  /\ running[t]
  /\ v # word[a]
  /\ word' = [word EXCEPT ![a] = v]
  /\ uaddr' = [uaddr EXCEPT ![t] = a]
  /\ UNCHANGED <<slotVars, uaddr2, val, peer, todo, signalVars, groupVars>>

\* FUTEX_WAKE(INT_MAX) after a store: notify_all, unless nobody is counted.
WakeStored(t) ==
  /\ at[t] = "stored"
  /\ running[t]
  /\ mu[uaddr[t]] = Nobody
  /\ Notify(IF waiters[uaddr[t]] # 0 THEN Sleepers(uaddr[t]) ELSE {}, t, "user")
  /\ Return(t)
  /\ UNCHANGED <<word, slotVars, todo, signalVars, groupVars>>

\* FUTEX_WAKE of n waiters.
FutexWake(t, a, n) ==
  /\ Idle(t)
  /\ mu[a] = Nobody
  /\ \E S \in Chosen(a, n) : Notify(S, t, "user")
  /\ UNCHANGED <<word, slotVars, callVars, signalVars, groupVars>>

\* The arguments have been checked (CMP_REQUEUE compares the word, without a
\* lock; a mismatch is EAGAIN and no step).
Requeue(t, a, b) ==
  /\ Idle(t)
  /\ at' = [at EXCEPT ![t] = "requeue"]
  /\ uaddr' = [uaddr EXCEPT ![t] = a]
  /\ uaddr2' = [uaddr2 EXCEPT ![t] = b]
  /\ UNCHANGED <<word, slotVars, val, peer, todo, signalVars, groupVars>>

\* uaddr2 names a slot other than uaddr's.
TwoSlots(t) == uaddr2[t] \notin {NoAddr, uaddr[t]}

\* A bug this code had to avoid: uaddr's slot first, whatever the order.
FirstLockUnordered(t) == uaddr[t]

\* Slots are locked in address order.
FirstLock(t) ==
  IF TwoSlots(t) /\ uaddr2[t] < uaddr[t] THEN uaddr2[t] ELSE uaddr[t]
SecondLock(t) == IF FirstLock(t) = uaddr[t] THEN uaddr2[t] ELSE uaddr[t]

RequeueLock(t) ==
  /\ Goto(t, "requeue", "requeue2")
  /\ mu[FirstLock(t)] = Nobody
  /\ mu' = [mu EXCEPT ![FirstLock(t)] = t]
  /\ UNCHANGED <<word, countVars, callVars, signalVars, groupVars>>

\* With both locks: wake n waiters, then wake all the others if some are to
\* be requeued (they come back as from a spurious wakeup), unlock.
RequeueMove(t, n, m) ==
  LET a == uaddr[t]
      moves == uaddr2[t] # NoAddr /\ m > 0 /\ waiters[a] > 0
  IN  /\ at[t] = "requeue2"
      /\ TwoSlots(t) => mu[SecondLock(t)] = Nobody
      /\ \E S \in Chosen(a, n) :
           Notify(IF moves THEN Sleepers(a) ELSE S, t, "user")
      /\ mu' = [mu EXCEPT ![FirstLock(t)] = Nobody]
      /\ Return(t)
      /\ UNCHANGED <<word, countVars, todo, signalVars, groupVars>>
-----------------------------------------------------------------------------
(***************************************************************************)
(* Signals sent to another thread: tkill, tgkill, kill, POSIX timers       *)
(***************************************************************************)
\* push_pending on the target's queue, which never fills up here.
SignalPush(t, u) ==
  /\ Idle(t)
  /\ u # t
  /\ at[u] \notin Gone
  /\ pending' = [pending EXCEPT ![u] = TRUE]
  /\ at' = [at EXCEPT ![t] = "mask"]
  /\ peer' = [peer EXCEPT ![t] = u]
  /\ UNCHANGED <<word, slotVars, uaddr, uaddr2, val, todo, waitaddr, blocked, groupVars>>

\* Only a signal the target does not block now is worth a kick.
SignalMask(t) ==
  /\ \/ Goto(t, "mask", "user") /\ blocked[peer[t]] /\ Return(t)
     \/ Goto(t, "mask", "kick") /\ ~blocked[peer[t]] /\ UNCHANGED <<uaddr, uaddr2, val, peer>>
  /\ UNCHANGED <<word, slotVars, todo, signalVars, groupVars>>

\* kick_cpu_wait: the host signal ends a host call, not a condition wait;
\* then the target's published wait address is read.
KickLoad(t) ==
  /\ \/ Goto(t, "kick", "user") /\ waitaddr[peer[t]] = NoAddr /\ Return(t)
     \/ /\ Goto(t, "kick", "notify")
        /\ waitaddr[peer[t]] # NoAddr
        /\ uaddr' = [uaddr EXCEPT ![t] = waitaddr[peer[t]]]
        /\ UNCHANGED <<uaddr2, val, peer>>
  /\ UNCHANGED <<word, slotVars, todo, signalVars, groupVars>>

KickNotify(t) ==
  /\ at[t] = "notify"
  /\ mu[uaddr[t]] = Nobody
  /\ Notify(Sleepers(uaddr[t]), t, "user")
  /\ Return(t)
  /\ UNCHANGED <<word, slotVars, todo, signalVars, groupVars>>

\* The owner delivers its signal: at a call, at a block boundary, or after
\* a wait that returned EINTR.
Drain(t) ==
  /\ at[t] = "user"
  /\ Interrupted(t)
  /\ pending' = [pending EXCEPT ![t] = FALSE]
  /\ UNCHANGED <<word, slotVars, at, callVars, waitaddr, blocked, groupVars>>

\* rt_sigprocmask.
SetMask(t) ==
  /\ Idle(t)
  /\ blocked' = [blocked EXCEPT ![t] = ~@]
  /\ UNCHANGED <<word, slotVars, at, callVars, waitaddr, pending, groupVars>>
-----------------------------------------------------------------------------
(***************************************************************************)
(* The thread group                                                        *)
(***************************************************************************)
Spawn(t, u) ==
  /\ Idle(t)
  /\ u # Main
  /\ at[u] = "unborn"
  /\ at' = [at EXCEPT ![u] = "user"]
  /\ running' = [running EXCEPT ![u] = running[t]]
  /\ blocked' = [blocked EXCEPT ![u] = blocked[t]]
  /\ pending' = [pending EXCEPT ![u] = FALSE]
  /\ alive' = alive + 1
  /\ UNCHANGED <<word, slotVars, callVars, waitaddr, leaving, forked>>

\* exit(2), or the thread was stopped: it leaves the run loop of
\* thread_entry.  S: the robust words it still owns and clear_child_tid.
\* The last thread of a fork child ends the process instead.
Exit(t, S) ==
  /\ t # Main
  /\ \/ at[t] \in {"user", "stored"} /\ ~running[t]
     \/ Idle(t) /\ (forked => alive # 0)
  /\ at' = [at EXCEPT ![t] = "exit"]
  /\ todo' = [todo EXCEPT ![t] = S]
  /\ running' = [running EXCEPT ![t] = FALSE]
  /\ Return(t)
  /\ UNCHANGED <<word, slotVars, signalVars, alive, leaving, forked>>

\* OWNER_DIED into a robust word, or zero into clear_child_tid ...
ExitStore(t, a, v) ==
  /\ Goto(t, "exit", "exitnotify")
  /\ a \in todo[t]
  /\ word' = [word EXCEPT ![a] = v]
  /\ uaddr' = [uaddr EXCEPT ![t] = a]
  /\ UNCHANGED <<slotVars, uaddr2, val, peer, todo, signalVars, groupVars>>

\* ... and then notify_all under the slot lock.
ExitNotify(t) ==
  /\ at[t] = "exitnotify"
  /\ mu[uaddr[t]] = Nobody
  /\ Notify(Sleepers(uaddr[t]), t, "exit")
  /\ todo' = [todo EXCEPT ![t] = @ \ {uaddr[t]}]
  /\ Return(t)
  /\ UNCHANGED <<word, slotVars, signalVars, groupVars>>

ExitDone(t) ==
  /\ Goto(t, "exit", "dead")
  /\ todo[t] = {}
  /\ alive' = alive - 1
  /\ UNCHANGED <<word, slotVars, callVars, signalVars, running, leaving, forked>>

\* The threads of S are told to stop; then t visits every slot
\* (wake_all_futexes).
Stop(t, S) ==
  /\ leaving' = TRUE
  /\ running' = [u \in Threads |-> running[u] /\ u \notin S]
  /\ at' = [at EXCEPT ![t] = "sweep"]
  /\ todo' = [todo EXCEPT ![t] = Addrs]
  /\ Return(t)
  /\ UNCHANGED <<word, slotVars, signalVars, alive, forked>>

\* group_exit on a worker: exit_group, or a fatal signal.  It finds every
\* thread in threads_, unless join_threads has taken them out: then some of
\* them (those spawned since), and MainStop stops the others.
GroupExit(t) ==
  /\ t # Main
  /\ Idle(t)
  /\ ~leaving
  /\ \E S \in SUBSET Threads :
       /\ {t, Main} \subseteq S
       /\ at[Main] = "poll" \/ S = Threads
       /\ Stop(t, S)

\* The main thread calls exit_group (a fork child's is ChildExit), dies of a
\* signal, or leaves its run loop because it was stopped: kill_other_threads.
MainKill ==
  /\ at[Main] \in {"user", "stored"}
  /\ Idle(Main) \/ ~running[Main]
  /\ Stop(Main, Threads)

\* exit(2) on the main thread: join_threads polls for the others.
MainExit ==
  /\ Idle(Main)
  /\ forked => alive # 0
  /\ at' = [at EXCEPT ![Main] = "poll"]
  /\ running' = [running EXCEPT ![Main] = FALSE]
  /\ UNCHANGED <<word, slotVars, callVars, signalVars, alive, leaving, forked>>

\* join_threads sees a group exit: it stops the threads and sweeps once.
MainStop ==
  /\ at[Main] = "poll"
  /\ leaving
  /\ Stop(Main, Threads)

\* One slot of wake_all_futexes.
Sweep(t, a) ==
  /\ at[t] = "sweep"
  /\ a \in todo[t]
  /\ mu[a] = Nobody
  /\ Notify(IF waiters[a] > 0 THEN Sleepers(a) ELSE {}, t, "sweep")
  /\ todo' = [todo EXCEPT ![t] = @ \ {a}]
  /\ UNCHANGED <<word, slotVars, uaddr, uaddr2, val, peer, signalVars, groupVars>>

\* The main thread then joins the others; a worker goes back to its loop.
SweepDone(t) ==
  /\ Goto(t, "sweep", IF t = Main THEN "join" ELSE "user")
  /\ todo[t] = {}
  /\ UNCHANGED <<word, slotVars, callVars, signalVars, groupVars>>

\* The last join returns: the process ends.
MainJoined ==
  /\ at[Main] \in {"poll", "join"}
  /\ \A u \in Threads \ {Main} : at[u] \in Gone
  /\ at' = [at EXCEPT ![Main] = "over"]
  /\ UNCHANGED <<word, slotVars, callVars, signalVars, groupVars>>

\* A bug this code had to avoid: a child with the parent's slots.
ForkKeepsSlots(t) ==
  /\ Forks
  /\ Idle(t)
  /\ at' = [u \in Threads |-> IF u = t THEN "user" ELSE IF u = Main THEN "dead" ELSE "unborn"]
  /\ waitaddr' = [u \in Threads |-> NoAddr]
  /\ pending' = [u \in Threads |-> FALSE]
  /\ alive' = 0
  /\ forked' = TRUE
  /\ todo' = [u \in Threads |-> {}]
  /\ uaddr' = [u \in Threads |-> NoAddr]
  /\ uaddr2' = [u \in Threads |-> NoAddr]
  /\ val' = [u \in Threads |-> NoVal]
  /\ peer' = [u \in Threads |-> u]
  /\ running' = [u \in Threads |-> u = t]
  /\ leaked' = [a \in Addrs |-> 0]
  /\ UNCHANGED <<word, mu, waiters, blocked, leaving>>

\* fork, followed in the child: the caller is its only thread, the slots are
\* abandoned to the copy and fresh ones made on demand.
Fork(t) ==
  /\ Forks
  /\ Idle(t)
  /\ at' = [u \in Threads |-> IF u = t THEN "user" ELSE IF u = Main THEN "dead" ELSE "unborn"]
  /\ mu' = [a \in Addrs |-> Nobody]
  /\ waiters' = [a \in Addrs |-> 0]
  /\ leaked' = [a \in Addrs |-> 0]
  /\ waitaddr' = [u \in Threads |-> NoAddr]
  /\ pending' = [u \in Threads |-> FALSE]
  /\ alive' = 0
  /\ forked' = TRUE
  /\ todo' = [u \in Threads |-> {}]
  /\ uaddr' = [u \in Threads |-> NoAddr]
  /\ uaddr2' = [u \in Threads |-> NoAddr]
  /\ val' = [u \in Threads |-> NoVal]
  /\ peer' = [u \in Threads |-> u]
  /\ running' = [u \in Threads |-> u = t]
  /\ UNCHANGED <<word, blocked, leaving>>

\* exit_group in a fork child, or exit(2) of its only thread: _exit.
ChildExit(t) ==
  /\ forked
  /\ Idle(t)
  /\ at' = [u \in Threads |-> "over"]
  /\ mu' = [a \in Addrs |-> Nobody]
  /\ waiters' = [a \in Addrs |-> 0]
  /\ leaked' = [a \in Addrs |-> 0]
  /\ UNCHANGED <<word, callVars, signalVars, groupVars>>
-----------------------------------------------------------------------------
(***************************************************************************)
(* The specification                                                       *)
(***************************************************************************)
Wait(t) ==
  \/ WaitLock(t) \/ WaitRecheck(t) \/ WaitPublish(t) \/ WaitCheck(t)
  \/ WaitSleep(t) \/ WaitFault(t) \/ WaitExpired(t) \/ Timeout(t) \/ WaitReturn(t)

Wake(t) ==
  \/ \E a \in Addrs, n \in Counts : FutexWake(t, a, n)
  \/ \E a \in Addrs, v \in Vals : GuestStore(t, a, v)
  \/ WakeStored(t)

Move(t) ==
  \/ \E a \in Addrs, b \in Addrs \cup {NoAddr} : Requeue(t, a, b)
  \/ RequeueLock(t)
  \/ \E n, m \in Counts : RequeueMove(t, n, m)

Signal(t) ==
  \/ \E u \in Threads : SignalPush(t, u)
  \/ SignalMask(t) \/ KickLoad(t) \/ KickNotify(t) \/ Drain(t) \/ SetMask(t)

Leave(t) ==
  \/ \E S \in SUBSET Addrs : Exit(t, S)
  \/ \E a \in Addrs, v \in Vals : ExitStore(t, a, v)
  \/ ExitNotify(t) \/ ExitDone(t) \/ GroupExit(t) \/ SweepDone(t)
  \/ \E a \in Addrs : Sweep(t, a)

Next ==
  \/ \E t \in Threads :
       \/ \E a \in Addrs, v \in Vals : WaitLoad(t, a, v)
       \/ Wait(t) \/ Wake(t) \/ Move(t) \/ Signal(t) \/ Leave(t)
       \/ \E u \in Threads : Spawn(t, u)
       \/ Fork(t) \/ ChildExit(t)
  \/ MainKill \/ MainExit \/ MainStop \/ MainJoined

Spec == Init /\ [][Next]_vars

\* What a host thread does on its own once it is inside a call, is stopped
\* or has a signal to deliver; and the steps that need a mutex somebody may
\* hold again and again.
Unlocked(t) ==
  \/ WaitRecheck(t) \/ WaitPublish(t) \/ WaitCheck(t) \/ WaitSleep(t)
  \/ SignalMask(t) \/ KickLoad(t) \/ Drain(t) \/ ExitDone(t) \/ SweepDone(t)
  \/ \E a \in Addrs, v \in Vals : ExitStore(t, a, v)
  \/ ~running[t] /\ \E S \in SUBSET Addrs : Exit(t, S)
Locking(t) ==
  \/ WaitLock(t) \/ WaitReturn(t) \/ WakeStored(t) \/ RequeueLock(t)
  \/ KickNotify(t) \/ ExitNotify(t)
  \/ \E n, m \in Counts : RequeueMove(t, n, m)
  \/ \E a \in Addrs : Sweep(t, a)
MainLoop == (~running[Main] /\ MainKill) \/ MainStop \/ MainJoined

Fairness ==
  /\ WF_vars(MainLoop)
  /\ \A t \in Threads : WF_vars(Unlocked(t)) /\ SF_vars(Locking(t))

FairSpec == Spec /\ Fairness
-----------------------------------------------------------------------------
(***************************************************************************)
(* Properties                                                              *)
(***************************************************************************)
\* A slot counts the threads between their waiters++ and their waiters--,
\* whichever of a wake, a timeout, a signal, a requeue or a fork got in between,
\* and the waits that threw on their timeout.  So the count is never too low,
\* which WAKE trusts when it skips its notification; it is too high by those
\* waits, until a fork or the end of the process drops the slot.
CountsAccounted == \A a \in Addrs : waiters[a] = Cardinality(Counted(a)) + leaked[a]

\* A FUTEX_WAKE of n, in whatever state it finds the slot, leaves nobody
\* asleep or wakes at least n sleepers: waiters that are counted but already
\* on their way out do not use up its notifications.
WakesEnough ==
  \A a \in Addrs, n \in Counts : \A S \in Chosen(a, n) :
    S = Sleepers(a) \/ Cardinality(S) >= n

\* Somebody has changed word a and has not yet notified its slot.
WakeOwed(a) ==
  \E u \in Threads : at[u] \in {"stored", "exitnotify"} /\ uaddr[u] = a

\* No lost wakeup: a thread does not sleep, nor goes on to sleep, on a word
\* that has lost the value it waits for, unless the thread that changed the
\* word is still to wake the slot (or the process is ending).
NoSleeperMissed ==
  \A t \in Threads :
    (at[t] \in {"publish", "check", "enqueue", "asleep"} /\ word[uaddr[t]] # val[t] /\ ~leaving)
      => WakeOwed(uaddr[t])

\* Some thread that queued a signal for t has still to notify t's slot.
KickOwed(t) ==
  \E s \in Threads :
    /\ peer[s] = t
    /\ \/ at[s] \in {"mask", "kick"}
       \/ at[s] = "notify" /\ uaddr[s] = uaddr[t]

\* No lost signal: a thread that passed its last look at the pending signals
\* sleeps on one only while a sender is still on its way to wake it.
NoSignalMissed ==
  \A t \in Threads :
    at[t] \in {"enqueue", "asleep"} /\ Interrupted(t) => KickOwed(t)

\* The slot mutex that a thread waits for inside another critical section.
Awaits(t) == IF at[t] = "requeue2" /\ TwoSlots(t) THEN SecondLock(t) ELSE NoAddr

\* Two REQUEUEs in opposite directions never hold each other's slot.
NoLockCycle ==
  \A t, u \in Threads :
    ~ /\ t # u
      /\ Awaits(t) # NoAddr /\ Awaits(u) # NoAddr
      /\ mu[Awaits(t)] = u /\ mu[Awaits(u)] = t

\* A signal that arrives during a futex wait does end the wait.
SignalEndsWait ==
  \A t \in Threads :
    (at[t] = "asleep" /\ Interrupted(t)) ~> at[t] # "asleep"

\* "Wake futex sleepers so they observe running==false instead of sleeping
\* through the join below" (kill_other_threads): a stopped thread ends.
StoppedThreadsEnd ==
  \A t \in Threads \ {Main} : (at[t] # "unborn" /\ ~running[t]) ~> at[t] \in Gone

\* FutexSlot's third field is the "waiter count" (Emulator.hpp), and WAKE
\* returns a number of woken waiters taken from it: it counts only threads
\* that wait.
CountsExact == \A a \in Addrs : waiters[a] = Cardinality(Counted(a))
-----------------------------------------------------------------------------
(***************************************************************************)
(* The inductive invariant of the proofs                                   *)
(***************************************************************************)
\* An operation on a slot has an address.
WithAddr == WaitPcs \cup {"stored", "requeue", "requeue2", "notify", "exitnotify"}
ArgsOK == \A t \in Threads : at[t] \in WithAddr => uaddr[t] \in Addrs

\* A slot's mutex is held exactly through its critical sections.
Holds(t, a) ==
  \/ at[t] \in {"recheck", "publish", "check", "enqueue"} /\ uaddr[t] = a
  \/ at[t] = "requeue2" /\ FirstLock(t) = a
MutexOK == \A a \in Addrs, t \in Threads : mu[a] = t <=> Holds(t, a)

\* The address is published from before the check for signals to the return.
PublishedOK ==
  \A t \in Threads :
    at[t] \in {"check", "enqueue", "asleep", "woken"} => waitaddr[t] = uaddr[t]

\* A thread that is stopped without having asked for it: the group is leaving.
StopOK ==
  \A t \in Threads :
    ~running[t] /\ at[t] \notin Gone \cup {"exit", "exitnotify", "poll"} => leaving

FutexInv ==
  /\ TypeOK /\ ArgsOK /\ MutexOK /\ PublishedOK /\ StopOK
  /\ CountsAccounted /\ NoSleeperMissed /\ NoSignalMissed
=============================================================================
