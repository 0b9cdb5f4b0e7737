# Verification of Bifrost's concurrent core

Bifrost (`src/`) runs AArch64 Linux programs on x86_64 Linux: guest instructions go
through FrostJIT or a reference interpreter, guest threads are host threads, and the
guest's kernel is the emulator itself. This directory holds TLA+ models of the parts in
which host threads meet without a common lock, the TLC runs that check them on small
instances, and TLAPS proofs of their main properties for every instance.

## 1. Inventory

| Component | State | Operations | Interacts with | Hard behaviour | What makes it correct |
|---|---|---|---|---|---|
| Exclusive monitor (`System/Core/ExclusiveMonitor.hpp`, `CodeGen/Integer/Atomics.cpp`, `Backend/X86Emitter.cpp`, `Interpreter.cpp`) | 2048 bucket words (lock bit + version), one reservation tag per CPU | load-exclusive, store-exclusive, store-release, clear | memory faults, signals, fork, clone | three implementations share one lock word; the native unlock is not a locked instruction | atomic LL/SC; a bucket is always released |
| Code-cache generations (`Runtime/Generations.*`, `EmulatorBridge.cpp`, `Dispatch.cpp`) | current instance, retired and pending instances, epoch, a slot per thread | dispatch, nested call, renew, retire, reap, forget | threads, system calls, fork, exec | epoch-based reclamation of executable code | no thread runs released code; bounded memory; retired code is released |
| Futexes (`Syscalls/Process/Threads.cpp` case 98, `Emulator.hpp`) | a slot (mutex, condition variable, count) per word, a published wait address per CPU | WAIT, WAKE, REQUEUE, CMP_REQUEUE | signals, thread exit, group exit, fork | store/WAKE, signal, timeout and stop race with falling asleep | no lost wakeup, no lost signal, counts never too low, no lock cycle |
| Thread group (`Core/Threads.cpp`, `Exit.cpp`, `Exec.cpp`, `Lifecycle.cpp`) | `threads_`, `alive_threads_`, `running`, `finished`, `group_exit_` | clone, exit, exit_group, fatal signal, execve, reap, join | all of the others | a thread runs before it is published; exec and exit take threads out of the list and join them | each thread is joined once; nobody else runs when exec or exit goes on; a group exit ends |
| Fork quiescence (`fork_guest`) | the process's mutexes | try all, fall back, fork, settle the child | every lock's users | threads nest the locks in any order and some never let go | the child inherits no lock of a thread it does not have; no deadlock; the fork happens |
| Signals (`Core/Signals.cpp`, `Syscalls/Process/Signals.cpp`, `CPU.hpp`, `Emulator.hpp`) | a 64-entry queue, an overflow set, a mask and saved masks per CPU, a process-wide set, dispositions, the lock-free queue of host signals | tgkill, tkill, kill, drain, deliver, sigreturn, mask, sigsuspend, sigtimedwait | futexes, host calls, timers | senders of any thread, full queue, temporary masks, delivery at boundaries | no signal lost, stranded or delivered while blocked; masks are the guest's own |
| Translation cache (`Runtime/CodeCache.cpp`, `Dispatch.cpp`, `BlockCompiler.cpp`) | block table and index, staged block, log of invalidations, chain edges, per-thread caches, generation and epoch | look up, compile, publish, chain, invalidate, retire | guest mprotect/munmap, cache maintenance | compiling outside the exclusive lock while the bytes change; caches without a lock | no published block, edge or cache entry is followed into code older than an invalidation the thread knows of |
| Tier 2 (`FrostJIT/Tier2/`) | traces, regions, trials | promote, measure, settle | translation cache | measurements by several threads | a trial settles once |
| Persistent cache (`Runtime/PersistentCache.*`) | on-disk store | record, flush, load | other processes | crash during a write, concurrent writers | what is loaded was recorded |
| Guest memory (`System/Memory/`) | mapping index, userfaultfd registrations | map, unmap, protect, discard, fill | JIT invalidation, fork | faults handled by other threads | the index agrees with the host mappings |
| Guest debugger (`GuestDebugger.*`) | shared task table, stop requests, events | attach, stop, continue, wait | signals, futexes, fork | tasks of several processes, death of either side | a stopped task is reported once and resumes |
| POSIX timers (`GuestTimers.cpp`) | timers by id, a service thread, an overrun per queued signal | create, set, delete, expire, exec, fork, stop | signals | expiry racing with delete, id reuse, exec, fork | every expiry is told once; one queued signal per timer |
| Binder broker, surfaces, audio, thunks, VFS, loader, other system calls, API, configuration | see `PROJECT.json` | | host libraries | mostly forwarding | |

The compiler proper (IR, passes, register allocation, code generation) and the per-instruction
semantics are about data of two instruction sets and are out of reach of model checking;
`PROJECT.json` lists every component with what is and is not modelled.

## 2. Modules

| Module | Models | Proofs |
|---|---|---|
| `ExclusiveMonitor` | the monitor as all its users drive it | `ExclusiveMonitorProofs` |
| `LLSC` | the abstract promise: atomic load- and store-exclusive | `ExclusiveMonitorProofs` |
| `Generations` | renewal, retirement and reclamation of JIT instances | `GenerationsProofs` |
| `CodeCache` | the block table of one instance: compile, publish, chain, invalidate | `CodeCacheProofs` |
| `Futex` | private futexes, and what wakes their sleepers | `FutexProofs` |
| `ThreadGroup` | clone, exit, exec, group exit and the joins | `ThreadGroupProofs` |
| `ForkLocks` | how fork quiesces the process's locks | `ThreadGroupProofs`, last section |
| `Signals` | sending, masks, delivery, sigsuspend, sigtimedwait | `SignalsProofs` |
| `HostQueue` | the lock-free queue of host signals | `HostQueueProofs` |
| `GuestTimers` | POSIX timers and their signals | `GuestTimersProofs` |
| `MC...` | the instances TLC checks, one module per module above | |

The properties of a module are its last sections, each with the code behaviour it is about.
Definitions whose comment begins "Mutant", "A mistaken variant" or "A bug this code had to avoid" are broken
versions of the definition that follows them; nothing refers to them. `PROJECT.json` pairs each with the
property that detects it.

### ExclusiveMonitor

`word[b]` is a bucket's word, `tag[t]` the `excl_*` fields of a CPU, `op[t]`/`pc[t]` the
instruction a thread is executing and its step, `mem` guest memory in cells. An access is a set
of cells, so that accesses of different widths can overlap; `BucketOf` is the hash of its base
address. An instruction is issued as interpreted (or C++ helper) or native, and the steps differ
where the code differs: the native load-exclusive writes the version into the tag before it
loads the value, the native store-exclusive checks the tag before it takes the bucket, and the
native unlock (`and`/`add` without `lock`) is a read step and a write step. A fault inside a
locked bucket unlocks without a bump and is retried in the interpreter (native) or
raises a signal. `Store` is any plain store or LSE atomic of the guest, which takes no bucket.
`passed[t]` is a history variable: the stores completed since t's load-exclusive. Memory is
sequentially consistent: on x86 the orders that matter are those of locked instructions and of
stores, and the unlock is a store.

Versions are 64 bits wide, so they do not wrap in any real execution; `MaxWord` bounds how many
stores begin on a bucket in the model (two, enough for an A-B-A).

### Generations

An instance is a number. `frames[t]` is the stack of the instances whose generated frames a
thread has, `ptr[t]` the instance its C++ works on, `at[t]` its place in `run_block`,
`jit_call_helper` or `renew_jit`; `acked`, `parked` and `slots` are the thread slots, `epoch` is
`g_epoch`; `pending`, `releasing`, `retiredTotal`, `releasedTotal` are the registry and
`rp`, `scan`, `cand`, `todo`, `ready` the reaper's loop. `boundary()`, `retire()`, `register_thread()`
and `quiescent()` are split at every shared access; the registry's mutex is held over the
reaper's whole scan. A block may end, call or reach a system call at any time. `fork`
is followed in the child (the parent goes on as if nothing had happened).
Bounds: `MaxGens` instances are created in a behaviour, `MaxDepth` nested calls, `MaxUnreleased`
is `kMaxUnreleased` (1 in the code).

### Futex

`mu`, `waiters` are a slot, `word` the guest words, `at[t]` what a thread is doing; `waitaddr`,
`pending`, `blocked` are `futex_wait_address`, a signal in `pending_queue` and the mask;
`running`, `alive`, `leaving`, `forked` the thread group. A step is one access to state reached
without the slot mutex, or a critical section of it: WAIT is split at the first load, the lock, the second load, the publication of the address,
the look for signals and the sleep, because stores, signals and stops
do not take the slot mutex. A WAKE, a kick and each slot of a sweep are one step.
Timeouts and spurious wakeups are `Timeout`, possible for every sleeper. `Chosen` is what
`notify_one`/`notify_all` may wake. A guest that stores to a word wakes all its waiters next
(the discipline futex users follow; without it nothing can be promised), and besides that may
call WAKE and REQUEUE as it likes. A thread's exit changes any set of words (robust
list, `clear_child_tid`) and notifies each. `Stop` is a group exit or `kill_other_threads`;
the membership of `threads_` is kept only as far as a group exit during `join_threads` depends on it.

WAIT increments `waiters` before it loads the timeout from guest memory. That load may throw, which ends the call with
`EFAULT` and the count one too high. `WaitFault` is that path, and the history variable `leaked` counts how often a slot went through it
since the last fork (the child's slots are new), up to `MaxFaults` per slot. The loads of the word come before the increment; where they throw, the
call ends with the count as it was.

Left out: words in `MAP_SHARED` mappings (the host kernel's futex), results of calls, calls that
fail before they change anything, the overflow of the signal queue, and the moment between the
start of a host thread and its publication in `threads_` (Spawn is one step).

### CodeCache

A translation is a slot of the append-only code buffer: `pcOf`, `words` (the guest words it was
made from), `live` and `edge` (its `MtEdge`). `blocks` and `index` are the table and the granule index
under `blocks_mutex_` (`writer`, `readers`), `compiler` is `compile_mutex_`, `active`/`log`/`overflow` are
`shared_compile_active_` and the invalidation log, `gen` and `epoch` the generation and the preemption
epoch, `tlsGen`, `seen`, `cache`, `ibl` a thread's copies. Guest code is a few lines with a value each. A compile
reads its lines one at a time while others write them; the guest invalidates a line after it changed it, as the
architecture requires, by cache maintenance (which spares blocks whose words still match), by a
mapping change (whole pages) or in full. `obs[t]` is a history variable: the lines t
knows to be clean, because it synchronised with a thread that had finished its invalidation.
Only then is t owed fresh code. `jit_call_helper` is one nested level. Left out: the
single-threaded mode (no second party), interpreter-only entries (they read the bytes of the moment), Tier-2 regions.

### ThreadGroup

`at[t]` is a thread's place in `thread_entry`, `spawn_thread`, `kill_other_threads`, `group_exit` or the end of
`run`; `threads` is `threads_`, `held[t]` what a thread has taken out of it and joins, `child[t]`
what it has started and not published, `host` the `std::thread`s. Critical sections of `threads_mu_` are one
step. A host call that waits has a step between the look at `running` and the wait, because a kick in
between is lost. Futex sleeps are in `Futex`; `wake_all_futexes` is therefore no step here.
`Execers` and `Blockers` restrict who calls execve and who waits, so that each run asks one question.

### ForkLocks

`holder` is a lock table; other threads take any of the nests given (`Nests`), one lock at a time, in any order.
`fork_guest` follows the code: try in order, release all on a failure, pause, and after the deadline
take the first locks (comm and futex shards) and fork without the rest. The child frees what it owns,
makes the timers' lock anew, keeps the thread lists' locks until they are emptied, and takes the locks its set-up needs.
`Clean` is about the locks `fork_guest` takes. That it takes every lock the child needs is not a question this run asks: finding 18 names
locks it does not take, and finding 4 another.

### Signals

`queue`, `sigpending`, `mask`, `saved`, `active` are the fields of a CPU; `shared` is `shared_sigpending_`,
`act` the dispositions, `frames[t]` the masks saved in the frames on t's stack. `pc[t]` splits the code at
every place where other threads can act: between the drain of the queue and of the process-wide set, between choosing
a target, pushing and kicking, and between the last drain of `rt_sigsuspend` and the host call. `view` (the masks
the guest asked for) and `owed` (signals sent and not acted on) are history variables. SIGKILL and
SIGSTOP, which cannot be blocked, take no part. A host signal enters by `Kill`: `drain_host_signals` calls
`send_process_signal` as `kill` does. A group exit ends the behaviour (`ThreadGroup` has the rest).

### HostQueue

Every load, compare-and-swap and store of `push` and `pop` is a step of its own; positions are unbounded
numbers (64 bits in the code) and a cell is chosen modulo the capacity. Any number of handlers push and any number of threads pop.
A weak compare-and-swap may fail for no reason. Memory is sequentially consistent; the code's acquire and
release orders on `seq` are what the order between a cell's signal and its sequence number needs.

### GuestTimers

`timers` maps ids to a descriptor number (never reused, so it tells a timer from its successor), the
event, whether it is armed, and the expiries not yet read. `pc`, `batch` and `job` are the service thread: what `epoll_wait`
returned and the expiry it works on; it holds `mu_` for `Read` and `Record` only. `queue` and
the two pending sets hold only the timers' one signal. `told` and `unkept` count expiries delivered and
those whose details the code documents as not kept (bits, exited threads, overruns past `INT_MAX`); `old` and `image`
remember which timers the last fork and the last execve should have silenced. Exec is two steps (the
timers, later the pending signals); fork is followed into the child. A signal that found the queue full is a bit of
`sigpending`. A thread takes such a bit (`TakeBit`) when its drain finds a bit in the process-wide set, or when it changes its mask, waits in
`rt_sigtimedwait` or returns from a handler; `Fold` is `rt_sigtimedwait` turning the queued signal into a bit.

## 3. Runs

| Run | Configuration | Instance | Shows |
|---|---|---|---|
| `monitor` | `Monitor.cfg` | 2 threads, one granule, interpreted and native, faults, fork; fair; 0.17 M states | `OneHolder`, `MissesNoStore`, `VersionsGrow`, `ImplementsLLSC` (refinement of `LLSC`), `BucketsReleased` |
| `generations` | `Generations.cfg` | 2 threads, 3 instances, 1 nested call, cap 1; 0.7 M states | `NoReleasedCode`, `LiveBound`, `ReaperSparesFreed` |
| `generations_live` | `GenerationsLive.cfg` | 2 threads, 2 instances; fair | `Reclaimed` |
| `futex` | `Futex.cfg` | 2 threads, 2 words, 2 values, requeues, fork, a wait that throws on the first slot; fair; 0.53 M states | `WakesEnough`, `CountsAccounted`, `NoSleeperMissed`, `NoSignalMissed`, `NoLockCycle`, `SignalEndsWait` |
| `code_cache` | `CodeCacheLoop.cfg` | 2 threads, 1 block that loops, 2 lines, 3 translations, 2 changes, a log of 1; 3.0 M states | types, `TableFresh` |
| `code_cache_pair` | `CodeCachePair.cfg` | 2 threads, 2 blocks that chain to each other, nested calls, 1 change; 4.8 M states | `EdgesFresh`, `EntersFresh` |
| `thread_group` | `ThreadGroup.cfg` | main and 3 workers, exec by main, one worker in host calls; fair; 0.32 M states | `OneOwner`, `AliveCounts`, `NoOrphan`, `GroupExitEnds`, `JoinLoopEnds` |
| `fork_locks` | `ForkLocks.cfg` | fork against 2 threads that nest its locks backwards; fair | `Clean`, `ForkHappens`, `NestsEnd` |
| `signals` | `Signals.cfg` | 2 threads, 2 signals, queues of 1, nested and one-shot handlers, a fault; fair; 0.16 M states | `OwnMask`, `NoSignalLost`, `WaiterReturns`, `SharedDelivered` |
| `host_queue` | `HostQueue.cfg` | 2 producers, 2 consumers, 2 cells that wrap; fair | `NoRace`, `ExactlyOnce`, `AllPopped` |
| `timers` | `Timers.cfg` | 2 timers, 2 threads, a queue of 1, fork by either thread, exec, stop; fair; 0.12 M states | types, `Accounted`, `Silent`, `Quiet`, `ExpiryTold`, `StopEnds` |
| `signals_overflow` | `SignalsOverflow.cfg` | a queue of 1; fair | *violated* `UnblockedDelivered` |

Two further configurations hold as well and vary the question: `TimersCount.cfg` (`OneQueued`: at most one queued signal of a
timer per thread, and `Accounted`, with overruns that reach and pass the cap `IntMax`; 1.6 M states) and `CodeCacheLive.cfg` (`DispatchEnds`: no lookup, compile or invalidation
waits for ever). `UnblockedDelivered` holds where no queue fills and nobody waits: `SignalsFold.cfg` with `WaitSets <- Nothing`,
`Masks <- BlockAll` and `Senders = {a, b}`. The others each show disagreements listed below.

Why the bounds suffice for the questions asked: the lock-bit race, an A-B-A and the fork of a
locked bucket need two threads; a stale reader of an instance, its renewer and the reaper are two
threads and the reaper, and a third instance lets a second renewal meet an unreleased first one; a
lost wakeup needs a waiter and a waker; requeues
in both directions need two words (that a second waiter is not miscounted is proved for any number). A stale block needs one compiler and one invalidator, a log that
can overflow and room to translate again; a stale edge or cache entry a second block and a nested call. Three workers and
the main thread make a clone by a thread that is itself being joined, and a second round of joins; the queue of
host signals shows its races when two cells wrap. A timer, its successor in the same id and a second thread are what
the timer hazards are made of. `Timers.cfg` keeps to one expiry at a time at a timer so that its liveness properties can be checked, and therefore
does not reach the cap of an overrun: `TimersCount.cfg` does, and the theorem `ExpiriesAccounted` covers it for every bound. One wait that throws
on one of two slots shows an overcounted slot beside an exact one, and requeues between them in both directions. The proofs remove these bounds for the invariants they cover.

Except in `monitor`, `code_cache` and `code_cache_pair` deadlock is not checked: the process may end, and guest threads
may all sleep on futexes (a guest's deadlock is not the emulator's).

Fairness. In `ExclusiveMonitor`, a thread inside a bucket goes on: it runs straight-line code and
waits for nothing (the host scheduler is fair); nothing is assumed of waiting threads. In
`Generations`, the C++ of a thread and the reaper go on; nothing is assumed of how long a block, a callee or a
system call takes, so `Reclaimed` has as a hypothesis that each thread is again and again without
generated frames. In `Futex`, a host thread that is inside a call, is stopped or has a signal to
deliver goes on (weak), and a thread waiting for a `std::mutex` that is free again and again
eventually gets it (strong; what glibc's futex-based mutexes give in practice, and the weakest
assumption under which any locked protocol ends). Timeouts, spurious wakeups and guest choices are never assumed.
In `CodeCache`, `ForkLocks` and `ThreadGroup` likewise: C++ code that is not blocked goes on, and a mutex
that is free again and again is had (strong). `ForkLocks` also assumes that the clock runs (`Late`). In `Signals` every thread's own steps go on (weak: a run loop drains
every 4096 instructions or preemption tick), and a handler that returns is assumed to do so again and again (strong on
`Sigreturn`): without it a pending signal may wait for a handler that never ends, as on Linux. In `HostQueue` a push and a pop under way go
on and draining threads keep draining. In `GuestTimers` the service thread runs (weak), a thread drains its queue in
its loop, however many system calls it makes (strong on `DrainQueue`), and takes bits there only when its queue is empty and the process-wide set has one that it does not
block (strong on `DrainBits`: timers do not refill the queue faster than the thread drains it): that a bit of `sigpending` alone is ever looked at is not assumed, and finding 1 is that it need not be. Nothing is
assumed of when timers expire. `ExpiryTold` says accordingly that no expiry stays for ever at its timer, with the service thread, in the process-wide set or in a
queue; one that became a bit of a full queue's thread has left these places and is not promised anything. It has two hypotheses: from some moment on nobody
blocks the signal, and the main thread stays alive (in the child of a worker's fork it is not there, finding 17). In `Signals`, `SharedDelivered` is the same
of the process-wide set: a signal of it which some thread could take does not stay so for ever. `GroupExitEnds` has as hypotheses that host calls return and that no execve completes after
the exit: without either it fails (findings 6 and 7).

### Where the code and its comments disagree

Each is a property that states what a comment says, and a configuration under which TLC finds a behaviour of the code against it.
The first is the run `signals_overflow`; `PROJECT.json` quotes the comments.

1. `SignalsOverflow.cfg`, `SignalsFold.cfg` (`UnblockedDelivered`): two ways for an unblocked signal to be left as a bit
   in `sigpending`, which the drains look at only when the process-wide set has an unblocked signal.
2. `MonitorPair.cfg` (`ReservationCoversAccess`): a reservation of a 16-byte pair does not cover its second word against a store
   that restores its value, because only the base address's bucket is looked at, while the comment
   says that it covers both elements.
3. `GenerationsFork.cfg` (`ForkChildInterprets`): `fork_guest`'s comments say a child never executes the inherited code
   again. A fork from inside a nested call returns to `jit_call_helper`'s loop, which goes on
   looking up and entering blocks of the abandoned instance.
4. `GenerationsFork.cfg` again (`RenewLockHasOwner`; `tlc -continue` shows both): `fork_guest` takes every lock the child uses, but not
   `jit_renew_mu_`; a fork during another thread's renewal leaves it locked in the child.
5. `FutexStop.cfg` (`StoppedThreadsEnd`): `kill_other_threads` and `join_threads` wake futex sleepers once. A thread that has passed the
   check of `running` at system-call entry and is not yet counted in its slot goes
   to sleep after that, and the join waits for it for ever.
6. `ThreadExitBlocked.cfg` (`GroupExitInterrupts`): `kill_other_threads` kicks once; a thread about to enter its host call loses the
   kick. `join_threads`, which repeats it, does not have this (`JoinLoopEnds`).
7. `ThreadExitExec.cfg` (`GroupExitInterrupts`): execve sets `running` at its end, undoing a group exit's stop.
8. `ThreadExecWorker.cfg` (`ExecAlone`): an execve by a worker does not stop the main thread, which is in no list. With
   `Execers = {m}` and two workers the same property shows an execve that misses a thread which a thread it joins has started and not published.
9. `ThreadExecTwice.cfg` (`ExecEnds`): two workers in execve take each other out of the list and join each other.
10. `SignalsIgnored.cfg` (`OwnMask`): `rt_sigsuspend` leaves the temporary mask in force when the pending signal it acted on was ignored.
11. `SignalsSuspend.cfg` (`SleeperWakes`): a signal between the last drain and the host's `sigsuspend` does not wake the thread.
12. `SignalsPending.cfg` (`PendingReported`): `rt_sigpending` does not look at the queue.
13. `HostQueueFull.cfg` (`FailsOnlyWhenFull`): a push fails with fewer signals queued than the capacity while a pop is half done.
14. `TimersTwice.cfg` (`OneInProcess`): a timer can have signals queued on two threads.
15. `TimersReused.cfg` (`MergesOwn`): an id that is reused while a signal of the old timer is queued makes the new timer lose a signal.
16. `TimersExec.cfg` (`ExecSilent`): an expiry in flight, a blocked queued signal, or a process-wide bit survives execve.
17. `TimersForkWorker.cfg` (`ToldInChild`): after a fork by a worker the child prefers `main_cpu_`, on which no thread runs, as the
    target of process-directed signals, those of the timers it creates itself included.
18. `ForkLocksPending.cfg` (`ChildUsable`): `CPU::pending_mu` is not among the locks fork takes (nor are `SignalTable`'s mutex and `brk_mu_`).
19. `Futex.cfg` with `CountsExact` as an invariant: a wait that throws on its timeout pointer leaves its slot with one waiter too many, until
    a fork. The count is never too low (`CountsAccounted`), so no wakeup is lost; `FUTEX_WAKE` takes its lock in vain and may report a waiter it did not wake.

## 4. Proofs

All theorems are for arbitrary constants under the named `ASSUME` of each module: a main thread that is a thread, positive
capacities, natural bounds, threads and "nobody" apart, finitely many workers where `alive_threads_` counts them, a `threads_` order in which every worker has a place where timers choose a target by it, at least one block and one
value of guest memory. Three theorems have a hypothesis of their own, named where it is stated (`MainExecs`, `MasksHeld`, `TimersStay`); without
it TLC shows the property false.

`ExclusiveMonitorProofs`: `MonitorInv` = types, `OneHolder`, and per thread: a native unlock writes
back the word that is still there (`Fresh`: the only other writers, lock attempts, leave a locked word as it
is), a bump is decided by the write (`Decided`), what a store-exclusive has established of its tag (`Checked`), and
that a version read or tagged is not ahead of its bucket and is behind it once a store has
completed there (`ReadVersion`, `Current`). From it: `TypeCorrect`, `MutualExclusion`, `NoStoreMissed`,
`VersionsOnlyGrow`; and `GranuleCovered`: where overlapping accesses share a bucket, which is every
access but the 16-byte pair, a reservation covers its whole access, so finding 2 is confined to pairs.
`AtomicExclusives` is the refinement of `LLSC`. A thread's abstract reservation stands while its tag is valid, its bucket has the tag's version
and nobody has stored there and not yet released (`Stands`). Memory changes at `Write`, which maps to
`StoreExclusive` or `StoreRelease` (`WriteMaps`): the reservations of the bucket break there, and stay broken at the release because the version
moves (`LeaveMaps`, which is `Return`). A refused store-exclusive, a fault and a cleared tag are `Lose`; fork lets a reservation stand
again that a vanished thread's store had broken (`ForkMaps`); every other step is a stutter. `StepMaps` puts the cases together.

`GenerationsProofs`: `GenInv` = types, numbering (`NumbersOK`), epochs (`EpochsOK`), where a thread can
be with and without frames (`PlacesOK`), what a slot says (`SlotsSpeak`: a parked thread has no
frames; a thread that acknowledged an epoch uses nothing retired by then) and what the reaper has concluded (`ReaperOK`). The
heart is that "retired and used by no thread" is stable: every way back to an instance passes
its retired flag. From it: `TypeCorrect` and `NoUseAfterRelease`. A second invariant, `LiveInv`, counts: what the reaper holds
(`Held`: pending and being released) is `retiredTotal - releasedTotal` and at most `MaxUnreleased`, strictly less while a retirement is under way
(`CountOK`), of which `jit_renew_mu_` lets one happen at a time (`RenewLocked`); and every instance of the set that has code is the current one, in the
reaper's hands or being retired (`CoverOK`). From it `CodeBounded` (`LiveBound`) and, with where `~JitSet` leaves the reaper's lists
(`OwnedOK`, `RoundOK`, `EndingOK`), `ReaperLetsGo` (`ReaperSparesFreed`).

`FutexProofs`: `FutexInv` = types, arguments (`ArgsOK`), who holds a slot's mutex (`MutexOK`),
that the wait address is published over the whole sleep (`PublishedOK`), that threads are stopped
only when the group is leaving (`StopOK`: a thread stopped between its store and its WAKE never wakes
anybody), and the three invariants themselves, of which `CountsAccounted` says that a slot's count is the threads between their increment and
their decrement and the waits that have thrown there, for any number of them. From it: `TypeCorrect`,
`WaitersCounted`, `NoLostWakeup`, `NoLostSignal`, `WakeReaches`, `LocksOrdered`.

`HostQueueProofs`: the invariant is types, what a caller's local position and sequence number say (`Locals`), that a claimed
position has one writer or reader (`Writers`, `Readers`), the state of each cell by its sequence
number (`CellStates`: free for position n, holding n, or in transit), and that claims and takings are the
intervals below tail and head (`Claims`, `Takings`). Positions one capacity apart share a cell, so the proof needs that
two positions of one cell that differ are at least a capacity apart (lemmas about `%`). From it: `QueueTypes`, `RaceFree`, `Exact`,
for any capacity above one: with one cell a free and a full cell have the same sequence number.

`ForkLocks` (last section of `ThreadGroupProofs`, which extends both modules; `fork_guest`'s specification is `LockSpec`, apart from the thread group's): types, what `try_all` holds (`Trying`: exactly the locks before its index), who owns what (`Owned`), what
the child still keeps (`Keeping`), `LetsGo`. From it: `LockTypes`, `ChildClean`, `NothingHeld`.

`ThreadGroupProofs`: `Inv` = types, where a thread can be and what it has in hand there (`Shape`), ownership of the `std::thread`s owner
by owner (`Lists`: started or finished and unjoined handles are in exactly one place), that `alive_threads_` is the number of workers between
their first count and their last guest write (`Counting`), and that a worker that has set its flag makes no more calls (`Spent`). From it: `GroupTypes`,
`HandlesOwned`, `CountSound`. `RunJoinsAll` (`NoOrphan`) needs more: workers join only what has finished (`Reaping`), and no set of workers is being spawned by
itself (`Rooted`), so that an empty `threads_` after the joins means nobody is left to publish. Its hypothesis `MainExecs` says
that workers do not call execve; without it a worker in execve can
have the others' handles in its own list when `join_threads` finds `threads_` empty.

`CodeCacheProofs`: `TableInv` = types, who holds which lock (`Locks`), what a thread has in hand (`Hands`), the compile under way (`Drafted`:
each fetched word is current, or its change is in the log, or its invalidation has not looked for a compile yet), the granule index (`Indexed`),
what an invalidation that has chosen its victims may spare (`Spared`), `TableFresh` and the edges (`Edges`: an edge leads to what the table holds for its
target). It is what the log is for: without `Noticed` a compile that fetched before and publishes after an invalidation is not excluded. From it: `CacheTypes`,
`PublishedFresh`, `ChainsFresh`. For the copies threads keep without a lock, `EnterInv` adds the relation of generation and
preemption epoch (`Epochs`), that a thread reads the generation after its lease (`Leases`), what its caches hold when it has seen the last generation or that of the
last epoch (`Caches`, `Dropped`), and that what a lookup has found is no older than what the thread knows (`Found`). From it the action property
`NeverEntersStale` (`EntersFresh`).

`SignalsProofs`: `Inv` = types (`ContextOK`, `PendingOK`, `CallsOK`) and that a thread inside `rt_sigsuspend` or `rt_sigtimedwait` has a mask to give back (`Placed`). From it:
`SignalTypes` and, with `NoSignalLost` itself, which is inductive over it, `NothingLost`. `MasksReturn` (`OwnMask`) rests on `MaskInv`: the
masks the guest asked for are the current one (the saved one while it is lent to a system call) and those in the frames, in order (`Lent`).
Its hypothesis `MasksHeld` says that a thread which borrows a mask belongs to a process that ignores no signal; otherwise finding 10 makes it false. The
lemmas on `Rank` and `Keep` say what a queue keeps of its entries when some are taken out of the middle (`pop_pending`): the entries of the positions kept, in
their order. `Keep` is written by rank, and not with `SelectSeq`, because the prover cannot expand `SelectSeq`.

`GuestTimersProofs`: `Typed` is `TypeOK` part by part, with what it leaves open (the queues are sequences, a job has a timer and an event while it is
being sent and a target once one is chosen, the ready events are not empty inside `Read` to `Record`). From it `TimerTypes`. Over it, invariants that do not depend
on each other, but for the account:
- `StopsQuiet` (`Quiet`) from `Serving`: while the process runs, a handle that is not set means that no thread serves, so that `stop` waits whenever there is one.
- `ChildSilent` (`Silent`) from `Fresh`: every timer in `timers_` is younger than the last fork. Fork empties `timers_`, the job, the process-wide bits and the pending signals
  of its thread, so whatever is read, merged or pushed later is of a younger timer; threads that are not live are not looked at.
- `OneSignal` (`OneQueued`) from `Alone`: at the push the search that found nothing still holds. Between the two the queue can only get shorter (`QueueThins`), as no one but the
  service thread queues a timer's signal.
- `OwnSignals` (`MergesOwn`, under `TimersStay`: no timer is destroyed) from `AllNamed`: the timer with a queued signal's id is the one the signal is of. It confines finding 15 to a reused id; the service
  thread keeps what it has read under the id it has read it by, so with a `timer_delete` in between this does not hold.
- `ExpiriesAccounted` (`Accounted`) from `Balanced`, the same equation with sums for the folds (`WeightIs`, `HeldIs`, `TakenSum`). Each step moves an amount from one addend to
  another: what `Read` takes is split at `INT_MAX` (`CappedIs`), a merge replaces one addend of a queue (`WeightReplace`), a push and a take add and remove one (`WeightAppend`,
  `WeightTail`), and a thread's end, exec and fork move the queues of a set of threads to `unkept` (`HeldGone`, `LostBalanced`). `Serving` is needed here too: a `timer_create` that starts the
  service thread does not overwrite an expiry in flight.

The section on sums proves the fold's equation, that any element may be taken first (`SumRemove`), disjoint parts (`SumSplit`), a changed addend (`SumChange`) and a renaming of the indices (`SumRename`, which
`Tail` needs). The induction theorems of the library take an operator for the predicate, which the provers cannot instantiate; here the predicate is a set of numbers, or of sets
(`Induction`, `FiniteInduction`), and the induction step comes from the least number outside it (`Least`, from `WFMin`).

`OneQueued`, `MergesOwn`, `LetsGo` (fork leaves no lock held behind) and the types theorems but those of `CodeCache` and `GuestTimers` are proved and not repeated in a run.

What stays with TLC: liveness (`BucketsReleased`, `Reclaimed`, `SignalEndsWait`, `GroupExitEnds`, `JoinLoopEnds`, `ForkHappens`, `NestsEnd`, `WaiterReturns`, `SharedDelivered`, `AllPopped`,
`ExpiryTold`, `StopEnds`), which needs fairness and `ENABLED`, out of this prover's reach. Every safety invariant, action property and refinement of the passing runs is also a theorem.

## 5. Plan

1. Proofs: the restricted forms of the other findings that fail only in named cases, as `GranuleCovered` is of `ReservationCoversAccess`
   and `OwnSignals` of `MergesOwn`.
2. Debugger stops across processes, the Binder broker, userfaultfd, the descriptor table, the audio stream queue.

### Not modelled

The compiler proper, the decoder and the interpreter's instructions are translations of data between two
instruction sets. The loader, the virtual file system's paths, configuration, the graphics, display, audio and media
thunks and most system calls convert arguments and forward to host libraries; they keep little state of
their own and no protocol between threads that is not the host's. Vendored code (`ThirdParty/`, most of the lines of the
repository) is not this program's. `PROJECT.json` gives the reason for each component.
