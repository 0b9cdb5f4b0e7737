---------------------------- MODULE GuestTimers ----------------------------
(***************************************************************************)
(* POSIX timers (System/Core/Emulator/GuestTimers.cpp).  A timer is a host *)
(* timerfd; one service thread waits for all of them and queues each       *)
(* expiry as a signal.  It reads a timer under mu_, sends the signal with  *)
(* mu_ released, and takes mu_ again to note the overrun: between these    *)
(* steps the guest may delete the timer, reuse its id, block the signal,   *)
(* end the target, fork, exec or exit.                                     *)
(*                                                                         *)
(* Every timer here sends the same signal.  A timer has the number of its  *)
(* timer_create, which stands for its descriptor: ids are reused, numbers  *)
(* are not.  Clocks and times are left out: an armed timer expires at any  *)
(* time.  What the target does when it is kicked is Signals' business.     *)
(***************************************************************************)
EXTENDS Integers, Sequences, FiniteSets, Functions, SequencesExt

CONSTANTS Main, Workers,   \* the threads; Order is the order of threads_
          Order, Nobody,
          Wake,            \* WAKE_KEY
          MaxTimers,       \* MAX_TIMERS
          MaxReady,        \* length of run's array of ready events
          Cap,             \* PENDING_QUEUE_CAP
          IntMax,          \* INT_MAX
          Events,          \* the notifications the guest asks for
          Forkers, Blockers, Enders,  \* threads that fork, block the signal, end
          Execs, Stops,    \* whether the main thread calls execve, the process ends
          MaxCreates, MaxExpiries  \* bounds on timers, and on a timer's expiries

Threads == {Main} \cup Workers
Ids == 0 .. MaxTimers - 1
Fds == 1 .. MaxCreates
Arms == {"off", "once", "every"}
Notices == [notify : {"signal", "none", "thread"}, tid : Threads]

ASSUME TimerAssumption ==
    /\ Main \notin Workers /\ Nobody \notin Threads /\ Wake \notin Nat
    /\ Order \in Seq(Workers) /\ Workers \subseteq Range(Order)
    /\ {MaxTimers, MaxReady, Cap, IntMax} \subseteq Nat \ {0}
    /\ {MaxCreates, MaxExpiries} \subseteq Nat /\ {Execs, Stops} \subseteq BOOLEAN
    /\ Events \subseteq Notices /\ Forkers \subseteq Threads
    /\ Blockers \subseteq Threads /\ Enders \subseteq Workers

VARIABLES
    timers,      \* timers_, a function of the ids in use
    pc, batch,   \* the service thread, and the ready events it has left
    job,         \* the expiry it is sending
    wake,        \* the eventfd is written
    handle,      \* thread_ is set
    stopping,    \* ~Emulator: "no", "joining", "done"
    execing,     \* execve is between clearing the timers and the pending signals
    live,        \* threads that execute
    running,     \* CPU::running
    listed,      \* the workers in threads_
    blocked,     \* threads whose sigmask has the signal
    queue,       \* CPU::pending_queue
    sigpending,  \* CPU::sigpending: the timers that set the bit
    shared,      \* shared_sigpending_: the timers that set the bit
    created,                \* history: the timers created,
    old, image,             \* those created before the last fork, and before the last exec
    taken, told, unkept  \* history: expiries read, reported, past INT_MAX or without a signal

service == <<pc, batch, job>>
signals == <<queue, sigpending, shared, told, unkept>>
threads == <<live, running, listed, blocked>>
process == <<handle, wake, stopping, execing, old, image>>
vars == <<timers, service, process, threads, signals, created, taken>>

Timer == [fd : Fds, event : Notices, armed : Arms, expiries : Nat, last : Nat]
Entry == [fd : Fds, id : Ids, overrun : 0 .. IntMax, from : SUBSET Fds]

NoJob == [id |-> 0, fd |-> 0, event |-> [notify |-> "none", tid |-> Main],
          missed |-> 0, target |-> Nobody, total |-> 0]

Init ==
    /\ timers = <<>>
    /\ pc = "none" /\ batch = <<>> /\ job = NoJob
    /\ wake = FALSE /\ handle = FALSE /\ stopping = "no" /\ execing = FALSE
    /\ live = Threads /\ running = [t \in Threads |-> TRUE]
    /\ listed = Workers /\ blocked = {}
    /\ queue = [t \in Threads |-> <<>>] /\ sigpending = [t \in Threads |-> {}] /\ shared = {}
    /\ created = 0 /\ old = 0 /\ image = 0
    /\ taken = [f \in Fds |-> 0] /\ told = 0 /\ unkept = 0

-----------------------------------------------------------------------------
(* The guest's calls.  Each is one critical section of mu_; a refused call *)
(* changes nothing.                                                        *)

Guest == stopping = "no" /\ ~execing /\ live # {}

find_cpu_by_tid(t) == t = Main \/ t \in listed

\* The first timer that sends a signal starts the service thread.
start_locked ==
    IF handle THEN UNCHANGED <<handle, pc>> ELSE handle' = TRUE /\ pc' = "serve"

create(event) ==
    LET id == CHOOSE i \in Ids \ DOMAIN timers : \A j \in Ids \ DOMAIN timers : i <= j
        timer == [fd |-> created + 1, event |-> event, armed |-> "off", expiries |-> 0, last |-> 0]
    IN  /\ Guest /\ created < MaxCreates /\ Ids \ DOMAIN timers # {}
        /\ event.notify = "thread" => find_cpu_by_tid(event.tid)
        /\ timers' = [i \in DOMAIN timers \cup {id} |-> IF i = id THEN timer ELSE timers[i]]
        /\ created' = created + 1
        /\ IF event.notify = "none" THEN UNCHANGED <<handle, pc>> ELSE start_locked
        /\ UNCHANGED <<batch, job, wake, stopping, execing, old, image, threads, signals, taken>>

\* timerfd_settime also forgets the expiries not read yet.
set(id, how) ==
    /\ Guest /\ id \in DOMAIN timers
    /\ timers' = [timers EXCEPT ![id].armed = how, ![id].expiries = 0]
    /\ UNCHANGED <<service, process, threads, signals, created, taken>>

remove(id) ==
    /\ Guest /\ id \in DOMAIN timers
    /\ timers' = Restrict(timers, DOMAIN timers \ {id})
    /\ UNCHANGED <<service, process, threads, signals, created, taken>>

\* The kernel counts an expiry of an armed timer.
Expire(id) ==
    /\ id \in DOMAIN timers /\ timers[id].armed # "off"
    /\ timers[id].expiries + taken[timers[id].fd] < MaxExpiries
    /\ timers' = [timers EXCEPT ![id].expiries = @ + 1,
                                ![id].armed = IF @ = "once" THEN "off" ELSE @]
    /\ UNCHANGED <<service, process, threads, signals, created, taken>>

-----------------------------------------------------------------------------
(* GuestTimers::run and Emulator::send_timer_signal.                       *)

At(point) == pc = point
Serves(to) == pc' = to

\* A mistaken variant: a ready event with nothing to read ends the service.
SkipEnds ==
    /\ At("serve") /\ batch # <<>> /\ Head(batch) # Wake
    /\ Head(batch) \in DOMAIN timers => timers[Head(batch)].expiries = 0
    /\ Serves("ended") /\ batch' = Tail(batch)
    /\ UNCHANGED <<timers, job, process, threads, signals, created, taken>>

Ready ==
    {id \in DOMAIN timers : timers[id].event.notify # "none" /\ timers[id].expiries > 0}
    \cup (IF wake THEN {Wake} ELSE {})

\* epoll_wait: every ready event, in any order, as far as the array goes.
Wait ==
    /\ At("serve") /\ batch = <<>> /\ Ready # {}
    /\ \E some \in SUBSET Ready :
         /\ Cardinality(some) = (IF Cardinality(Ready) < MaxReady THEN Cardinality(Ready) ELSE MaxReady)
         /\ batch' \in SetToSeqs(some)
    /\ UNCHANGED <<timers, pc, job, process, threads, signals, created, taken>>

\* A mistaken variant: the wake-up is taken for a timer that is gone.
WokenSkips ==
    /\ At("serve") /\ batch # <<>> /\ Head(batch) = Wake
    /\ batch' = Tail(batch)
    /\ UNCHANGED <<timers, pc, job, process, threads, signals, created, taken>>

\* The eventfd is never read: it stays ready.
Woken ==
    /\ At("serve") /\ batch # <<>> /\ Head(batch) = Wake
    /\ Serves("ended")
    /\ UNCHANGED <<timers, batch, job, process, threads, signals, created, taken>>

\* The timer was deleted, re-armed, or deleted and its id reused.
Skip ==
    /\ At("serve") /\ batch # <<>> /\ Head(batch) # Wake
    /\ Head(batch) \in DOMAIN timers => timers[Head(batch)].expiries = 0
    /\ batch' = Tail(batch)
    /\ UNCHANGED <<timers, pc, job, process, threads, signals, created, taken>>

Capped(n) == IF n > IntMax THEN IntMax ELSE n
Past(n) == n - Capped(n)

Read ==
    LET id == Head(batch)
        missed == Capped(timers[id].expiries - 1)
    IN  /\ At("serve") /\ batch # <<>> /\ id \in DOMAIN timers /\ timers[id].expiries > 0
        /\ job' = [id |-> id, fd |-> timers[id].fd, event |-> timers[id].event,
                   missed |-> missed, target |-> Nobody, total |-> missed]
        /\ taken' = [taken EXCEPT ![timers[id].fd] = @ + timers[id].expiries]
        /\ timers' = [timers EXCEPT ![id].expiries = 0]
        /\ unkept' = unkept + Past(timers[id].expiries - 1)
        /\ Serves("choose")
        /\ UNCHANGED <<batch, process, threads, queue, sigpending, shared, told, created>>

\* The thread the timer names, or one that runs and does not block the
\* signal: the main thread first, then threads_ in its order.
Takers ==
    IF job.event.notify = "thread" THEN {t \in {job.event.tid} : find_cpu_by_tid(t)}
    ELSE {t \in {Main} \cup listed : running[t] /\ t \notin blocked}

First(S) == IF Main \in S THEN Main
            ELSE Order[CHOOSE i \in DOMAIN Order :
                          Order[i] \in S /\ \A j \in 1 .. i - 1 : Order[j] \notin S]

Choose ==
    /\ At("choose") /\ Takers # {}
    /\ job' = [job EXCEPT !.target = First(Takers)]
    /\ Serves("merge")
    /\ UNCHANGED <<timers, batch, process, threads, signals, created, taken>>

\* The thread has exited, or every thread blocks the signal.
ChooseNone ==
    /\ At("choose") /\ Takers = {}
    /\ shared' = IF job.event.notify = "thread" THEN shared ELSE shared \cup {job.fd}
    /\ unkept' = unkept + job.missed + 1
    /\ Serves("record")
    /\ UNCHANGED <<timers, batch, job, process, threads, queue, sigpending, told, created, taken>>

Merged == {i \in DOMAIN queue[job.target] : queue[job.target][i].id = job.id}

\* A mistaken variant: the merge does not count the expiry itself.
RaisedMissed(entry) == Capped(entry.overrun + job.missed)

Raised(entry) == Capped(entry.overrun + 1 + job.missed)

merge_timer_overrun ==
    /\ At("merge") /\ Merged # {}
    /\ LET i == CHOOSE i \in Merged : \A j \in Merged : i <= j
           entry == queue[job.target][i]
       IN  /\ queue' = [queue EXCEPT ![job.target][i] =
                          [entry EXCEPT !.overrun = Raised(entry), !.from = @ \cup {job.fd}]]
           /\ job' = [job EXCEPT !.total = Raised(entry)]
           /\ unkept' = unkept + Past(entry.overrun + 1 + job.missed)
    /\ Serves("record")
    /\ UNCHANGED <<timers, batch, process, threads, sigpending, shared, told, created, taken>>

NotMerged ==
    /\ At("merge") /\ Merged = {}
    /\ Serves("push")
    /\ UNCHANGED <<timers, batch, job, process, threads, signals, created, taken>>

\* A mistaken variant: one signal past the capacity.
RoomOver == Len(queue[job.target]) <= Cap

Room == Len(queue[job.target]) < Cap

\* A full queue keeps the signal's bit only.
push_pending ==
    /\ At("push")
    /\ IF Room
       THEN /\ queue' = [queue EXCEPT ![job.target] =
                           Append(@, [fd |-> job.fd, id |-> job.id, overrun |-> job.missed, from |-> {job.fd}])]
            /\ UNCHANGED <<sigpending, unkept>>
       ELSE /\ sigpending' = [sigpending EXCEPT ![job.target] = @ \cup {job.fd}]
            /\ unkept' = unkept + job.missed + 1
            /\ UNCHANGED queue
    /\ Serves("record")
    /\ UNCHANGED <<timers, batch, job, process, threads, shared, told, created, taken>>

Record ==
    /\ At("record")
    /\ timers' = IF job.id \in DOMAIN timers
                 THEN [timers EXCEPT ![job.id].last = job.total] ELSE timers
    /\ Serves("serve") /\ batch' = Tail(batch)
    /\ job' = NoJob
    /\ UNCHANGED <<process, threads, signals, created, taken>>

-----------------------------------------------------------------------------
(* The threads the signals are for.                                        *)

Weight(q) == FoldFunction(LAMBDA entry, sum : sum + entry.overrun + 1, 0, q)

\* pop_pending by the run loop or, of a blocked signal, by rt_sigtimedwait.
Take(t) ==
    /\ Guest /\ t \in live /\ queue[t] # <<>>
    /\ told' = told + Head(queue[t]).overrun + 1
    /\ queue' = [queue EXCEPT ![t] = Tail(@)]
    /\ UNCHANGED <<timers, service, process, threads, sigpending, shared, unkept, created, taken>>

\* rt_sigtimedwait for other signals turns one that is not blocked into a bit.
Fold(t) ==
    /\ Guest /\ t \in live \ blocked /\ queue[t] # <<>>
    /\ sigpending' = [sigpending EXCEPT ![t] = @ \cup {Head(queue[t]).fd}]
    /\ unkept' = unkept + Head(queue[t]).overrun + 1
    /\ queue' = [queue EXCEPT ![t] = Tail(@)]
    /\ UNCHANGED <<timers, service, process, threads, shared, told, created, taken>>

\* A bit becomes a signal without an overrun: in deliver_pending_signals, or
\* in rt_sigtimedwait for a signal that is blocked.  The thread's own bit
\* first; rt_sigprocmask, rt_sigsuspend and rt_sigreturn look at both.
TakeBit(t) ==
    /\ Guest /\ t \in live /\ sigpending[t] \cup shared # {}
    /\ sigpending' = [sigpending EXCEPT ![t] = {}]
    /\ shared' = IF sigpending[t] = {} THEN {} ELSE shared
    /\ UNCHANGED <<timers, service, process, threads, queue, told, unkept, created, taken>>

Mask(t) ==
    /\ Guest /\ t \in live \cap Blockers
    /\ blocked' = IF t \in blocked THEN blocked \ {t} ELSE blocked \cup {t}
    /\ UNCHANGED <<timers, service, process, live, running, listed, signals, created, taken>>

\* A worker ends, and is taken off threads_ later.
End(t) ==
    /\ Guest /\ t \in live \cap Enders \cap listed
    /\ live' = live \ {t} /\ running' = [running EXCEPT ![t] = FALSE]
    /\ UNCHANGED <<timers, service, process, listed, blocked, signals, created, taken>>

\* Threads of S and their queues are gone.
Gone(S) ==
    /\ queue' = [t \in Threads |-> IF t \in S THEN <<>> ELSE queue[t]]
    /\ sigpending' = [t \in Threads |-> IF t \in S THEN {} ELSE sigpending[t]]

Lost(S) == FoldFunctionOnSet(LAMBDA q, sum : Weight(q) + sum, 0, queue, S)

Reap(t) ==
    /\ t \in listed \ live
    /\ listed' = listed \ {t}
    /\ Gone({t}) /\ unkept' = unkept + Lost({t})
    /\ UNCHANGED <<timers, service, process, live, running, blocked, shared, told, created, taken>>

-----------------------------------------------------------------------------
(* Exec, fork and the end of the process.                                  *)

\* execve by the main thread: the others are joined, the timers cleared.
ExecClear ==
    /\ Guest /\ Main \in live /\ Execs
    /\ timers' = <<>> /\ execing' = TRUE
    /\ live' = {Main} /\ listed' = {}
    /\ running' = [t \in Threads |-> t = Main]
    /\ Gone(Workers) /\ unkept' = unkept + Lost(Workers)
    /\ UNCHANGED <<service, handle, wake, stopping, old, image, blocked, shared, told, created, taken>>

\* Later, the caller's own pending signals: its bits, and what pop_pending
\* hands out, which is not what it blocks.
ExecPending ==
    /\ execing /\ execing' = FALSE
    /\ image' = created
    /\ sigpending' = [sigpending EXCEPT ![Main] = {}]
    /\ IF Main \in blocked THEN UNCHANGED <<queue, unkept>>
       ELSE /\ queue' = [queue EXCEPT ![Main] = <<>>]
            /\ unkept' = unkept + Lost({Main})
    /\ UNCHANGED <<timers, service, handle, wake, stopping, old, threads, shared, told, created, taken>>

Flying == IF pc \in {"choose", "merge", "push"} THEN job.missed + 1 ELSE 0

\* A mistaken variant: the process-wide bits survive the fork.
ForkShared(t) ==
    LET left == IF t = Main THEN Threads ELSE {t} \cup Workers
    IN  /\ Guest /\ t \in live \cap Forkers
        /\ timers' = <<>> /\ pc' = "none" /\ batch' = <<>> /\ job' = NoJob
        /\ handle' = FALSE /\ wake' = FALSE
        /\ live' = {t} /\ listed' = {}
        /\ Gone(left) /\ unkept' = unkept + Lost(left) + Flying
        /\ old' = created
        /\ UNCHANGED <<stopping, execing, image, running, blocked, shared, told, created, taken>>

\* The child of t's fork: after_fork_child under the locks of fork_guest,
\* then the pending signals of the forking thread and of the process.  No
\* other thread exists; main_cpu_ keeps its flag and its queue.
Fork(t) ==
    LET left == IF t = Main THEN Threads ELSE {t} \cup Workers
    IN  /\ Guest /\ t \in live \cap Forkers
        /\ timers' = <<>> /\ pc' = "none" /\ batch' = <<>> /\ job' = NoJob
        /\ handle' = FALSE /\ wake' = FALSE
        /\ live' = {t} /\ listed' = {}
        /\ Gone(left) /\ unkept' = unkept + Lost(left) + Flying
        /\ shared' = {} /\ old' = created
        /\ UNCHANGED <<stopping, execing, image, running, blocked, told, created, taken>>

\* A mistaken variant: stop does not wait for the service thread.
StopDetaches ==
    /\ Guest /\ Stops
    /\ timers' = <<>> /\ handle' = FALSE /\ wake' = handle
    /\ stopping' = "done"
    /\ UNCHANGED <<service, execing, old, image, threads, signals, created, taken>>

\* ~Emulator.  The eventfd is written after mu_ is released, but nothing
\* else uses it.
stop ==
    /\ Guest /\ Stops
    /\ timers' = <<>> /\ handle' = FALSE /\ wake' = handle
    /\ stopping' = IF handle THEN "joining" ELSE "done"
    /\ UNCHANGED <<service, execing, old, image, threads, signals, created, taken>>

Joined ==
    /\ stopping = "joining" /\ At("ended")
    /\ stopping' = "done"
    /\ UNCHANGED <<timers, service, handle, wake, execing, old, image, threads, signals, created, taken>>

-----------------------------------------------------------------------------
Service == \/ Wait \/ Woken \/ Skip \/ Read \/ Choose \/ ChooseNone
           \/ merge_timer_overrun \/ NotMerged \/ push_pending \/ Record

Next ==
    \/ Service
    \/ \E event \in Events : create(event)
    \/ \E id \in Ids : remove(id) \/ Expire(id) \/ \E how \in Arms : set(id, how)
    \/ \E t \in Threads :
         Take(t) \/ Fold(t) \/ TakeBit(t) \/ Mask(t) \/ End(t) \/ Reap(t) \/ Fork(t)
    \/ ExecClear \/ ExecPending \/ stop \/ Joined

Spec == Init /\ [][Next]_vars

\* drain_pending_signals, in the loop of a thread that does not block the
\* signal: its queue first, and then the bits, its own included, but only if
\* the process-wide set has one.
DrainQueue(t) == t \notin blocked /\ Take(t)
DrainBits(t) == t \notin blocked /\ queue[t] = <<>> /\ shared # {} /\ TakeBit(t)

\* The host schedules the service thread, execve and the destructor go on,
\* and a thread drains in its loop, however many system calls it makes.
FairSpec ==
    /\ Spec /\ WF_vars(Service) /\ WF_vars(ExecPending) /\ WF_vars(Joined)
    /\ \A t \in Threads : SF_vars(DrainQueue(t)) /\ SF_vars(DrainBits(t))

-----------------------------------------------------------------------------
\* Types: no overrun passes INT_MAX, no queue its capacity, and the batch
\* fits the array of epoll_wait.
TypeOK ==
    /\ DOMAIN timers \subseteq Ids /\ \A id \in DOMAIN timers : timers[id] \in Timer
    /\ pc \in {"none", "serve", "choose", "merge", "push", "record", "ended"}
    /\ Range(batch) \subseteq Ids \cup {Wake} /\ Len(batch) <= MaxReady
    /\ job.missed \in 0 .. IntMax /\ job.total \in 0 .. IntMax
    /\ wake \in BOOLEAN /\ handle \in BOOLEAN /\ execing \in BOOLEAN
    /\ stopping \in {"no", "joining", "done"}
    /\ live \subseteq Threads /\ listed \subseteq Workers /\ blocked \subseteq Threads
    /\ running \in [Threads -> BOOLEAN]
    /\ \A t \in Threads : Range(queue[t]) \subseteq Entry /\ Len(queue[t]) <= Cap
    /\ sigpending \in [Threads -> SUBSET Fds] /\ shared \subseteq Fds

\* Every expiry read from a timer reaches the guest exactly once, as a
\* signal or in the overrun of one, unless its signal could not be kept or
\* the overrun is full: it is in flight, queued or reported.  Deleted timers, ended threads, fork
\* and execve included (GuestTimers::run, merge_timer_overrun).
Accounted ==
    FoldFunction(LAMBDA n, sum : n + sum, 0, taken)
        = Flying + Lost(Threads) + told + unkept

\* No two queued signals of one thread belong to one timer: a later expiry
\* finds the first wherever it is in the queue (merge_timer_overrun).
OneQueued ==
    \A t \in Threads : \A i, j \in DOMAIN queue[t] :
        queue[t][i].id = queue[t][j].id => i = j

\* No signal of the first n timers is on its way, or pending where a live
\* thread will take it.
NothingOf(n) ==
    /\ pc \in {"choose", "merge", "push"} => job.fd > n
    /\ \A f \in shared : f > n
    /\ \A t \in live : /\ \A f \in sigpending[t] : f > n
                       /\ \A i \in DOMAIN queue[t] : queue[t][i].fd > n

\* The child of a fork sees no signal of a timer of its parent
\* (after_fork_child, fork_guest).
Silent == NothingOf(old)

\* Once ~Emulator has stopped the timers their thread sends nothing: "its
\* thread queues signals on the CPUs torn down below".
Quiet == stopping = "done" => pc \in {"none", "ended"}

\* An expiry of timer f is unread, on its way, pending with the process, or
\* queued for a thread that runs.  A bit of sigpending is left out: the loop
\* of its thread need not look at it (UnblockedDelivered of Signals).
Outstanding(f) ==
    /\ stopping = "no"
    /\ \/ \E id \in DOMAIN timers :
            timers[id].fd = f /\ timers[id].expiries > 0 /\ timers[id].event.notify # "none"
       \/ job.fd = f \/ f \in shared
       \/ \E t \in Threads : /\ t \in live \/ running[t]
                             /\ \E i \in DOMAIN queue[t] : queue[t][i].fd = f

\* No expiry waits for ever at the timer, with the service thread, in the
\* process-wide set or in a queue: a thread gets it, or it becomes a bit of a
\* thread whose queue is full, or its timer is deleted or re-armed.
Moves == \A f \in Fds : Outstanding(f) ~> ~Outstanding(f)

\* ... if threads do not block the signal for ever, and the main thread is
\* not gone, as it is in the child of a worker's fork (GuestTimers::run).
ExpiryTold == <>[](blocked = {}) /\ [](Main \in live) => Moves

\* The destructor's stop ends: the service thread sees the eventfd whatever
\* is before it in the batch (GuestTimers::stop).
StopEnds == stopping = "joining" ~> stopping = "done"

-----------------------------------------------------------------------------
(* What comments and tests say, and the code does not do.                  *)

\* "otherwise process-directed to a thread that does not block it"
\* (GuestTimers.cpp): the timers a child creates as well, if a worker forked it.
ToldInChild ==
    <>[](blocked = {}) => \A f \in Fds : (f > old /\ Outstanding(f)) ~> ~(f > old /\ Outstanding(f))

\* "A POSIX timer keeps one signal queued" (CPU.hpp): in the whole process.
OneInProcess ==
    \A t, u \in Threads : \A i \in DOMAIN queue[t], j \in DOMAIN queue[u] :
        queue[t][i].id = queue[u][j].id => t = u /\ i = j

\* "While the last signal of a timer is still queued, a new expiry only
\* raises its overrun" (GuestTimers.cpp): its own signal's.
MergesOwn == \A t \in Threads : \A i \in DOMAIN queue[t] : queue[t][i].from = {queue[t][i].fd}

\* "execve destroys every timer" (GuestTimers.hpp), and clears the pending
\* signals (Exec.cpp): the new image sees none of the old timers.
ExecSilent == ~execing => NothingOf(image)
=============================================================================
