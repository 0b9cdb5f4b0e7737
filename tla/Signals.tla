------------------------------ MODULE Signals ------------------------------
(***************************************************************************)
(* Guest signals inside one process (System/Core/Signals.cpp, CPU.hpp and  *)
(* the signal system calls).  A signal is pending in one of three places:  *)
(* a thread's bounded queue (sent by another thread), a thread's           *)
(* sigpending bits (blocked when it was delivered, or the queue was full), *)
(* or the process-wide set (every thread blocked it).  Each thread takes   *)
(* its own signals at its drain points.                                    *)
(*                                                                         *)
(* A signal is a small number; registers, siginfo and the alternate stack  *)
(* are left out, and so are SIGKILL and SIGSTOP, the debugger and the host *)
(* queue, whose entries each become a kill by the thread that drains them. *)
(* view and owed are history: what the guest asked for and was sent.       *)
(***************************************************************************)
EXTENDS Integers, Sequences, FiniteSets

CONSTANTS Threads, Order,   \* the threads, and the order send_process_signal tries them in
          Process,          \* stands for the process in owed
          Signals,          \* signal numbers
          Cap,              \* PENDING_QUEUE_CAP
          Fatal,            \* default_terminates
          SaMask,           \* sa_mask of each handler
          NoDefer, ResetHand,  \* the signals handled with these flags
          Installed,        \* the first dispositions
          Actions,          \* <<signal, disposition>> pairs the guest installs
          Masks,            \* per thread: the masks it sets with rt_sigprocmask
          SuspendMasks,     \* per thread: the masks it gives rt_sigsuspend
          WaitSets,         \* per thread: the sets it gives rt_sigtimedwait
          Senders,          \* the threads that send signals
          Faults,           \* synchronous faults the guest takes
          MaxSends          \* bound on the signals sent

Dispositions == {"handler", "ignore", "default"}

ASSUME SignalAssumption ==
    /\ Signals \subseteq Nat /\ Cap \in Nat \ {0} /\ MaxSends \in Nat
    /\ Process \notin Threads
    /\ Order \in Seq(Threads)
    /\ Fatal \subseteq Signals /\ Faults \subseteq Fatal
    /\ SaMask \in [Signals -> SUBSET Signals]
    /\ Installed \in [Signals -> Dispositions]
    /\ Actions \subseteq Signals \X Dispositions
    /\ {Masks, SuspendMasks, WaitSets} \subseteq [Threads -> SUBSET SUBSET Signals]
    /\ Senders \subseteq Threads

VARIABLES
    mask,        \* CPU::sigmask
    queue,       \* CPU::pending_queue; group marks a process-directed signal
    sigpending,  \* CPU::sigpending
    shared,      \* Emulator::shared_sigpending_
    frames,      \* CPU::sig_frames: the masks to restore, last pushed first
    saved,       \* CPU::sigsuspend_saved_mask
    active,      \* CPU::sigsuspend_active
    act,         \* SignalTable::actions_
    pc,          \* where a thread is
    req,         \* the signal a thread is sending
    waits,       \* the set of the thread's rt_sigtimedwait
    exited,      \* signal_exit has ended the process
    sent,        \* number of sends, bounded
    view,        \* per thread: the mask the guest asked for, below it those of interrupted code
    owed         \* signals sent to a thread or the process and not acted on since

context == <<mask, frames, active, view, act, exited>>
pending == <<queue, sigpending, shared, owed>>
vars == <<mask, queue, sigpending, shared, frames, saved, active, act,
          pc, req, waits, exited, sent, view, owed>>

Entry == [signo : Signals, group : BOOLEAN]

NoRequest == [to |-> Process, signo |-> 0, group |-> FALSE]

Points == {"run", "shared", "call", "unblock", "push", "kick",
           "suspend", "drain", "drained", "enter", "sleep", "woken", "settled",
           "wait", "take", "other", "nap"}

Init ==
    /\ mask = [t \in Threads |-> {}] /\ view = [t \in Threads |-> <<{}>>]
    /\ queue = [t \in Threads |-> <<>>] /\ sigpending = [t \in Threads |-> {}] /\ shared = {}
    /\ frames = [t \in Threads |-> <<>>]
    /\ saved = [t \in Threads |-> {}] /\ active = [t \in Threads |-> FALSE]
    /\ act = Installed
    /\ pc = [t \in Threads |-> "run"]
    /\ req = [t \in Threads |-> NoRequest]
    /\ waits = [t \in Threads |-> {}]
    /\ exited = FALSE /\ sent = 0 /\ owed = {}

-----------------------------------------------------------------------------
Goto(t, from, to) == ~exited /\ pc[t] = from /\ pc' = [pc EXCEPT ![t] = to]

Lowest(S) == CHOOSE s \in S : \A r \in S : s <= r

\* The entries of a queue at the positions P, in their order: the position of
\* rank k is the one with k of P up to it.  (SelectSeq, by position: no prover
\* sees into SelectSeq.)
Rank(P, i) == Cardinality({j \in P : j <= i})

Keep(q, P) == [k \in 1..Cardinality(P) |-> q[CHOOSE i \in P : Rank(P, i) = k]]

Kills(s) == act[s] = "default" /\ s \in Fatal

\* A signal of S has been acted on by t, as far as its senders can tell.
Settle(t, S) == owed' = owed \ ({t, Process} \X S)

Context(t, m, a) == mask' = [mask EXCEPT ![t] = m] /\ active' = [active EXCEPT ![t] = a]

\* A mistaken variant: the frame saves the temporary mask.
HandleTemporary(t, s) ==
    /\ exited' = Kills(s)
    /\ IF act[s] = "handler"
       THEN /\ frames' = [frames EXCEPT ![t] = <<mask[t]>> \o @]
            /\ Context(t, mask[t] \cup SaMask[s] \cup ({s} \ NoDefer), FALSE)
            /\ view' = [view EXCEPT ![t] = <<Head(@) \cup SaMask[s] \cup ({s} \ NoDefer)>> \o @]
            /\ act' = IF s \in ResetHand THEN [act EXCEPT ![s] = "default"] ELSE act
       ELSE UNCHANGED <<frames, mask, active, view, act>>

\* deliver_signal of a signal t does not block.  The frame saves the mask of
\* before rt_sigsuspend or rt_sigtimedwait when one is under way.
Handle(t, s) ==
    LET back == IF active[t] THEN saved[t] ELSE mask[t]
        more == SaMask[s] \cup ({s} \ NoDefer)
    IN  /\ exited' = Kills(s)
        /\ IF act[s] = "handler"
           THEN /\ frames' = [frames EXCEPT ![t] = <<back>> \o @]
                /\ Context(t, back \cup more, FALSE)
                /\ view' = [view EXCEPT ![t] = <<Head(@) \cup more>> \o @]
                /\ act' = IF s \in ResetHand THEN [act EXCEPT ![s] = "default"] ELSE act
           ELSE UNCHANGED <<frames, mask, active, view, act>>

\* deliver_pending_signals: one signal, the thread's own before the
\* process's, the lowest first; it counts as delivered even if it is ignored.
Waiting(t) == (sigpending[t] \cup shared) \ mask[t]

DeliverPending(t) ==
    LET own == sigpending[t] \ mask[t]
        s == Lowest(IF own # {} THEN own ELSE shared \ mask[t])
    IN  /\ Waiting(t) # {}
        /\ IF own # {} THEN sigpending' = [sigpending EXCEPT ![t] = @ \ {s}] /\ UNCHANGED shared
                       ELSE shared' = shared \ {s} /\ UNCHANGED sigpending
        /\ Settle(t, {s})
        /\ Handle(t, s)
        /\ UNCHANGED <<queue, saved, req, waits, sent>>

NothingPending(t) == Waiting(t) = {} /\ UNCHANGED <<pending, saved, req, waits, sent>>

-----------------------------------------------------------------------------
(* drain_pending_signals, at a run-loop boundary, before a system call and *)
(* in handle_eintr: the queue, then the process-wide set.                  *)

\* The loop over pop_pending: signals without effect are dropped, up to the
\* first that runs a handler or kills; blocked ones keep their places.
DrainQueue(t, from, to) ==
    LET q == queue[t]
        Free(i) == q[i].signo \notin mask[t]
        stops == {i \in 1..Len(q) : Free(i) /\ (act[q[i].signo] = "handler" \/ Kills(q[i].signo))}
        last == IF stops = {} THEN Len(q) ELSE Lowest(stops)
        taken == {i \in 1..last : Free(i)}
    IN  /\ queue' = [queue EXCEPT ![t] = Keep(q, (1..Len(q)) \ taken)]
        /\ Settle(t, {q[i].signo : i \in taken})
        /\ IF stops = {} THEN Goto(t, from, to) /\ UNCHANGED context
                         ELSE Goto(t, from, "run") /\ Handle(t, q[last].signo)
        /\ UNCHANGED <<sigpending, shared, saved, req, waits, sent>>

\* deliver_pending_signals, called only when the process-wide set has an
\* unblocked signal.
DrainShared(t, from) == shared \ mask[t] # {} /\ DeliverPending(t) /\ Goto(t, from, "run")

NoneShared(t) == shared \ mask[t] = {} /\ UNCHANGED <<pending, saved, req, waits, sent>>

\* A mistaken variant: a drain is over when the queue is.
DrainedQueueOnly(t) ==
    /\ Goto(t, "shared", "call")
    /\ UNCHANGED <<context, pending, saved, req, waits, sent>>

\* At a run-loop boundary or before a system call; only when nothing was
\* delivered does the system call run, or the loop go on.
Drain(t) == DrainQueue(t, "run", "shared")

Drained(t) ==
    \/ DrainShared(t, "shared")
    \/ NoneShared(t) /\ Goto(t, "shared", "call") /\ UNCHANGED context

Resume(t) == Goto(t, "call", "run") /\ UNCHANGED <<context, pending, saved, req, waits, sent>>

-----------------------------------------------------------------------------
(* Sending. *)

Sends(t) == t \in Senders /\ sent < MaxSends /\ sent' = sent + 1

Sent(t) == req' = [req EXCEPT ![t] = NoRequest]

\* deliver_signal to the sender itself: a blocked signal becomes a bit.
Self(t, s, owner) ==
    /\ Sends(t) /\ Goto(t, "call", "run")
    /\ IF s \in mask[t]
       THEN /\ sigpending' = [sigpending EXCEPT ![t] = @ \cup {s}]
            /\ owed' = owed \cup {<<owner, s>>}
            /\ UNCHANGED context
       ELSE Handle(t, s) /\ Settle(t, {s}) /\ UNCHANGED sigpending
    /\ UNCHANGED <<queue, shared, saved, req, waits>>

Asks(t, u, s, group) ==
    /\ Sends(t) /\ Goto(t, "call", "push")
    /\ req' = [req EXCEPT ![t] = [to |-> u, signo |-> s, group |-> group]]
    /\ UNCHANGED <<context, pending, saved, waits>>

\* tgkill and tkill.
TgkillSelf(t, s) == Self(t, s, t)

Tgkill(t, u, s) == u # t /\ Asks(t, u, s, FALSE)

\* kill of this process, and a host signal: the sender, else the first
\* thread that does not block it, else the process-wide set.
KillSelf(t, s) == s \notin mask[t] /\ Self(t, s, Process)

Target(t, s) ==
    LET free == {i \in DOMAIN Order : Order[i] # t /\ s \notin mask[Order[i]]}
    IN  IF free = {} THEN Process ELSE Order[Lowest(free)]

Kill(t, s) == s \in mask[t] /\ Asks(t, Target(t, s), s, TRUE)

\* shared_sigpending_.fetch_or: nobody is kicked.
Share(t) ==
    LET s == req[t].signo
    IN  /\ req[t].to = Process /\ Goto(t, "push", "run")
        /\ shared' = shared \cup {s} /\ owed' = owed \cup {<<Process, s>>}
        /\ Sent(t)
        /\ UNCHANGED <<context, queue, sigpending, saved, waits, sent>>

\* signal_kills_process, and then push_pending with its overflow fallback.
KillsTarget(t) ==
    LET u == req[t].to  s == req[t].signo
    IN  /\ u # Process /\ s \notin mask[u] /\ Kills(s) /\ Goto(t, "push", "run")
        /\ exited' = TRUE
        /\ Sent(t)
        /\ UNCHANGED <<mask, frames, active, view, act, pending, saved, waits, sent>>

\* A mistaken variant: a full queue drops the signal.
PushDrops(t) ==
    LET u == req[t].to  s == req[t].signo
    IN  /\ u # Process /\ ~(s \notin mask[u] /\ Kills(s)) /\ Goto(t, "push", "kick")
        /\ owed' = owed \cup {<<IF req[t].group THEN Process ELSE u, s>>}
        /\ queue' = IF Len(queue[u]) < Cap
                    THEN [queue EXCEPT ![u] = Append(@, [signo |-> s, group |-> req[t].group])]
                    ELSE queue
        /\ UNCHANGED <<context, sigpending, shared, saved, req, waits, sent>>

Push(t) ==
    LET u == req[t].to  s == req[t].signo
    IN  /\ u # Process /\ ~(s \notin mask[u] /\ Kills(s)) /\ Goto(t, "push", "kick")
        /\ owed' = owed \cup {<<IF req[t].group THEN Process ELSE u, s>>}
        /\ IF Len(queue[u]) < Cap
           THEN /\ queue' = [queue EXCEPT ![u] = Append(@, [signo |-> s, group |-> req[t].group])]
                /\ UNCHANGED sigpending
           ELSE sigpending' = [sigpending EXCEPT ![u] = @ \cup {s}] /\ UNCHANGED queue
        /\ UNCHANGED <<context, shared, saved, req, waits, sent>>

\* kick_cpu_wait: KICK_SIGNAL ends a host sigsuspend in progress; a thread
\* that has yet to enter it runs the empty handler and then sleeps.
Kick(t) ==
    LET u == req[t].to
        heard == req[t].group \/ req[t].signo \notin mask[u]
    IN  /\ ~exited /\ pc[t] = "kick"
        /\ pc' = [v \in Threads |-> IF v = t THEN "run"
                                   ELSE IF v = u /\ heard /\ pc[v] = "sleep" THEN "woken" ELSE pc[v]]
        /\ Sent(t)
        /\ UNCHANGED <<context, pending, saved, waits, sent>>

-----------------------------------------------------------------------------
(* Masks, handlers, dispositions. *)

\* rt_sigprocmask.
SetMask(t, m) ==
    /\ Goto(t, "call", "unblock")
    /\ mask' = [mask EXCEPT ![t] = m] /\ view' = [view EXCEPT ![t] = <<m>> \o Tail(@)]
    /\ UNCHANGED <<frames, active, act, exited, pending, saved, req, waits, sent>>

\* rt_sigreturn.
Sigreturn(t) ==
    /\ frames[t] # <<>> /\ Goto(t, "call", "unblock")
    /\ mask' = [mask EXCEPT ![t] = Head(frames[t])]
    /\ frames' = [frames EXCEPT ![t] = Tail(@)] /\ view' = [view EXCEPT ![t] = Tail(@)]
    /\ UNCHANGED <<active, act, exited, pending, saved, req, waits, sent>>

\* Both end with deliver_pending_signals.
Unblock(t) ==
    \/ DeliverPending(t) /\ Goto(t, "unblock", "run")
    \/ NothingPending(t) /\ Goto(t, "unblock", "run") /\ UNCHANGED context

\* rt_sigaction.
Sigaction(t, s, a) ==
    /\ act[s] # a /\ Goto(t, "call", "run")
    /\ act' = [act EXCEPT ![s] = a]
    /\ UNCHANGED <<mask, frames, active, view, exited, pending, saved, req, waits, sent>>

\* force_signal: a blocked or ignored fault is made deliverable, by default.
Fault(t, s) ==
    /\ Sends(t) /\ Goto(t, "run", "run")
    /\ IF s \in mask[t] \/ act[s] = "ignore"
       THEN /\ act' = [act EXCEPT ![s] = "default"] /\ mask' = [mask EXCEPT ![t] = @ \ {s}]
            /\ exited' = TRUE
            /\ UNCHANGED <<frames, active, view>>
       ELSE Handle(t, s)
    /\ UNCHANGED <<pending, saved, req, waits>>

-----------------------------------------------------------------------------
(* rt_sigsuspend. *)

\* The temporary mask m, while the frame of a handler is to save the old one.
Borrow(t, m) ==
    /\ saved' = [saved EXCEPT ![t] = mask[t]]
    /\ Context(t, m, TRUE)
    /\ UNCHANGED <<frames, view, act, exited, pending, req, sent>>

\* The end without a handler.
Restore(t) == Context(t, saved[t], FALSE) /\ UNCHANGED <<frames, view, act, exited>>

Suspend(t, m) == Goto(t, "call", "suspend") /\ Borrow(t, m) /\ UNCHANGED waits

SuspendPending(t) ==
    \/ DeliverPending(t) /\ Goto(t, "suspend", "run")
    \/ NothingPending(t) /\ Goto(t, "suspend", "drain") /\ UNCHANGED context

\* handle_eintr, and if it delivers nothing the host's sigsuspend.
SuspendDrain(t) == DrainQueue(t, "drain", "drained")

SuspendDrained(t) ==
    \/ DrainShared(t, "drained")
    \/ NoneShared(t) /\ Goto(t, "drained", "enter") /\ UNCHANGED context

Sleep(t) == Goto(t, "enter", "sleep") /\ UNCHANGED <<context, pending, saved, req, waits, sent>>

\* handle_eintr again, after a kick.
Woken(t) == DrainQueue(t, "woken", "settled")

SuspendEnds(t) ==
    \/ DrainShared(t, "settled")
    \/ NoneShared(t) /\ Goto(t, "settled", "run") /\ Restore(t)

-----------------------------------------------------------------------------
(* rt_sigtimedwait: a loop over 10 ms naps. *)

Sigwait(t, W) ==
    /\ Goto(t, "call", "wait") /\ Borrow(t, mask[t] \cup W)
    /\ waits' = [waits EXCEPT ![t] = W]

\* Returns a signal of the set, without a handler.
Returns(t, from, s) == Goto(t, from, "run") /\ Settle(t, {s}) /\ Restore(t)

\* A mistaken variant: pop_pending passes over the set too, as it is blocked.
WaitQueueBlocked(t) ==
    LET q == queue[t]
    IN  /\ queue' = [queue EXCEPT ![t] = Keep(q, {i \in 1..Len(q) : q[i].signo \in mask[t]})]
        /\ sigpending' = [sigpending EXCEPT ![t] = @ \cup ({q[i].signo : i \in DOMAIN q} \ mask[t])]
        /\ Goto(t, "wait", "take")
        /\ UNCHANGED <<context, owed, shared, saved, req, waits, sent>>

\* pop_pending passes over what is blocked outside the set; what is neither
\* blocked nor in the set is folded into sigpending.
WaitQueue(t) ==
    LET q == queue[t]  W == waits[t]
        hits == {i \in 1..Len(q) : q[i].signo \in W}
        last == IF hits = {} THEN Len(q) ELSE Lowest(hits)
        taken == {i \in 1..last : q[i].signo \in W \/ q[i].signo \notin mask[t]}
    IN  /\ queue' = [queue EXCEPT ![t] = Keep(q, (1..Len(q)) \ taken)]
        /\ sigpending' = [sigpending EXCEPT ![t] = @ \cup ({q[i].signo : i \in taken} \ W)]
        /\ IF hits # {} THEN Returns(t, "wait", q[last].signo)
                        ELSE Goto(t, "wait", "take") /\ UNCHANGED <<context, owed>>
        /\ UNCHANGED <<shared, saved, req, waits, sent>>

WaitTake(t) ==
    LET own == sigpending[t] \cap waits[t]
        all == shared \cap waits[t]
    IN  /\ IF own # {} THEN /\ sigpending' = [sigpending EXCEPT ![t] = @ \ {Lowest(own)}]
                            /\ Returns(t, "take", Lowest(own)) /\ UNCHANGED shared
           ELSE IF all # {} THEN /\ shared' = shared \ {Lowest(all)}
                                 /\ Returns(t, "take", Lowest(all)) /\ UNCHANGED sigpending
           ELSE Goto(t, "take", "other") /\ UNCHANGED <<context, sigpending, shared, owed>>
        /\ UNCHANGED <<queue, saved, req, waits, sent>>

\* What is unblocked outside the set; then look again or nap.
WaitOther(t) ==
    \/ DeliverPending(t) /\ Goto(t, "other", "run")
    \/ /\ NothingPending(t) /\ UNCHANGED context
       /\ Goto(t, "other", IF (sigpending[t] \cup shared) \cap waits[t] # {} THEN "wait" ELSE "nap")

Nap(t) == Goto(t, "nap", "wait") /\ UNCHANGED <<context, pending, saved, req, waits, sent>>

\* The deadline has passed.
WaitEnds(t) ==
    /\ Goto(t, "nap", "run") /\ Restore(t)
    /\ UNCHANGED <<pending, saved, req, waits, sent>>

-----------------------------------------------------------------------------
\* What the emulator does without the guest asking for it.
Steps(t) ==
    \/ Drain(t) \/ Drained(t) \/ Resume(t) \/ Unblock(t)
    \/ Share(t) \/ KillsTarget(t) \/ Push(t) \/ Kick(t)
    \/ SuspendPending(t) \/ SuspendDrain(t) \/ SuspendDrained(t) \/ Sleep(t)
    \/ Woken(t) \/ SuspendEnds(t)
    \/ WaitQueue(t) \/ WaitTake(t) \/ WaitOther(t) \/ Nap(t)

Guest(t) ==
    \/ \E s \in Signals : TgkillSelf(t, s) \/ KillSelf(t, s) \/ Kill(t, s)
    \/ \E u \in Threads, s \in Signals : Tgkill(t, u, s)
    \/ \E s \in Faults : Fault(t, s)
    \/ \E m \in Masks[t] : SetMask(t, m)
    \/ Sigreturn(t)
    \/ \E a \in Actions : Sigaction(t, a[1], a[2])
    \/ \E m \in SuspendMasks[t] : Suspend(t, m)
    \/ \E W \in WaitSets[t] : Sigwait(t, W)
    \/ WaitEnds(t)

Next == \E t \in Threads : Steps(t) \/ Guest(t)

Spec == Init /\ [][Next]_vars

\* The host schedules every thread; the handlers of the guest return, whatever
\* else they call on the way.
FairSpec == Spec /\ \A t \in Threads : WF_vars(Steps(t)) /\ SF_vars(Sigreturn(t))

-----------------------------------------------------------------------------
PendingAt(t) == sigpending[t] \cup {queue[t][i].signo : i \in DOMAIN queue[t]}

\* Types: a queue never outgrows its array, and a thread that sleeps or waits
\* has a mask to come back to.
TypeOK ==
    /\ mask \in [Threads -> SUBSET Signals] /\ saved \in [Threads -> SUBSET Signals]
    /\ queue \in [Threads -> Seq(Entry)] /\ \A t \in Threads : Len(queue[t]) <= Cap
    /\ sigpending \in [Threads -> SUBSET Signals] /\ shared \in SUBSET Signals
    /\ frames \in [Threads -> Seq(SUBSET Signals)] /\ view \in [Threads -> Seq(SUBSET Signals)]
    /\ active \in [Threads -> BOOLEAN] /\ act \in [Signals -> Dispositions]
    /\ pc \in [Threads -> Points]
    /\ req \in [Threads -> [to : Threads \cup {Process}, signo : Signals \cup {0}, group : BOOLEAN]]
    /\ waits \in [Threads -> SUBSET Signals]
    /\ exited \in BOOLEAN /\ sent \in 0..MaxSends
    /\ owed \in SUBSET ((Threads \cup {Process}) \X Signals)
    /\ \A t \in Threads : pc[t] \in {"sleep", "woken", "wait", "nap"} => active[t]

\* While guest code runs, its mask and the masks its handlers return to are
\* the ones it asked for: a temporary mask of rt_sigsuspend or rt_sigtimedwait
\* never outlives the call, through any nesting of handlers.
OwnMask == \A t \in Threads : pc[t] \in {"run", "call"} /\ ~exited => <<mask[t]>> \o frames[t] = view[t]

\* A signal that was sent and not acted on since is still pending where the
\* thread, or for a process-directed one some thread, can find it.
NoSignalLost ==
    \A w \in owed : IF w[1] = Process THEN w[2] \in shared \cup UNION {PendingAt(t) : t \in Threads}
                                      ELSE w[2] \in PendingAt(w[1])

Unblocked(t, s) == ~exited /\ s \in PendingAt(t) /\ s \notin mask[t]

\* A pending signal a thread does not block is acted on by its next drains,
\* unless the thread blocks it again.
UnblockedDelivered == \A t \in Threads, s \in Signals : Unblocked(t, s) ~> ~Unblocked(t, s)

\* Some thread other than one asleep in rt_sigsuspend (no kick follows) can
\* take s from the process-wide set.
Takeable(s) == \E t \in Threads : ~exited /\ s \in shared \ mask[t] /\ pc[t] # "sleep"

\* Each call of deliver_pending_signals takes one signal of all those pending:
\* a process-wide signal it passed over is taken by a later call, of whichever
\* thread, unless all of them block it again.
SharedDelivered == \A s \in Signals : Takeable(s) ~> ~Takeable(s)

\* rt_sigtimedwait returns once a signal of its set is pending for the thread.
WaiterReturns ==
    \A t \in Threads :
        (~exited /\ pc[t] \in {"wait", "take", "other", "nap"} /\ waits[t] \cap PendingAt(t) # {})
            ~> (exited \/ pc[t] = "run")

\* A thread asleep in rt_sigsuspend does not stay asleep with a signal pending
\* that its temporary mask lets through.
SleeperWakes ==
    \A t \in Threads, s \in Signals : (pc[t] = "sleep" /\ Unblocked(t, s)) ~> (exited \/ pc[t] # "sleep")

\* rt_sigpending: "Blocked signals pending for this thread or the process".
rt_sigpending(t) == (sigpending[t] \cup shared) \cap mask[t]

PendingReported ==
    \A t \in Threads : pc[t] = "call" => (PendingAt(t) \cup shared) \cap mask[t] \subseteq rt_sigpending(t)
=============================================================================
