---------------------------- MODULE ThreadGroup ----------------------------
(***************************************************************************)
(* The threads of one guest process (System/Core/Threads.cpp, the exit and *)
(* execve system calls, Emulator::run): a guest thread is a host thread    *)
(* whose std::thread handle is owned by exactly one list at a time, and    *)
(* clone, thread exit, reaping, exit_group, fatal signals, execve and the  *)
(* end of run() move it from list to list and join it.                     *)
(*                                                                         *)
(* Futex sleepers are woken by wake_all_futexes under the slot locks (see  *)
(* Futex); here a thread waits only in host calls (read, epoll_wait,       *)
(* nanosleep), which nothing but KICK_SIGNAL ends.  SDL threads are not    *)
(* modelled.  threads_mu_ is held for one step at a time, never across a   *)
(* join, so it needs no variable.                                          *)
(***************************************************************************)
EXTENDS Integers, FiniteSets

CONSTANTS Main,       \* the thread of Emulator::run
          Workers,    \* the guest threads clone can make, each once
          None,       \* no thread
          Execers,    \* bound: the threads that call execve
          Blockers    \* bound: the threads that make unbounded host calls

ASSUME ThreadAssumption ==
    /\ IsFiniteSet(Workers)
    /\ Main \notin Workers
    /\ None \notin Workers

Threads == Workers \cup {Main}

VARIABLES
    at,         \* what a thread is doing
    running,    \* CPU::running
    threads,    \* threads_: the published workers
    held,       \* per thread: the workers it took out of threads_ and has yet to join
    child,      \* per thread: the worker a spawn has started and not published
    host,       \* the std::thread of a worker
    finished,   \* GuestThread::finished
    alive,      \* alive_threads_
    groupExit,  \* group_exit_
    stopped,    \* join_threads: it has told its victims to stop
    after,      \* per thread: what follows kill_other_threads
    aborted     \* std::terminate

vars == <<at, running, threads, held, child, host, finished, alive, groupExit, stopped, after, aborted>>

Places == {"none", "guest", "enter", "blocked",
           "reap", "reapjoin", "start", "publish",
           "gexit", "gmain", "gsweep", "gkick",
           "kill", "kkick", "kjoin", "exec",
           "joinall", "jpoll", "ended",
           "cleanup", "finish", "return"}

TypeOK ==
    /\ at \in [Threads -> Places]
    /\ running \in [Threads -> BOOLEAN]
    /\ threads \in SUBSET Workers
    /\ held \in [Threads -> SUBSET Workers]
    /\ child \in [Threads -> Workers \cup {None}]
    /\ host \in [Workers -> {"new", "live", "over", "joined"}]
    /\ finished \in SUBSET Workers
    /\ alive \in Nat
    /\ groupExit \in BOOLEAN /\ stopped \in BOOLEAN /\ aborted \in BOOLEAN
    /\ after \in [Threads -> {"exec", "gexit", "joinall"}]

\* run(): the main thread, alone.
Init ==
    /\ at = [t \in Threads |-> IF t = Main THEN "guest" ELSE "none"]
    /\ running = [t \in Threads |-> t = Main]
    /\ threads = {} /\ held = [t \in Threads |-> {}] /\ child = [t \in Threads |-> None]
    /\ host = [w \in Workers |-> "new"]
    /\ finished = {} /\ alive = 0
    /\ groupExit = FALSE /\ stopped = FALSE /\ aborted = FALSE
    /\ after = [t \in Threads |-> "exec"]

-----------------------------------------------------------------------------
Goto(t, from, to) == at[t] = from /\ at' = [at EXCEPT ![t] = to]

\* The loop of thread_entry or run(): the thread saw cpu.running and starts
\* a system call.
Begins(t, to) == running[t] /\ Goto(t, "guest", to)

\* KICK_SIGNAL to the threads of S while t goes on to p: a host call in
\* progress returns EINTR; one that has not begun is not affected.
Kicked(S, t, p) ==
    at' = [u \in Threads |-> IF u = t THEN p
                             ELSE IF u \in S /\ at[u] = "blocked" THEN "guest" ELSE at[u]]

Stop(S) == running' = [u \in Threads |-> running[u] /\ u \notin S]

-----------------------------------------------------------------------------
(* Host calls. *)

Wait(t) ==
    /\ t \in Blockers /\ Begins(t, "enter")
    /\ UNCHANGED <<running, threads, held, child, host, finished, alive, groupExit, stopped, after, aborted>>

EnterWait(t) ==
    /\ Goto(t, "enter", "blocked")
    /\ UNCHANGED <<running, threads, held, child, host, finished, alive, groupExit, stopped, after, aborted>>

-----------------------------------------------------------------------------
(* spawn_thread. *)

Clone(t) ==
    /\ Begins(t, "reap")
    /\ UNCHANGED <<running, threads, held, child, host, finished, alive, groupExit, stopped, after, aborted>>

\* reap_finished_threads, under the lock.
Reap(t) ==
    /\ Goto(t, "reap", "reapjoin")
    /\ held' = [held EXCEPT ![t] = threads \cap finished]
    /\ threads' = threads \ finished
    /\ UNCHANGED <<running, child, host, finished, alive, groupExit, stopped, after, aborted>>

\* Joins go in one order.
Current(t) == CHOOSE w \in held[t] : TRUE

Joining(t) == at[t] \in {"reapjoin", "kjoin", "jpoll"} /\ held[t] # {}

\* std::thread::join of a thread that has returned.
Join(t) ==
    LET w == Current(t) IN
    /\ Joining(t) /\ host[w] = "over"
    /\ host' = [host EXCEPT ![w] = "joined"]
    /\ held' = [held EXCEPT ![t] = @ \ {w}]
    /\ UNCHANGED <<at, running, threads, child, finished, alive, groupExit, stopped, after, aborted>>

\* Two threads that join each other: pthread_join may notice and refuse; the
\* exception unwinds through the list and destroys a joinable std::thread.
JoinRefused(t) ==
    LET w == Current(t) IN
    /\ Joining(t) /\ Joining(w) /\ Current(w) = t
    /\ aborted' = TRUE
    /\ UNCHANGED <<at, running, threads, held, child, host, finished, alive, groupExit, stopped, after>>

ReapDone(t) ==
    /\ held[t] = {} /\ Goto(t, "reapjoin", "start")
    /\ UNCHANGED <<running, threads, held, child, host, finished, alive, groupExit, stopped, after, aborted>>

\* Mutant: the thread is counted when it is published.
StartUncounted(t, w) ==
    /\ at[t] = "start" /\ host[w] = "new"
    /\ at' = [at EXCEPT ![t] = "publish", ![w] = "guest"]
    /\ running' = [running EXCEPT ![w] = TRUE]
    /\ host' = [host EXCEPT ![w] = "live"]
    /\ child' = [child EXCEPT ![t] = w]
    /\ UNCHANGED <<threads, held, finished, alive, groupExit, stopped, after, aborted>>

\* The host thread runs before the worker is in threads_.
Start(t, w) ==
    /\ at[t] = "start" /\ host[w] = "new"
    /\ alive' = alive + 1
    /\ at' = [at EXCEPT ![t] = "publish", ![w] = "guest"]
    /\ running' = [running EXCEPT ![w] = TRUE]
    /\ host' = [host EXCEPT ![w] = "live"]
    /\ child' = [child EXCEPT ![t] = w]
    /\ UNCHANGED <<threads, held, finished, groupExit, stopped, after, aborted>>

\* register_task has no slot, or std::thread cannot be made.
StartFails(t) ==
    /\ Goto(t, "start", "guest")
    /\ UNCHANGED <<running, threads, held, child, host, finished, alive, groupExit, stopped, after, aborted>>

Publish(t) ==
    /\ Goto(t, "publish", "guest")
    /\ threads' = threads \cup {child[t]}
    /\ child' = [child EXCEPT ![t] = None]
    /\ UNCHANGED <<running, held, host, finished, alive, groupExit, stopped, after, aborted>>

-----------------------------------------------------------------------------
(* The end of a thread. *)

\* exit(2).
Exit(t) ==
    /\ Begins(t, "guest")
    /\ running' = [running EXCEPT ![t] = FALSE]
    /\ UNCHANGED <<threads, held, child, host, finished, alive, groupExit, stopped, after, aborted>>

\* The loop ends; the robust list and clear_child_tid follow, then the count.
Leave(w) ==
    /\ w \in Workers /\ ~running[w] /\ Goto(w, "guest", "cleanup")
    /\ UNCHANGED <<running, threads, held, child, host, finished, alive, groupExit, stopped, after, aborted>>

Cleanup(w) ==
    /\ Goto(w, "cleanup", "finish")
    /\ alive' = alive - 1
    /\ UNCHANGED <<running, threads, held, child, host, finished, groupExit, stopped, after, aborted>>

Finish(w) ==
    /\ Goto(w, "finish", "return")
    /\ finished' = finished \cup {w}
    /\ UNCHANGED <<running, threads, held, child, host, alive, groupExit, stopped, after, aborted>>

Return(w) ==
    /\ w \in Workers /\ Goto(w, "return", "none")
    /\ host' = [host EXCEPT ![w] = "over"]
    /\ UNCHANGED <<running, threads, held, child, finished, alive, groupExit, stopped, after, aborted>>

-----------------------------------------------------------------------------
(* kill_other_threads. *)

Kill(t, then) ==
    /\ at' = [at EXCEPT ![t] = "kill"]
    /\ after' = [after EXCEPT ![t] = then]

\* Mutant: the victims stay in threads_.
KillCopies(t) ==
    LET victims == threads \ {t} IN
    /\ at[t] = "kill"
    /\ held' = [held EXCEPT ![t] = victims]
    /\ Stop(victims)
    /\ at' = [at EXCEPT ![t] = IF victims = {} THEN after[t] ELSE "kkick"]
    /\ UNCHANGED <<threads, child, host, finished, alive, groupExit, stopped, after, aborted>>

\* The victims are taken out of threads_ and told to stop under the lock.
KillSnapshot(t) ==
    LET victims == threads \ {t} IN
    /\ at[t] = "kill"
    /\ threads' = threads \cap {t}
    /\ held' = [held EXCEPT ![t] = victims]
    /\ Stop(victims)
    /\ at' = [at EXCEPT ![t] = IF victims = {} THEN after[t] ELSE "kkick"]
    /\ UNCHANGED <<child, host, finished, alive, groupExit, stopped, after, aborted>>

\* One kick each, then the joins.
KillKick(t) ==
    /\ at[t] = "kkick"
    /\ Kicked(held[t], t, "kjoin")
    /\ UNCHANGED <<running, threads, held, child, host, finished, alive, groupExit, stopped, after, aborted>>

KillDone(t) ==
    /\ held[t] = {} /\ Goto(t, "kjoin", after[t])
    /\ UNCHANGED <<running, threads, held, child, host, finished, alive, groupExit, stopped, after, aborted>>

-----------------------------------------------------------------------------
(* execve. *)

Execve(t) ==
    /\ t \in Execers /\ running[t] /\ at[t] = "guest"
    /\ Kill(t, "exec")
    /\ UNCHANGED <<running, threads, held, child, host, finished, alive, groupExit, stopped, aborted>>

\* The image is replaced; the caller runs the new program.
ExecImage(t) ==
    /\ Goto(t, "exec", "guest")
    /\ running' = [running EXCEPT ![t] = TRUE]
    /\ UNCHANGED <<threads, held, child, host, finished, alive, groupExit, stopped, after, aborted>>

-----------------------------------------------------------------------------
(* exit_group and fatal signals. *)

ExitGroup(t) ==
    /\ running[t] /\ at[t] = "guest"
    /\ IF t = Main THEN Kill(t, "gexit")
       ELSE at' = [at EXCEPT ![t] = "gexit"] /\ UNCHANGED after
    /\ UNCHANGED <<running, threads, held, child, host, finished, alive, groupExit, stopped, aborted>>

FatalSignal(t) ==
    /\ Begins(t, "gexit")
    /\ UNCHANGED <<running, threads, held, child, host, finished, alive, groupExit, stopped, after, aborted>>

\* group_exit: the first caller goes on to stop everybody.
GroupExit(t) ==
    /\ Goto(t, "gexit", IF groupExit THEN "guest" ELSE "gmain")
    /\ running' = [running EXCEPT ![t] = FALSE]
    /\ groupExit' = TRUE
    /\ UNCHANGED <<threads, held, child, host, finished, alive, stopped, after, aborted>>

StopMain(t) ==
    /\ Goto(t, "gmain", "gsweep")
    /\ Stop({Main})
    /\ UNCHANGED <<threads, held, child, host, finished, alive, groupExit, stopped, after, aborted>>

StopThreads(t) ==
    /\ at[t] = "gsweep"
    /\ Stop(threads)
    /\ Kicked(threads \ {t}, t, "gkick")
    /\ UNCHANGED <<threads, held, child, host, finished, alive, groupExit, stopped, after, aborted>>

KickMain(t) ==
    /\ at[t] = "gkick"
    /\ Kicked({Main}, t, "guest")
    /\ UNCHANGED <<running, threads, held, child, host, finished, alive, groupExit, stopped, after, aborted>>

-----------------------------------------------------------------------------
(* The end of run(). *)

MainLeaves ==
    /\ at[Main] = "guest" /\ ~running[Main]
    /\ IF groupExit THEN Kill(Main, "joinall")
       ELSE at' = [at EXCEPT ![Main] = "joinall"] /\ UNCHANGED after
    /\ UNCHANGED <<running, threads, held, child, host, finished, alive, groupExit, stopped, aborted>>

\* join_threads: the list is taken, everyone kicked; it returns when the list
\* was empty.
JoinSwap ==
    /\ at[Main] = "joinall"
    /\ held' = [held EXCEPT ![Main] = threads]
    /\ threads' = {}
    /\ Kicked(threads, Main, IF threads = {} THEN "ended" ELSE "jpoll")
    /\ stopped' = FALSE
    /\ UNCHANGED <<running, child, host, finished, alive, groupExit, after, aborted>>

\* Mutant: only group exits before the call are noticed.
JoinStopNever == FALSE /\ UNCHANGED vars

\* While it waits it notices a group exit, and kicks the thread it waits for
\* until that has finished.
JoinStop ==
    /\ at[Main] = "jpoll" /\ held[Main] # {} /\ Current(Main) \notin finished
    /\ ~stopped /\ groupExit
    /\ stopped' = TRUE
    /\ Stop(held[Main])
    /\ UNCHANGED <<at, threads, held, child, host, finished, alive, groupExit, after, aborted>>

\* Mutant: the poll does not kick again.
JoinKickOnce == FALSE /\ UNCHANGED vars

JoinKick ==
    /\ at[Main] = "jpoll" /\ held[Main] # {} /\ Current(Main) \notin finished
    /\ stopped
    /\ at[Current(Main)] = "blocked"
    /\ at' = [at EXCEPT ![Current(Main)] = "guest"]
    /\ UNCHANGED <<running, threads, held, child, host, finished, alive, groupExit, stopped, after, aborted>>

\* Mutant: one round is enough.
JoinRoundLast ==
    /\ held[Main] = {} /\ Goto(Main, "jpoll", "ended")
    /\ UNCHANGED <<running, threads, held, child, host, finished, alive, groupExit, stopped, after, aborted>>

JoinRound ==
    /\ held[Main] = {} /\ Goto(Main, "jpoll", "joinall")
    /\ UNCHANGED <<running, threads, held, child, host, finished, alive, groupExit, stopped, after, aborted>>

-----------------------------------------------------------------------------
\* What the guest asks for.
Guest(t) == Wait(t) \/ Clone(t) \/ Exit(t) \/ Execve(t) \/ ExitGroup(t) \/ FatalSignal(t)

\* What the emulator does on its own.
Step(t) ==
    \/ EnterWait(t)
    \/ Reap(t) \/ Join(t) \/ JoinRefused(t) \/ ReapDone(t)
    \/ (\E w \in Workers : Start(t, w)) \/ StartFails(t) \/ Publish(t)
    \/ Leave(t) \/ Cleanup(t) \/ Finish(t) \/ Return(t)
    \/ KillSnapshot(t) \/ KillKick(t) \/ KillDone(t) \/ ExecImage(t)
    \/ GroupExit(t) \/ StopMain(t) \/ StopThreads(t) \/ KickMain(t)

MainStep == MainLeaves \/ JoinSwap \/ JoinStop \/ JoinKick \/ JoinRound

Next == ~aborted /\ ((\E t \in Threads : Guest(t) \/ Step(t)) \/ MainStep)

Spec == Init /\ [][Next]_vars

\* Every host thread goes on, except inside a host call; nothing is assumed of
\* the guest.
FairSpec ==
    /\ Spec
    /\ \A t \in Threads : WF_vars(~aborted /\ Step(t))
    /\ WF_vars(~aborted /\ MainStep)

-----------------------------------------------------------------------------
(* Properties. *)

\* The threads with a list that holds worker w.
Owners(w) == {t \in Threads : w \in held[t] \/ child[t] = w}

\* The std::thread of a worker that runs, or ran and is not joined, is in
\* exactly one list: the spawner's local, threads_, or the list of the one
\* thread that will join it.  So no handle is joined twice or destroyed
\* joinable, whatever clone, reaping, exits and execs overlap.
OneOwner ==
    \A w \in Workers :
        /\ host[w] \in {"new", "joined"} => w \notin threads /\ Owners(w) = {}
        /\ host[w] \in {"live", "over"} =>
              \/ w \in threads /\ Owners(w) = {}
              \/ w \notin threads /\ \E t \in Threads : Owners(w) = {t}

\* has_only_calling_thread and futex's single-thread shortcut: when
\* alive_threads_ is 0 no worker runs guest code or its exit path's writes to
\* guest memory, not even one that clone has not published.
AliveCounts == alive = 0 => \A w \in Workers : at[w] \in {"none", "finish", "return"}

\* run() returns only when every host thread that clone ever made has been
\* joined, those of threads being spawned while it looked included
\* (~Emulator would terminate on a joinable std::thread).  It does not hold
\* when a worker that is not yet published calls execve.
NoOrphan == at[Main] = "ended" => \A w \in Workers : host[w] \in {"new", "joined"}

\* execve replaces the memory image only when every other guest thread is
\* gone, as its comment says; the main thread and unpublished workers are not.
ExecAlone ==
    \A t \in Threads : at[t] = "exec" =>
        \A u \in Threads \ {t} : at[u] \in {"none", "return"}

\* exit_group or a fatal signal ends the process if every host call returns
\* and no execve that was under way comes after it, though threads that were
\* being spawned missed the sweep (group_exit, kill_other_threads, the rounds
\* of join_threads).
GroupExitEnds ==
    (/\ \A t \in Threads : []<>(at[t] # "blocked")
     /\ [](groupExit => \A t \in Threads : at[t] # "exec"))
    => (groupExit ~> at[Main] = "ended")

\* It ends the process whatever the host calls wait for, as the comment in
\* group_exit on KICK_SIGNAL says.
GroupExitInterrupts == groupExit ~> at[Main] = "ended"

\* A main thread that already waits for the others ends with a group exit,
\* whenever their host calls began: join_threads kicks until it works.
JoinLoopEnds == (groupExit /\ at[Main] = "jpoll") ~> at[Main] = "ended"

\* An execve that waits for the other threads goes on to replace the image.
ExecEnds == \A t \in Threads : (at[t] = "kill" /\ after[t] = "exec") ~> (at[t] = "exec")
=============================================================================
