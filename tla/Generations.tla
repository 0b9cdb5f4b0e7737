----------------------------- MODULE Generations -----------------------------
(***************************************************************************)
(* Code-cache generations: how a full FrostJIT instance is replaced        *)
(* (Emulator::renew_jit) and its code released once no thread can run it   *)
(* (FrostJIT/Runtime/Generations.{hpp,cpp}), with the dispatch loop and    *)
(* the nested calls that enter generated code.                             *)
(*                                                                         *)
(* An instance is a number, in order of creation.  A thread's generated    *)
(* frames are the stack of the instances they belong to: run_block enters  *)
(* the first, each nested jit_call_helper one more (jit_call_depth is one  *)
(* less than the stack's length).                                          *)
(***************************************************************************)
EXTENDS Naturals, Sequences, FiniteSets

CONSTANTS Threads,          \* host threads that run guest code
          First,            \* the main thread, alive from the start
          MaxUnreleased,    \* kMaxUnreleased
          MaxDepth,         \* JIT_MAX_CALL_DEPTH
          MaxGens           \* bound: instances created

ASSUME GenerationsAssumption ==
    /\ First \in Threads
    /\ MaxUnreleased \in Nat \ {0}
    /\ MaxDepth \in Nat
    /\ MaxGens \in Nat \ {0}
    /\ "nobody" \notin Threads

Gens == 1..MaxGens

\* current_ holds no instance; nobody holds a mutex.
NoGen == 0
Nobody == "nobody"
Reaper == "reaper"

VARIABLES
    \* threads
    at,             \* where each thread is in its C++
    ptr,            \* the instance it dispatches on (`this`, or jit_call_helper's jit)
    frames,         \* its generated frames, innermost last
    svc,            \* cpu.jit_svc_pc is set
    seen,           \* the epoch boundary() has loaded
    \* thread slots
    slots,          \* Registry::slots
    acked, parked,  \* ThreadSlot
    \* instances
    made,           \* instances created so far
    current,        \* JitSet::current_
    owned,          \* JitSet::owned_ (live_ is what is not released of it)
    retired,        \* the instances whose retired_ is set
    retiredEpoch,   \* retired_epoch_, 0 before
    released,       \* the instances whose released_ is set
    abandoned,      \* instances JitSet::abandon leaked
    ending,         \* how far ~JitSet is
    \* global state
    epoch,          \* g_epoch
    renewing,       \* the holder of jit_renew_mu_
    \* registry
    mu,             \* the holder of Registry::mu
    pending, releasing, retiredTotal, releasedTotal,
    \* reaper
    rp, scan, cand, todo, ready

threadVars == <<at, ptr, frames, svc, seen>>
slotVars == <<slots, acked, parked>>
jitVars == <<made, current, owned, retired, retiredEpoch, released, abandoned, ending>>
registryVars == <<pending, releasing, retiredTotal, releasedTotal>>
reaperVars == <<rp, scan, cand, todo, ready>>
world == <<jitVars, epoch, renewing, mu, registryVars, reaperVars>>
vars == <<threadVars, slotVars, world>>

-----------------------------------------------------------------------------
(* Types. *)

\* Outside run_block; the steps of boundary(); those of a lookup in C++; those
\* of renew_jit; in generated code, in the helper's loop, in a syscall; no
\* host thread.
BoundaryPcs == {"register", "push", "unpark", "epoch", "ack", "flag"}
RenewPcs == {"renew", "lock", "recheck", "retire", "advance", "queue"}
Pcs == {"out", "run", "lookup", "found", "code", "helper", "blocked", "gone"}
          \cup BoundaryPcs \cup RenewPcs

ThreadsOK ==
    /\ at \in [Threads -> Pcs]
    /\ ptr \in [Threads -> Gens \cup {NoGen}]
    /\ frames \in [Threads -> Seq(Gens)]
    /\ svc \in [Threads -> BOOLEAN]
    /\ seen \in [Threads -> Nat]

SlotsOK ==
    /\ slots \in SUBSET Threads
    /\ acked \in [Threads -> Nat]
    /\ parked \in [Threads -> BOOLEAN]

InstancesOK ==
    /\ made \in Gens
    /\ current \in Gens \cup {NoGen}
    /\ owned \in SUBSET Gens
    /\ retired \in SUBSET Gens
    /\ retiredEpoch \in [Gens -> Nat]
    /\ released \in SUBSET Gens
    /\ abandoned \in SUBSET Gens
    /\ ending \in {"no", "forget", "freed"}
    /\ epoch \in Nat \ {0}
    /\ renewing \in Threads \cup {Nobody}

RegistryOK ==
    /\ mu \in {Reaper, Nobody}
    /\ pending \in SUBSET Gens
    /\ releasing \in SUBSET Gens
    /\ retiredTotal \in Nat
    /\ releasedTotal \in Nat
    /\ rp \in {"idle", "pick", "slot", "release", "count"}
    /\ scan \in SUBSET Gens
    /\ cand \in Gens \cup {NoGen}
    /\ todo \in SUBSET Threads
    /\ ready \in SUBSET Gens

TypeOK == ThreadsOK /\ SlotsOK /\ InstancesOK /\ RegistryOK

-----------------------------------------------------------------------------
Init ==
    /\ at = [t \in Threads |-> IF t = First THEN "out" ELSE "gone"]
    /\ ptr = [t \in Threads |-> NoGen]
    /\ frames = [t \in Threads |-> <<>>]
    /\ svc = [t \in Threads |-> FALSE]
    /\ seen = [t \in Threads |-> 0]
    /\ slots = {}
    /\ acked = [t \in Threads |-> 0]
    /\ parked = [t \in Threads |-> FALSE]
    /\ made = 1
    /\ current = 1
    /\ owned = {1}
    /\ retired = {}
    /\ retiredEpoch = [g \in Gens |-> 0]
    /\ released = {}
    /\ abandoned = {}
    /\ ending = "no"
    /\ epoch = 1
    /\ renewing = Nobody
    /\ mu = Nobody
    /\ pending = {} /\ releasing = {} /\ retiredTotal = 0 /\ releasedTotal = 0
    /\ rp = "idle" /\ scan = {} /\ cand = NoGen /\ todo = {} /\ ready = {}

Goto(t, from, to) == at[t] = from /\ at' = [at EXCEPT ![t] = to]

\* The generated frame a thread runs in, and the instances of all of them.
Innermost(t) == frames[t][Len(frames[t])]

OnStack(s) == {s[i] : i \in 1..Len(s)}

\* Where control is once generated code or a dispatched step has returned to
\* C++ over a stack of n frames.
Over(n) == IF n = 0 THEN "out" ELSE "helper"

\* jit_.get() succeeded where an instance hands over to its successor.
MovesOn(g) == g \in retired /\ current # NoGen /\ current # g

unreleased == retiredTotal - releasedTotal

-----------------------------------------------------------------------------
(* The dispatch loop of a thread and the prologue of run_block, with no    *)
(* generated frame on its stack.                                           *)

\* The main loop and thread_entry re-read the current instance on every
\* dispatch; without one they interpret.
Dispatch(t) ==
    /\ ending = "no" /\ current # NoGen
    /\ Goto(t, "out", IF t \in slots THEN "unpark" ELSE "register")
    /\ ptr' = [ptr EXCEPT ![t] = current]
    /\ UNCHANGED <<frames, svc, seen, slotVars, world>>

\* register_thread: the epoch goes into the new slot ...
RegisterEpoch(t) ==
    /\ Goto(t, "register", "push")
    /\ acked' = [acked EXCEPT ![t] = epoch]
    /\ parked' = [parked EXCEPT ![t] = FALSE]
    /\ UNCHANGED <<ptr, frames, svc, seen, slots, world>>

\* ... before the slot is published.
RegisterSlot(t) ==
    /\ mu = Nobody
    /\ Goto(t, "push", "unpark")
    /\ slots' = slots \cup {t}
    /\ UNCHANGED <<ptr, frames, svc, seen, acked, parked, world>>

\* boundary(): leave a park, ...
Unpark(t) ==
    /\ Goto(t, "unpark", "epoch")
    /\ parked' = [parked EXCEPT ![t] = FALSE]
    /\ UNCHANGED <<ptr, frames, svc, seen, slots, acked, world>>

\* ... load the epoch, ...
LoadEpoch(t) ==
    /\ Goto(t, "epoch", "ack")
    /\ seen' = [seen EXCEPT ![t] = epoch]
    /\ UNCHANGED <<ptr, frames, svc, slotVars, world>>

\* ... and acknowledge it.
Ack(t) ==
    /\ Goto(t, "ack", "flag")
    /\ acked' = [acked EXCEPT ![t] = seen[t]]
    /\ UNCHANGED <<ptr, frames, svc, seen, slots, parked, world>>

\* A retired instance forwards to the current one's run_block, which starts
\* with a boundary of its own.
CheckRetired(t) ==
    /\ Goto(t, "flag", IF MovesOn(ptr[t]) THEN "unpark" ELSE "run")
    /\ ptr' = [ptr EXCEPT ![t] = IF MovesOn(@) THEN current ELSE @]
    /\ UNCHANGED <<frames, svc, seen, slotVars, world>>

-----------------------------------------------------------------------------
(* One dispatch, by run_block over no frames or by jit_call_helper's loop  *)
(* over some.                                                              *)

\* Mutant: a syscall inside a nested call parks as well.
RunSvcParksAlways(t) ==
    /\ svc[t]
    /\ Goto(t, "run", "blocked")
    /\ svc' = [svc EXCEPT ![t] = FALSE]
    /\ parked' = [parked EXCEPT ![t] = TRUE]
    /\ UNCHANGED <<ptr, frames, seen, slots, acked, world>>

\* Mutant: no syscall parks.
RunSvcNeverParks(t) ==
    /\ svc[t]
    /\ Goto(t, "run", "blocked")
    /\ svc' = [svc EXCEPT ![t] = FALSE]
    /\ UNCHANGED <<ptr, frames, seen, slotVars, world>>

\* run_pending_svc: the syscall a block left to C++.
RunSvc(t) ==
    /\ svc[t]
    /\ Goto(t, "run", "blocked")
    /\ svc' = [svc EXCEPT ![t] = FALSE]
    /\ parked' = [parked EXCEPT ![t] = @ \/ frames[t] = <<>>]
    /\ UNCHANGED <<ptr, frames, seen, slots, acked, world>>

\* A signal or the debugger moved the pc first: the pending SVC is dropped.
DropSvc(t) ==
    /\ svc[t]
    /\ Goto(t, "run", "lookup")
    /\ svc' = [svc EXCEPT ![t] = FALSE]
    /\ UNCHANGED <<ptr, frames, seen, slotVars, world>>

\* run_block interprets on an instance without code; jit_call_helper does not
\* ask.
Run(t) ==
    /\ ~svc[t]
    /\ Goto(t, "run", IF frames[t] = <<>> /\ ptr[t] \in released THEN "out" ELSE "lookup")
    /\ UNCHANGED <<ptr, frames, svc, seen, slotVars, world>>

\* The syscall returns; the caller's loop goes on.
SyscallReturns(t) ==
    /\ Goto(t, "blocked", Over(Len(frames[t])))
    /\ UNCHANGED <<ptr, frames, svc, seen, slotVars, world>>

\* A cached or compiled block: enter it.
EnterCode(t) ==
    /\ \E from \in {"lookup", "found"} : Goto(t, from, "code")
    /\ frames' = [frames EXCEPT ![t] = Append(@, ptr[t])]
    /\ UNCHANGED <<ptr, svc, seen, slotVars, world>>

\* An interpreter-only block: one step in C++.
Interpret(t) ==
    /\ \E from \in {"lookup", "found"} : Goto(t, from, Over(Len(frames[t])))
    /\ UNCHANGED <<ptr, frames, svc, seen, slotVars, world>>

\* The block returns to the C++ that entered it, ending at an SVC (left to be
\* run there) or not.  The helper's instance is the one whose code returned.
ExitCode(t, atSvc) ==
    /\ Goto(t, "code", Over(Len(frames[t]) - 1))
    /\ frames' = [frames EXCEPT ![t] = SubSeq(@, 1, Len(@) - 1)]
    /\ ptr' = [ptr EXCEPT ![t] = Innermost(t)]
    /\ svc' = [svc EXCEPT ![t] = @ \/ atSvc]
    /\ UNCHANGED <<seen, slotVars, world>>

\* A call in generated code: jit_call_helper, on the instance of its caller.
\* At the depth limit the block unwinds instead (ExitCode).
Call(t) ==
    /\ Len(frames[t]) <= MaxDepth
    /\ Goto(t, "code", "helper")
    /\ ptr' = [ptr EXCEPT ![t] = Innermost(t)]
    /\ UNCHANGED <<frames, svc, seen, slotVars, world>>

\* The helper's loop: moves to the current instance once its own is retired.
HelperLoop(t) ==
    /\ Goto(t, "helper", "run")
    /\ ptr' = [ptr EXCEPT ![t] = IF MovesOn(@) THEN current ELSE @]
    /\ UNCHANGED <<frames, svc, seen, slotVars, world>>

\* The callee has returned: back to the generated caller.
HelperReturn(t) ==
    /\ Goto(t, "helper", "code")
    /\ UNCHANGED <<ptr, frames, svc, seen, slotVars, world>>
-----------------------------------------------------------------------------
(* translate_entry and Emulator::renew_jit.                                *)

\* A compile ran the code budget out and renewal_wanted(): ask for a successor.
WantRenewal(t) ==
    /\ ptr[t] \notin retired
    /\ Goto(t, "lookup", "renew")
    /\ UNCHANGED <<ptr, frames, svc, seen, slotVars, world>>

\* Refused while too many retired instances are unreleased.
RenewCheck(t) ==
    /\ Goto(t, "renew", IF unreleased >= MaxUnreleased THEN "found" ELSE "lock")
    /\ UNCHANGED <<ptr, frames, svc, seen, slotVars, world>>

RenewLock(t) ==
    /\ renewing = Nobody
    /\ Goto(t, "lock", "recheck")
    /\ renewing' = t
    /\ UNCHANGED <<ptr, frames, svc, seen, slotVars, jitVars, epoch, mu, registryVars, reaperVars>>

\* Mutant: the cap is checked only before the lock.
RenewPublishUnchecked(t) ==
    /\ current = ptr[t]
    /\ made < MaxGens
    /\ Goto(t, "recheck", "retire")
    /\ made' = made + 1 /\ current' = made + 1 /\ owned' = owned \cup {made + 1}
    /\ UNCHANGED <<ptr, frames, svc, seen, slotVars, retired, retiredEpoch, released, abandoned,
                   ending, epoch, renewing, mu, registryVars, reaperVars>>

\* Under the lock: still the current instance, and still allowed.  JitSet::add
\* publishes the fresh one.
RenewPublish(t) ==
    /\ current = ptr[t]
    /\ unreleased < MaxUnreleased
    /\ made < MaxGens
    /\ Goto(t, "recheck", "retire")
    /\ made' = made + 1 /\ current' = made + 1 /\ owned' = owned \cup {made + 1}
    /\ UNCHANGED <<ptr, frames, svc, seen, slotVars, retired, retiredEpoch, released, abandoned,
                   ending, epoch, renewing, mu, registryVars, reaperVars>>

\* Another thread already replaced it, or may not: return and unlock.
RenewRefused(t) ==
    /\ current # ptr[t] \/ unreleased >= MaxUnreleased \/ made = MaxGens
    /\ Goto(t, "recheck", "found")
    /\ renewing' = Nobody
    /\ UNCHANGED <<ptr, frames, svc, seen, slotVars, jitVars, epoch, mu, registryVars, reaperVars>>

\* FrostJIT::retire: the retired flag, ...
RetireFlag(t) ==
    /\ Goto(t, "retire", "advance")
    /\ retired' = retired \cup {ptr[t]}
    /\ UNCHANGED <<ptr, frames, svc, seen, slotVars, made, current, owned, retiredEpoch, released,
                   abandoned, ending, epoch, renewing, mu, registryVars, reaperVars>>

\* ... then jit_generations::retire: the epoch, ...
AdvanceEpoch(t) ==
    /\ Goto(t, "advance", "queue")
    /\ epoch' = epoch + 1
    /\ retiredEpoch' = [retiredEpoch EXCEPT ![ptr[t]] = epoch + 1]
    /\ UNCHANGED <<ptr, frames, svc, seen, slotVars, made, current, owned, retired, released,
                   abandoned, ending, renewing, mu, registryVars, reaperVars>>

\* ... the reaper's queue, and out of renew_jit.
QueueRetired(t) ==
    /\ mu = Nobody
    /\ Goto(t, "queue", "found")
    /\ pending' = pending \cup {ptr[t]}
    /\ retiredTotal' = retiredTotal + 1
    /\ renewing' = Nobody
    /\ UNCHANGED <<ptr, frames, svc, seen, slotVars, jitVars, epoch, mu, releasing, releasedTotal,
                   reaperVars>>

-----------------------------------------------------------------------------
(* The reaper.  It holds the registry's lock while it looks at the slots,  *)
(* one at a time, of threads that go on running.                           *)

\* rp = "pick": `scan` are the retirements of this round it has not decided.
StartRound ==
    /\ rp = "idle" /\ mu = Nobody /\ pending # {}
    /\ mu' = Reaper
    /\ rp' = "pick"
    /\ scan' = pending
    /\ UNCHANGED <<threadVars, slotVars, jitVars, epoch, renewing, registryVars, cand, todo, ready>>

\* rp = "slot": quiescent() on one of them (in any order: each is decided by
\* itself), over the slots left in `todo`.
PickCandidate(g) ==
    /\ rp = "pick" /\ g \in scan
    /\ rp' = "slot"
    /\ cand' = g
    /\ todo' = slots
    /\ UNCHANGED <<threadVars, slotVars, jitVars, epoch, renewing, mu, registryVars, scan, ready>>

Quiet(t, g) == parked[t] \/ acked[t] >= retiredEpoch[g]

\* This slot does not block the candidate.
PassSlot(t) ==
    /\ rp = "slot" /\ t \in todo
    /\ Quiet(t, cand)
    /\ todo' = todo \ {t}
    /\ UNCHANGED <<threadVars, slotVars, jitVars, epoch, renewing, mu, registryVars,
                   rp, scan, cand, ready>>

\* The candidate is decided.
Decide ==
    /\ rp' = "pick"
    /\ scan' = scan \ {cand}
    /\ cand' = NoGen
    /\ todo' = {}

\* This one does: the candidate stays pending.
BlockingSlot(t) ==
    /\ rp = "slot" /\ t \in todo
    /\ ~Quiet(t, cand)
    /\ Decide
    /\ UNCHANGED <<threadVars, slotVars, jitVars, epoch, renewing, mu, registryVars, ready>>

\* No slot blocks it.
TakeCandidate ==
    /\ rp = "slot" /\ todo = {}
    /\ Decide
    /\ pending' = pending \ {cand}
    /\ ready' = ready \cup {cand}
    /\ UNCHANGED <<threadVars, slotVars, jitVars, epoch, renewing, mu, releasing, retiredTotal,
                   releasedTotal>>

\* The end of the round: release what is ready without the lock, or wait.
EndRound ==
    /\ rp = "pick" /\ scan = {}
    /\ rp' = IF ready = {} THEN "idle" ELSE "release"
    /\ releasing' = IF ready = {} THEN releasing ELSE ready
    /\ mu' = Nobody
    /\ UNCHANGED <<threadVars, slotVars, jitVars, epoch, renewing, pending, retiredTotal,
                   releasedTotal, scan, cand, todo, ready>>

\* release_resources of one ready instance: its code is unmapped.
Release(g) ==
    /\ rp = "release" /\ g \in ready
    /\ released' = released \cup {g}
    /\ rp' = IF ready \subseteq released \cup {g} THEN "count" ELSE rp
    /\ UNCHANGED <<threadVars, slotVars, made, current, owned, retired, retiredEpoch, abandoned,
                   ending, epoch, renewing, mu, registryVars, scan, cand, todo, ready>>

CountReleased ==
    /\ rp = "count" /\ mu = Nobody
    /\ rp' = "idle"
    /\ releasing' = {}
    /\ releasedTotal' = releasedTotal + Cardinality(ready)
    /\ ready' = {}
    /\ UNCHANGED <<threadVars, slotVars, jitVars, epoch, renewing, mu, pending, retiredTotal,
                   scan, cand, todo>>
-----------------------------------------------------------------------------
(* Threads and processes.                                                  *)

\* Interpreting, or in a syscall.
InCpp(t) == at[t] \in {"out", "blocked"}

\* clone: the new thread's CPU starts with no frames and no pending SVC.
Spawn(t, u) ==
    /\ ending = "no" /\ InCpp(t)
    /\ Goto(u, "gone", "out")
    /\ UNCHANGED <<ptr, frames, svc, seen, slotVars, world>>

\* The host thread ends; ~SlotHolder drops its slot.
Exit(t) ==
    /\ t \in slots => mu = Nobody
    /\ Goto(t, "out", "gone")
    /\ svc' = [svc EXCEPT ![t] = FALSE]
    /\ slots' = slots \ {t}
    /\ UNCHANGED <<ptr, frames, seen, acked, parked, world>>

\* execve, once the other threads are gone: restart_jit_for_exec leaks every
\* instance and starts a new one.
Exec(t) ==
    /\ ending = "no" /\ InCpp(t)
    /\ \A u \in Threads \ {t} : at[u] = "gone"
    /\ made < MaxGens
    /\ abandoned' = abandoned \cup owned
    /\ made' = made + 1 /\ current' = made + 1 /\ owned' = {made + 1}
    /\ UNCHANGED <<threadVars, slotVars, retired, retiredEpoch, released, ending,
                   epoch, renewing, mu, registryVars, reaperVars>>

\* fork, seen from the child: only the caller exists.  The atfork handler
\* gives it a registry with its own slot and no reaper; the instances are
\* leaked.  jit_renew_mu_ is as it was.
Fork(t) ==
    /\ ending = "no" /\ InCpp(t)
    /\ at' = [u \in Threads |-> IF u = t THEN at[t] ELSE "gone"]
    /\ frames' = [u \in Threads |-> IF u = t THEN frames[t] ELSE <<>>]
    /\ svc' = [u \in Threads |-> svc[u] /\ u = t]
    /\ slots' = slots \cap {t}
    /\ abandoned' = abandoned \cup owned
    /\ current' = NoGen /\ owned' = {}
    /\ mu' = Nobody
    /\ pending' = {} /\ releasing' = {} /\ retiredTotal' = 0 /\ releasedTotal' = 0
    /\ rp' = "idle" /\ scan' = {} /\ cand' = NoGen /\ todo' = {} /\ ready' = {}
    /\ UNCHANGED <<ptr, seen, acked, parked, made, retired, retiredEpoch, released, ending,
                   epoch, renewing>>

\* The emulator goes away: ~JitSet.
Destroy ==
    /\ ending = "no"
    /\ \A t \in Threads : at[t] \in {"out", "gone"}
    /\ ending' = "forget"
    /\ UNCHANGED <<threadVars, slotVars, made, current, owned, retired, retiredEpoch, released,
                   abandoned, epoch, renewing, mu, registryVars, reaperVars>>

\* Mutant: forget does not wait for a release under way.
ForgetNow(g) ==
    /\ ending = "forget" /\ mu = Nobody
    /\ g \in owned
    /\ pending' = pending \ {g}
    /\ releasedTotal' = IF g \in pending THEN releasedTotal + 1 ELSE releasedTotal
    /\ owned' = owned \ {g}
    /\ ending' = IF owned = {g} THEN "freed" ELSE ending
    /\ UNCHANGED <<threadVars, slotVars, made, current, retired, retiredEpoch, released,
                   abandoned, epoch, renewing, mu, releasing, retiredTotal, reaperVars>>

\* forget: drops a queued retirement, waits for a release under way.  The
\* instances are freed once all of them are forgotten.
Forget(g) ==
    /\ ending = "forget" /\ mu = Nobody
    /\ g \in owned \ releasing
    /\ pending' = pending \ {g}
    /\ releasedTotal' = IF g \in pending THEN releasedTotal + 1 ELSE releasedTotal
    /\ owned' = owned \ {g}
    /\ ending' = IF owned = {g} THEN "freed" ELSE ending
    /\ UNCHANGED <<threadVars, slotVars, made, current, retired, retiredEpoch, released,
                   abandoned, epoch, renewing, mu, releasing, retiredTotal, reaperVars>>

-----------------------------------------------------------------------------
Boundary(t) ==
    \/ RegisterEpoch(t) \/ RegisterSlot(t)
    \/ Unpark(t) \/ LoadEpoch(t) \/ Ack(t) \/ CheckRetired(t)

Renew(t) ==
    \/ RenewCheck(t) \/ RenewLock(t) \/ RenewPublish(t) \/ RenewRefused(t)
    \/ RetireFlag(t) \/ AdvanceEpoch(t) \/ QueueRetired(t)

\* One dispatch, up to generated code or a syscall.
Step(t) ==
    \/ RunSvc(t) \/ DropSvc(t) \/ Run(t)
    \/ EnterCode(t) \/ Interpret(t) \/ WantRenewal(t)

Leave(t) == \E atSvc \in BOOLEAN : ExitCode(t, atSvc)

Reap ==
    \/ StartRound \/ TakeCandidate \/ EndRound
    \/ \E t \in Threads : PassSlot(t) \/ BlockingSlot(t)
    \/ \E g \in Gens : PickCandidate(g) \/ Release(g)
    \/ CountReleased

Process(t) == Exit(t) \/ Exec(t) \/ Fork(t) \/ \E u \in Threads : Spawn(t, u)

Next ==
    \/ \E t \in Threads :
          \/ Dispatch(t) \/ Boundary(t) \/ Step(t) \/ Renew(t)
          \/ Leave(t) \/ Call(t) \/ HelperLoop(t) \/ HelperReturn(t)
          \/ SyscallReturns(t) \/ Process(t)
    \/ Reap
    \/ Destroy \/ \E g \in Gens : Forget(g)

Spec == Init /\ [][Next]_vars

\* The C++ of a thread and of the reaper runs on.  Nothing is assumed of how
\* long a block, a callee or a syscall takes.
Cpp(t) == Dispatch(t) \/ Boundary(t) \/ Step(t) \/ Renew(t) \/ HelperLoop(t)

Fairness == WF_vars(Reap) /\ \A t \in Threads : WF_vars(Cpp(t))

FairSpec == Spec /\ Fairness

-----------------------------------------------------------------------------
(* Properties. *)

\* Where a thread's C++ still holds the instance it dispatches on; a nested
\* one does so across a syscall.
Dispatching(t) ==
    \/ at[t] \in {"run", "lookup", "found", "helper"} \cup RenewPcs
    \/ at[t] = "blocked" /\ frames[t] # <<>>

\* The instances whose code or metadata a thread may use without a further
\* look at their retired flag.
Uses(t) == OnStack(frames[t]) \cup {g \in {ptr[t]} : Dispatching(t)}

\* No thread has a frame in code that was unmapped, or is about to enter it.
NoReleasedCode == \A t \in Threads : Uses(t) \cap released = {}

\* "current + retired-unreleased is at most 2": the instances that still have
\* code are the current one and as many retired ones as a renewal may leave.
LiveBound == Cardinality(owned \ released) <= MaxUnreleased + 1

\* The reaper never gets at an instance ~JitSet has freed (an abandoned one is
\* never freed).
ReaperSparesFreed == ending = "freed" => (pending \cup ready) \subseteq abandoned

\* If every thread is again and again without generated frames, a queued
\* retirement is released (unless the instances are abandoned or the emulator
\* ends first): threads blocked in a syscall over no frames do not delay it.
Reclaimed ==
    (\A t \in Threads : []<>(frames[t] = <<>>)) =>
        \A g \in Gens : g \in pending ~> \/ g \in released
                                         \/ g \in abandoned
                                         \/ ending # "no"

\* What fork_guest says of a child: the code buffer it inherits is never
\* executed again.
ForkChildInterprets ==
    [][\A t \in Threads : Len(frames'[t]) > Len(frames[t]) => ptr[t] \notin abandoned]_vars

\* What fork_guest says of its locks: none a child needs stays locked by a
\* thread it does not have.
RenewLockHasOwner == renewing # Nobody => at[renewing] # "gone"

-----------------------------------------------------------------------------
(* The inductive strengthening behind NoReleasedCode.                      *)

\* Instances are numbered as they are made.
NumbersOK ==
    /\ current <= made
    /\ \A g \in retired : g <= made
    /\ \A t \in Threads : /\ ptr[t] <= made
                          /\ \A g \in OnStack(frames[t]) : g <= made

\* Nobody is ahead of the epoch; an instance that has one is retired and not
\* current.
EpochsOK ==
    /\ \A t \in Threads : acked[t] <= epoch /\ seen[t] <= epoch
    /\ \A g \in Gens : retiredEpoch[g] > 0 => g \in retired /\ g # current

\* Where a thread can be with and without frames, a slot and an instance.
PlacesOK ==
    \A t \in Threads :
        /\ at[t] \in BoundaryPcs \cup {"out", "gone"} => frames[t] = <<>>
        /\ at[t] \in {"code", "helper"} => frames[t] # <<>>
        /\ at[t] \in Pcs \ {"out", "gone", "register", "push"} => t \in slots
        /\ at[t] \in BoundaryPcs => current # NoGen /\ ptr[t] # NoGen
        /\ Dispatching(t) => ptr[t] # NoGen
        /\ at[t] \in {"retire", "advance", "queue"} => ptr[t] # current
        /\ at[t] \in {"advance", "queue"} => ptr[t] \in retired
        /\ at[t] = "queue" => retiredEpoch[ptr[t]] > 0

\* What the reaper concludes from a slot: its thread is past every retirement
\* it acknowledges, and past all of them while it is parked.
SlotsSpeak ==
    \A t \in slots :
        /\ parked[t] => frames[t] = <<>> /\ at[t] \in {"blocked", "out", "unpark"}
        /\ \A g \in Gens : retiredEpoch[g] > 0 /\ acked[t] >= retiredEpoch[g] => g \notin Uses(t)

\* Retired, and used by no thread.  This is stable: every way back to an
\* instance passes its retired flag.
Past(g) == g \in Gens /\ retiredEpoch[g] > 0 /\ \A t \in Threads : g \notin Uses(t)

ReaperOK ==
    /\ \A g \in pending \cup scan : retiredEpoch[g] > 0
    /\ \A g \in ready \cup released : Past(g)
    /\ rp = "slot" => /\ cand \in Gens /\ retiredEpoch[cand] > 0
                      /\ \A t \in Threads \ todo : cand \notin Uses(t)
                      /\ todo \subseteq slots
    /\ rp \in {"pick", "slot"} => mu = Reaper

GenInv == TypeOK /\ NumbersOK /\ EpochsOK /\ PlacesOK /\ SlotsSpeak /\ ReaperOK
=============================================================================
