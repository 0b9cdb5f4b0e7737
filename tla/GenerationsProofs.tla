-------------------------- MODULE GenerationsProofs --------------------------
(***************************************************************************)
(* Proofs about Generations, for any threads, call depth, cap and number   *)
(* of instances.  NoReleasedCode is not inductive: a slot says nothing     *)
(* about what its thread does next.  GenInv adds what the slots do say     *)
(* (SlotsSpeak), what the reaper has concluded from them so far            *)
(* (ReaperOK), and that both stay true while threads run on: once an       *)
(* instance has a retirement epoch no thread starts to use it (Stable).    *)
(***************************************************************************)
EXTENDS Generations, FiniteSetTheorems, SequenceTheorems, TLAPS

\* A stack of frames has a length and instances for elements; the empty one
\* has none.
LEMMA EmptyStack ==
    ASSUME NEW s \in Seq(Gens)
    PROVE  /\ Len(s) \in Nat /\ (Len(s) = 0 <=> s = <<>>)
           /\ s = <<>> => OnStack(s) = {}
           /\ OnStack(s) \subseteq Gens
  BY DEF OnStack

\* Entering a block adds its instance to the stack.
LEMMA PushStack ==
    ASSUME NEW s \in Seq(Gens), NEW g \in Gens
    PROVE  /\ Append(s, g) \in Seq(Gens)
           /\ Append(s, g) # <<>>
           /\ OnStack(Append(s, g)) = OnStack(s) \cup {g}
  <1>2. Append(s, g) \in Seq(Gens) /\ Len(Append(s, g)) = Len(s) + 1 /\ Len(s) \in Nat
    OBVIOUS
  <1>1. Append(s, g) # <<>>
    BY <1>2, EmptySeq
  <1>3. \A i \in 1..Len(s) : Append(s, g)[i] = s[i]
    OBVIOUS
  <1>4. Append(s, g)[Len(s) + 1] = g
    OBVIOUS
  <1>5. OnStack(Append(s, g)) \subseteq OnStack(s) \cup {g}
    BY <1>2, <1>3, <1>4 DEF OnStack
  <1>6. OnStack(s) \cup {g} \subseteq OnStack(Append(s, g))
    BY <1>2, <1>3, <1>4 DEF OnStack
  <1> QED BY <1>1, <1>2, <1>5, <1>6

\* Leaving one removes the last, and adds nothing.
LEMMA PopStack ==
    ASSUME NEW s \in Seq(Gens), s # <<>>
    PROVE  /\ SubSeq(s, 1, Len(s) - 1) \in Seq(Gens)
           /\ OnStack(SubSeq(s, 1, Len(s) - 1)) \subseteq OnStack(s)
           /\ s[Len(s)] \in OnStack(s) /\ s[Len(s)] \in Gens
           /\ Len(s) - 1 = 0 <=> SubSeq(s, 1, Len(s) - 1) = <<>>
  <1> SUFFICES ASSUME NEW p, p = SubSeq(s, 1, Len(s) - 1)
               PROVE  /\ p \in Seq(Gens) /\ OnStack(p) \subseteq OnStack(s)
                      /\ s[Len(s)] \in OnStack(s) /\ s[Len(s)] \in Gens
                      /\ Len(s) - 1 = 0 <=> p = <<>>
    OBVIOUS
  <1> SUFFICES ASSUME NEW n \in Nat, Len(s) = n + 1
               PROVE  /\ p \in Seq(Gens) /\ OnStack(p) \subseteq OnStack(s)
                      /\ s[n + 1] \in OnStack(s) /\ s[n + 1] \in Gens
                      /\ n = 0 <=> p = <<>>
    <2>1. Len(s) \in Nat \ {0}
      BY EmptySeq
    <2>2. Len(s) - 1 \in Nat /\ Len(s) = (Len(s) - 1) + 1
      BY <2>1
    <2> QED BY <2>2
  <1>1. \A i \in 1..n+1 : s[i] \in Gens
    BY ElementOfSeq
  <1>2. /\ p \in Seq(Gens)
        /\ Len(p) = IF 1 <= n THEN n - 1 + 1 ELSE 0
        /\ \A i \in 1..(n - 1 + 1) : p[i] = s[1 + i - 1]
    BY <1>1, SubSeqProperties
  <1>3. Len(p) = n
    BY <1>2
  <1>4. \A i \in 1..n : p[i] = s[i]
    BY <1>2
  <1>5. OnStack(p) \subseteq OnStack(s)
    BY <1>3, <1>4 DEF OnStack
  <1>6. s[n + 1] \in OnStack(s) /\ s[n + 1] \in Gens
    BY <1>1 DEF OnStack
  <1>7. n = 0 <=> p = <<>>
    BY <1>2, <1>3, EmptySeq
  <1> QED BY <1>2, <1>5, <1>6, <1>7

-----------------------------------------------------------------------------
\* The step starts no use of an instance that has a retirement epoch.
Stable == \A w \in Threads, h \in Gens : retiredEpoch[h] > 0 /\ h \in Uses(w)' => h \in Uses(w)

\* It moves no parked thread into C++ that uses an instance.
ParksStand == \A w \in slots : parked[w] => frames'[w] = <<>> /\ at'[w] \in {"blocked", "out", "unpark"}

\* It reads no epoch ahead of the global one.
SeenOK == \A w \in Threads : seen'[w] <= epoch

\* The stack of a thread under the invariant.
LEMMA ThreadFacts ==
    ASSUME GenInv, NEW w \in Threads
    PROVE  /\ Len(frames[w]) \in Nat /\ (Len(frames[w]) = 0 <=> frames[w] = <<>>)
           /\ frames[w] = <<>> => OnStack(frames[w]) = {}
           /\ OnStack(frames[w]) \subseteq Gens
           /\ frames[w] # <<>> => /\ Innermost(w) \in OnStack(frames[w])
                                   /\ Innermost(w) \in Gens /\ Innermost(w) # NoGen
  BY EmptyStack, PopStack DEF GenInv, TypeOK, ThreadsOK, Innermost, Gens, NoGen

\* What the slots say outlasts a step that leaves them alone and starts no use
\* of a retired instance.
LEMMA SlotsKept ==
    ASSUME SlotsSpeak, SlotsOK, Stable, ParksStand, UNCHANGED <<slots, acked, parked, retiredEpoch>>
    PROVE  SlotsSpeak'
  BY DEF SlotsSpeak, SlotsOK, Stable, ParksStand

\* So does what the reaper has concluded.
LEMMA ReaperKept ==
    ASSUME ReaperOK, TypeOK, Stable, rp = "slot" => todo \subseteq slots',
           UNCHANGED <<retiredEpoch, mu, pending, released, reaperVars>>
    PROVE  ReaperOK'
  BY DEF ReaperOK, TypeOK, RegistryOK, InstancesOK, Stable, Past, reaperVars

\* A step that writes no slot and nothing shared keeps GenInv if it keeps the
\* parts about threads.
LEMMA QuietStep ==
    ASSUME GenInv, ThreadsOK', NumbersOK', PlacesOK', Stable, ParksStand, SeenOK,
           UNCHANGED <<slotVars, world>>
    PROVE  GenInv'
  <1>1. TypeOK'
    BY DEF GenInv, TypeOK, SlotsOK, InstancesOK, RegistryOK, slotVars, world, jitVars,
       registryVars, reaperVars
  <1>2. SlotsSpeak'
    BY SlotsKept DEF GenInv, TypeOK, slotVars, world, jitVars
  <1>3. ReaperOK'
    BY ReaperKept DEF GenInv, ReaperOK, slotVars, world, jitVars, registryVars
  <1>4. EpochsOK'
    BY DEF GenInv, EpochsOK, SeenOK, slotVars, world, jitVars
  <1> QED BY <1>1, <1>2, <1>3, <1>4 DEF GenInv

(***************************************************************************)
(* One lemma per group of actions, one step per action.                    *)
(***************************************************************************)

\* A thread's steps that write neither a slot nor anything shared.  Stable
\* holds because the instance a thread newly dispatches on is the current one.
LEMMA QuietThread ==
    ASSUME GenInv, NEW t \in Threads, NEW u \in Threads,
           \/ Dispatch(t)
           \/ LoadEpoch(t)
           \/ CheckRetired(t)
           \/ DropSvc(t)
           \/ Run(t)
           \/ SyscallReturns(t)
           \/ EnterCode(t)
           \/ Interpret(t)
           \/ Leave(t)
           \/ Call(t)
           \/ HelperLoop(t)
           \/ HelperReturn(t)
           \/ WantRenewal(t)
           \/ RenewCheck(t)
           \/ Spawn(t, u)
    PROVE  GenInv'
<1> USE DEF Goto, Pcs, BoundaryPcs, RenewPcs, Dispatching
<1>1. CASE Dispatch(t)
  <2> USE <1>1 DEF Dispatch
  <2>1. ThreadsOK'
    BY ThreadFacts DEF GenInv, TypeOK, ThreadsOK, InstancesOK, PlacesOK
  <2>2. NumbersOK'
    BY ThreadFacts DEF GenInv, TypeOK, ThreadsOK, InstancesOK, NumbersOK, PlacesOK, world, jitVars
  <2>3. PlacesOK'
    BY ThreadFacts DEF GenInv, TypeOK, ThreadsOK, InstancesOK, NumbersOK, PlacesOK, world,
       jitVars, slotVars
  <2>4. Stable
    BY ThreadFacts DEF GenInv, TypeOK, ThreadsOK, InstancesOK, PlacesOK, EpochsOK, Stable, Uses
  <2>5. ParksStand /\ SeenOK
    BY ThreadFacts DEF GenInv, TypeOK, ThreadsOK, InstancesOK, SlotsOK, SlotsSpeak, EpochsOK,
       ParksStand, SeenOK
  <2> QED BY <2>1, <2>2, <2>3, <2>4, <2>5, QuietStep
<1>2. CASE LoadEpoch(t)
  <2> USE <1>2 DEF LoadEpoch
  <2>1. ThreadsOK'
    BY ThreadFacts DEF GenInv, TypeOK, ThreadsOK, InstancesOK, PlacesOK
  <2>2. NumbersOK'
    BY ThreadFacts DEF GenInv, TypeOK, ThreadsOK, InstancesOK, NumbersOK, PlacesOK, world, jitVars
  <2>3. PlacesOK'
    BY ThreadFacts DEF GenInv, TypeOK, ThreadsOK, InstancesOK, NumbersOK, PlacesOK, world,
       jitVars, slotVars
  <2>4. Stable
    BY ThreadFacts DEF GenInv, TypeOK, ThreadsOK, InstancesOK, PlacesOK, EpochsOK, Stable, Uses
  <2>5. ParksStand /\ SeenOK
    BY ThreadFacts DEF GenInv, TypeOK, ThreadsOK, InstancesOK, SlotsOK, SlotsSpeak, EpochsOK,
       ParksStand, SeenOK
  <2> QED BY <2>1, <2>2, <2>3, <2>4, <2>5, QuietStep
<1>3. CASE CheckRetired(t)
  <2> USE <1>3 DEF CheckRetired, MovesOn
  <2>1. ThreadsOK'
    BY ThreadFacts DEF GenInv, TypeOK, ThreadsOK, InstancesOK, PlacesOK
  <2>2. NumbersOK'
    BY ThreadFacts DEF GenInv, TypeOK, ThreadsOK, InstancesOK, NumbersOK, PlacesOK, world, jitVars
  <2>3. PlacesOK'
    BY ThreadFacts DEF GenInv, TypeOK, ThreadsOK, InstancesOK, NumbersOK, PlacesOK, world,
       jitVars, slotVars
  <2>4. Stable
    BY ThreadFacts DEF GenInv, TypeOK, ThreadsOK, InstancesOK, PlacesOK, EpochsOK, Stable, Uses
  <2>5. ParksStand /\ SeenOK
    BY ThreadFacts DEF GenInv, TypeOK, ThreadsOK, InstancesOK, SlotsOK, SlotsSpeak, EpochsOK,
       ParksStand, SeenOK
  <2> QED BY <2>1, <2>2, <2>3, <2>4, <2>5, QuietStep
<1>4. CASE DropSvc(t)
  <2> USE <1>4 DEF DropSvc
  <2>1. ThreadsOK'
    BY ThreadFacts DEF GenInv, TypeOK, ThreadsOK, InstancesOK, PlacesOK
  <2>2. NumbersOK'
    BY ThreadFacts DEF GenInv, TypeOK, ThreadsOK, InstancesOK, NumbersOK, PlacesOK, world, jitVars
  <2>3. PlacesOK'
    BY ThreadFacts DEF GenInv, TypeOK, ThreadsOK, InstancesOK, NumbersOK, PlacesOK, world,
       jitVars, slotVars
  <2>4. Stable
    BY ThreadFacts DEF GenInv, TypeOK, ThreadsOK, InstancesOK, PlacesOK, EpochsOK, Stable, Uses
  <2>5. ParksStand /\ SeenOK
    BY ThreadFacts DEF GenInv, TypeOK, ThreadsOK, InstancesOK, SlotsOK, SlotsSpeak, EpochsOK,
       ParksStand, SeenOK
  <2> QED BY <2>1, <2>2, <2>3, <2>4, <2>5, QuietStep
<1>5. CASE Run(t)
  <2> USE <1>5 DEF Run
  <2>1. ThreadsOK'
    BY ThreadFacts DEF GenInv, TypeOK, ThreadsOK, InstancesOK, PlacesOK
  <2>2. NumbersOK'
    BY ThreadFacts DEF GenInv, TypeOK, ThreadsOK, InstancesOK, NumbersOK, PlacesOK, world, jitVars
  <2>3. PlacesOK'
    BY ThreadFacts DEF GenInv, TypeOK, ThreadsOK, InstancesOK, NumbersOK, PlacesOK, world,
       jitVars, slotVars
  <2>4. Stable
    BY ThreadFacts DEF GenInv, TypeOK, ThreadsOK, InstancesOK, PlacesOK, EpochsOK, Stable, Uses
  <2>5. ParksStand /\ SeenOK
    BY ThreadFacts DEF GenInv, TypeOK, ThreadsOK, InstancesOK, SlotsOK, SlotsSpeak, EpochsOK,
       ParksStand, SeenOK
  <2> QED BY <2>1, <2>2, <2>3, <2>4, <2>5, QuietStep
<1>6. CASE SyscallReturns(t)
  <2> USE <1>6 DEF SyscallReturns, Over
  <2>1. ThreadsOK'
    BY ThreadFacts DEF GenInv, TypeOK, ThreadsOK, InstancesOK, PlacesOK
  <2>2. NumbersOK'
    BY ThreadFacts DEF GenInv, TypeOK, ThreadsOK, InstancesOK, NumbersOK, PlacesOK, world, jitVars
  <2>3. PlacesOK'
    BY ThreadFacts DEF GenInv, TypeOK, ThreadsOK, InstancesOK, NumbersOK, PlacesOK, world,
       jitVars, slotVars
  <2>4. Stable
    BY ThreadFacts DEF GenInv, TypeOK, ThreadsOK, InstancesOK, PlacesOK, EpochsOK, Stable, Uses
  <2>5. ParksStand /\ SeenOK
    BY ThreadFacts DEF GenInv, TypeOK, ThreadsOK, InstancesOK, SlotsOK, SlotsSpeak, EpochsOK,
       ParksStand, SeenOK
  <2> QED BY <2>1, <2>2, <2>3, <2>4, <2>5, QuietStep
<1>7. CASE EnterCode(t)
  <2> USE <1>7 DEF EnterCode
  <2>1. ThreadsOK'
    BY PushStack, ThreadFacts DEF GenInv, TypeOK, ThreadsOK, InstancesOK, PlacesOK
  <2>2. NumbersOK'
    BY PushStack, ThreadFacts DEF GenInv, TypeOK, ThreadsOK, InstancesOK, NumbersOK, PlacesOK,
       world, jitVars
  <2>3. PlacesOK'
    BY PushStack, ThreadFacts DEF GenInv, TypeOK, ThreadsOK, InstancesOK, NumbersOK, PlacesOK,
       world, jitVars, slotVars
  <2>4. Stable
    BY PushStack, ThreadFacts DEF GenInv, TypeOK, ThreadsOK, InstancesOK, PlacesOK, EpochsOK,
       Stable, Uses
  <2>5. ParksStand /\ SeenOK
    BY PushStack, ThreadFacts DEF GenInv, TypeOK, ThreadsOK, InstancesOK, SlotsOK, SlotsSpeak,
       EpochsOK, ParksStand, SeenOK
  <2> QED BY <2>1, <2>2, <2>3, <2>4, <2>5, QuietStep
<1>8. CASE Interpret(t)
  <2> USE <1>8 DEF Interpret, Over
  <2>1. ThreadsOK'
    BY ThreadFacts DEF GenInv, TypeOK, ThreadsOK, InstancesOK, PlacesOK
  <2>2. NumbersOK'
    BY ThreadFacts DEF GenInv, TypeOK, ThreadsOK, InstancesOK, NumbersOK, PlacesOK, world, jitVars
  <2>3. PlacesOK'
    BY ThreadFacts DEF GenInv, TypeOK, ThreadsOK, InstancesOK, NumbersOK, PlacesOK, world,
       jitVars, slotVars
  <2>4. Stable
    BY ThreadFacts DEF GenInv, TypeOK, ThreadsOK, InstancesOK, PlacesOK, EpochsOK, Stable, Uses
  <2>5. ParksStand /\ SeenOK
    BY ThreadFacts DEF GenInv, TypeOK, ThreadsOK, InstancesOK, SlotsOK, SlotsSpeak, EpochsOK,
       ParksStand, SeenOK
  <2> QED BY <2>1, <2>2, <2>3, <2>4, <2>5, QuietStep
<1>9. CASE Leave(t)
  <2>1. frames[t] \in Seq(Gens) /\ frames[t] # <<>>
    BY <1>9 DEF Leave, ExitCode, GenInv, TypeOK, ThreadsOK, PlacesOK
  <2>2. /\ SubSeq(frames[t], 1, Len(frames[t]) - 1) \in Seq(Gens)
        /\ OnStack(SubSeq(frames[t], 1, Len(frames[t]) - 1)) \subseteq OnStack(frames[t])
        /\ (Len(frames[t]) - 1 = 0) <=> (SubSeq(frames[t], 1, Len(frames[t]) - 1) = <<>>)
    BY <2>1, PopStack
  <2>3. PICK atSvc \in BOOLEAN : ExitCode(t, atSvc)
    BY <1>9 DEF Leave
  <2>4. /\ frames' = [frames EXCEPT ![t] = SubSeq(frames[t], 1, Len(frames[t]) - 1)]
        /\ at' = [at EXCEPT ![t] = IF Len(frames[t]) - 1 = 0 THEN "out" ELSE "helper"]
    BY <2>3, Zenon DEF ExitCode, Over
  <2>5. frames'[t] = SubSeq(frames[t], 1, Len(frames[t]) - 1)
    BY <2>4, Zenon DEF GenInv, TypeOK, ThreadsOK
  <2>6. /\ frames'[t] \in Seq(Gens) /\ OnStack(frames'[t]) \subseteq OnStack(frames[t])
        /\ (Len(frames[t]) - 1 = 0) <=> (frames'[t] = <<>>)
    BY <2>2, <2>5, Zenon
  <2>7. /\ frames'[t] \in Seq(Gens) /\ OnStack(frames'[t]) \subseteq OnStack(frames[t])
        /\ frames' = [frames EXCEPT ![t] = frames'[t]]
        /\ at'[t] = IF frames'[t] = <<>> THEN "out" ELSE "helper"
        /\ at' = [at EXCEPT ![t] = at'[t]]
    <3>1. at'[t] = IF Len(frames[t]) - 1 = 0 THEN "out" ELSE "helper"
      BY <2>4, Zenon DEF GenInv, TypeOK, ThreadsOK
    <3> QED BY <2>4, <2>5, <2>6, <3>1, Zenon
  <2>8. /\ Innermost(t) \in OnStack(frames[t]) /\ Innermost(t) \in Gens /\ Innermost(t) # NoGen
        /\ ptr' = [ptr EXCEPT ![t] = Innermost(t)]
        /\ \E b \in BOOLEAN : svc' = [svc EXCEPT ![t] = b]
        /\ frames[t] # <<>> /\ at[t] = "code" /\ UNCHANGED <<seen, slotVars, world>>
    BY <1>9, ThreadFacts DEF Leave, ExitCode, GenInv, TypeOK, ThreadsOK, PlacesOK
  <2>9. ThreadsOK'
    BY <2>7, <2>8 DEF GenInv, TypeOK, ThreadsOK, InstancesOK, PlacesOK
  <2>10. NumbersOK'
    BY <2>7, <2>8 DEF GenInv, TypeOK, ThreadsOK, InstancesOK, NumbersOK, PlacesOK, world, jitVars
  <2>11. PlacesOK'
    BY <2>7, <2>8 DEF GenInv, TypeOK, ThreadsOK, InstancesOK, NumbersOK, PlacesOK, world, jitVars,
       slotVars
  <2>12. Stable
    BY <2>7, <2>8 DEF GenInv, TypeOK, ThreadsOK, InstancesOK, PlacesOK, EpochsOK, Stable, Uses
  <2>13. ParksStand /\ SeenOK
    BY <2>7, <2>8 DEF GenInv, TypeOK, ThreadsOK, InstancesOK, SlotsOK, SlotsSpeak, EpochsOK,
       ParksStand, SeenOK
  <2> QED BY <2>8, <2>9, <2>10, <2>11, <2>12, <2>13, QuietStep
<1>10. CASE Call(t)
  <2> USE <1>10 DEF Call
  <2>1. ThreadsOK'
    BY ThreadFacts DEF GenInv, TypeOK, ThreadsOK, InstancesOK, PlacesOK
  <2>2. NumbersOK'
    BY ThreadFacts DEF GenInv, TypeOK, ThreadsOK, InstancesOK, NumbersOK, PlacesOK, world, jitVars
  <2>3. PlacesOK'
    BY ThreadFacts DEF GenInv, TypeOK, ThreadsOK, InstancesOK, NumbersOK, PlacesOK, world,
       jitVars, slotVars
  <2>4. Stable
    BY ThreadFacts DEF GenInv, TypeOK, ThreadsOK, InstancesOK, PlacesOK, EpochsOK, Stable, Uses
  <2>5. ParksStand /\ SeenOK
    BY ThreadFacts DEF GenInv, TypeOK, ThreadsOK, InstancesOK, SlotsOK, SlotsSpeak, EpochsOK,
       ParksStand, SeenOK
  <2> QED BY <2>1, <2>2, <2>3, <2>4, <2>5, QuietStep
<1>11. CASE HelperLoop(t)
  <2> USE <1>11 DEF HelperLoop, MovesOn
  <2>1. ThreadsOK'
    BY ThreadFacts DEF GenInv, TypeOK, ThreadsOK, InstancesOK, PlacesOK
  <2>2. NumbersOK'
    BY ThreadFacts DEF GenInv, TypeOK, ThreadsOK, InstancesOK, NumbersOK, PlacesOK, world, jitVars
  <2>3. PlacesOK'
    BY ThreadFacts DEF GenInv, TypeOK, ThreadsOK, InstancesOK, NumbersOK, PlacesOK, world,
       jitVars, slotVars
  <2>4. Stable
    BY ThreadFacts DEF GenInv, TypeOK, ThreadsOK, InstancesOK, PlacesOK, EpochsOK, Stable, Uses
  <2>5. ParksStand /\ SeenOK
    BY ThreadFacts DEF GenInv, TypeOK, ThreadsOK, InstancesOK, SlotsOK, SlotsSpeak, EpochsOK,
       ParksStand, SeenOK
  <2> QED BY <2>1, <2>2, <2>3, <2>4, <2>5, QuietStep
<1>12. CASE HelperReturn(t)
  <2> USE <1>12 DEF HelperReturn
  <2>1. ThreadsOK'
    BY ThreadFacts DEF GenInv, TypeOK, ThreadsOK, InstancesOK, PlacesOK
  <2>2. NumbersOK'
    BY ThreadFacts DEF GenInv, TypeOK, ThreadsOK, InstancesOK, NumbersOK, PlacesOK, world, jitVars
  <2>3. PlacesOK'
    BY ThreadFacts DEF GenInv, TypeOK, ThreadsOK, InstancesOK, NumbersOK, PlacesOK, world,
       jitVars, slotVars
  <2>4. Stable
    BY ThreadFacts DEF GenInv, TypeOK, ThreadsOK, InstancesOK, PlacesOK, EpochsOK, Stable, Uses
  <2>5. ParksStand /\ SeenOK
    BY ThreadFacts DEF GenInv, TypeOK, ThreadsOK, InstancesOK, SlotsOK, SlotsSpeak, EpochsOK,
       ParksStand, SeenOK
  <2> QED BY <2>1, <2>2, <2>3, <2>4, <2>5, QuietStep
<1>13. CASE WantRenewal(t)
  <2> USE <1>13 DEF WantRenewal
  <2>1. ThreadsOK'
    BY ThreadFacts DEF GenInv, TypeOK, ThreadsOK, InstancesOK, PlacesOK
  <2>2. NumbersOK'
    BY ThreadFacts DEF GenInv, TypeOK, ThreadsOK, InstancesOK, NumbersOK, PlacesOK, world, jitVars
  <2>3. PlacesOK'
    BY ThreadFacts DEF GenInv, TypeOK, ThreadsOK, InstancesOK, NumbersOK, PlacesOK, world,
       jitVars, slotVars
  <2>4. Stable
    BY ThreadFacts DEF GenInv, TypeOK, ThreadsOK, InstancesOK, PlacesOK, EpochsOK, Stable, Uses
  <2>5. ParksStand /\ SeenOK
    BY ThreadFacts DEF GenInv, TypeOK, ThreadsOK, InstancesOK, SlotsOK, SlotsSpeak, EpochsOK,
       ParksStand, SeenOK
  <2> QED BY <2>1, <2>2, <2>3, <2>4, <2>5, QuietStep
<1>14. CASE RenewCheck(t)
  <2> USE <1>14 DEF RenewCheck, unreleased
  <2>1. ThreadsOK'
    BY ThreadFacts DEF GenInv, TypeOK, ThreadsOK, InstancesOK, PlacesOK
  <2>2. NumbersOK'
    BY ThreadFacts DEF GenInv, TypeOK, ThreadsOK, InstancesOK, NumbersOK, PlacesOK, world, jitVars
  <2>3. PlacesOK'
    BY ThreadFacts DEF GenInv, TypeOK, ThreadsOK, InstancesOK, NumbersOK, PlacesOK, world,
       jitVars, slotVars
  <2>4. Stable
    BY ThreadFacts DEF GenInv, TypeOK, ThreadsOK, InstancesOK, PlacesOK, EpochsOK, Stable, Uses
  <2>5. ParksStand /\ SeenOK
    BY ThreadFacts DEF GenInv, TypeOK, ThreadsOK, InstancesOK, SlotsOK, SlotsSpeak, EpochsOK,
       ParksStand, SeenOK
  <2> QED BY <2>1, <2>2, <2>3, <2>4, <2>5, QuietStep
<1>15. CASE Spawn(t, u)
  <2> USE <1>15 DEF Spawn, InCpp
  <2>1. ThreadsOK'
    BY ThreadFacts DEF GenInv, TypeOK, ThreadsOK, InstancesOK, PlacesOK
  <2>2. NumbersOK'
    BY ThreadFacts DEF GenInv, TypeOK, ThreadsOK, InstancesOK, NumbersOK, PlacesOK, world, jitVars
  <2>3. PlacesOK'
    BY ThreadFacts DEF GenInv, TypeOK, ThreadsOK, InstancesOK, NumbersOK, PlacesOK, world,
       jitVars, slotVars
  <2>4. Stable
    BY ThreadFacts DEF GenInv, TypeOK, ThreadsOK, InstancesOK, PlacesOK, EpochsOK, Stable, Uses
  <2>5. ParksStand /\ SeenOK
    BY ThreadFacts DEF GenInv, TypeOK, ThreadsOK, InstancesOK, SlotsOK, SlotsSpeak, EpochsOK,
       ParksStand, SeenOK
  <2> QED BY <2>1, <2>2, <2>3, <2>4, <2>5, QuietStep
<1> QED BY <1>1, <1>2, <1>3, <1>4, <1>5, <1>6, <1>7, <1>8, <1>9, <1>10, <1>11, <1>12, <1>13,
   <1>14, <1>15

\* The steps that write a slot: boundary(), park() and the slot's coming and
\* going.  Each acknowledgement is made over no generated frames.
LEMMA SlotSteps ==
    ASSUME GenInv, NEW t \in Threads,
           \/ RegisterEpoch(t)
           \/ RegisterSlot(t)
           \/ Unpark(t)
           \/ Ack(t)
           \/ RunSvc(t)
           \/ Exit(t)
    PROVE  GenInv'
<1> USE DEF Goto, Pcs, BoundaryPcs, RenewPcs, Dispatching,
            threadVars, slotVars, world, jitVars, registryVars, reaperVars
<1>1. CASE RegisterEpoch(t)
  <2> USE <1>1 DEF RegisterEpoch
  <2>1. TypeOK'
    BY ThreadFacts, GenerationsAssumption DEF GenInv, TypeOK, ThreadsOK, InstancesOK, SlotsOK,
       RegistryOK
  <2>2. NumbersOK'
    BY ThreadFacts DEF GenInv, TypeOK, ThreadsOK, InstancesOK, NumbersOK
  <2>3. EpochsOK'
    BY ThreadFacts DEF GenInv, TypeOK, ThreadsOK, InstancesOK, SlotsOK, NumbersOK, EpochsOK,
       PlacesOK
  <2>4. PlacesOK'
    BY ThreadFacts DEF GenInv, TypeOK, ThreadsOK, InstancesOK, NumbersOK, PlacesOK
  <2>5. Stable
    BY ThreadFacts DEF GenInv, TypeOK, ThreadsOK, InstancesOK, PlacesOK, Stable, Uses
  <2>6. SlotsSpeak'
    BY <2>5, ThreadFacts DEF GenInv, TypeOK, ThreadsOK, InstancesOK, SlotsOK, Stable, EpochsOK,
       PlacesOK, SlotsSpeak, Uses
  <2>7. ReaperOK'
    BY <2>5, ReaperKept DEF GenInv, ReaperOK
  <2> QED BY <2>1, <2>2, <2>3, <2>4, <2>6, <2>7 DEF GenInv
<1>2. CASE RegisterSlot(t)
  <2> USE <1>2 DEF RegisterSlot
  <2>1. TypeOK'
    BY ThreadFacts, GenerationsAssumption DEF GenInv, TypeOK, ThreadsOK, InstancesOK, SlotsOK,
       RegistryOK
  <2>2. NumbersOK'
    BY ThreadFacts DEF GenInv, TypeOK, ThreadsOK, InstancesOK, NumbersOK
  <2>3. EpochsOK'
    BY ThreadFacts DEF GenInv, TypeOK, ThreadsOK, InstancesOK, SlotsOK, NumbersOK, EpochsOK,
       PlacesOK
  <2>4. PlacesOK'
    BY ThreadFacts DEF GenInv, TypeOK, ThreadsOK, InstancesOK, NumbersOK, PlacesOK
  <2>5. Stable
    BY ThreadFacts DEF GenInv, TypeOK, ThreadsOK, InstancesOK, PlacesOK, Stable, Uses
  <2>6. SlotsSpeak'
    BY <2>5, ThreadFacts DEF GenInv, TypeOK, ThreadsOK, InstancesOK, SlotsOK, Stable, EpochsOK,
       PlacesOK, SlotsSpeak, Uses
  <2>7. ReaperOK'
    BY <2>5, ReaperKept DEF GenInv, ReaperOK
  <2> QED BY <2>1, <2>2, <2>3, <2>4, <2>6, <2>7 DEF GenInv
<1>3. CASE Unpark(t)
  <2> USE <1>3 DEF Unpark
  <2>1. TypeOK'
    BY ThreadFacts, GenerationsAssumption DEF GenInv, TypeOK, ThreadsOK, InstancesOK, SlotsOK,
       RegistryOK
  <2>2. NumbersOK'
    BY ThreadFacts DEF GenInv, TypeOK, ThreadsOK, InstancesOK, NumbersOK
  <2>3. EpochsOK'
    BY ThreadFacts DEF GenInv, TypeOK, ThreadsOK, InstancesOK, SlotsOK, NumbersOK, EpochsOK,
       PlacesOK
  <2>4. PlacesOK'
    BY ThreadFacts DEF GenInv, TypeOK, ThreadsOK, InstancesOK, NumbersOK, PlacesOK
  <2>5. Stable
    BY ThreadFacts DEF GenInv, TypeOK, ThreadsOK, InstancesOK, PlacesOK, Stable, Uses
  <2>6. SlotsSpeak'
    BY <2>5, ThreadFacts DEF GenInv, TypeOK, ThreadsOK, InstancesOK, SlotsOK, Stable, EpochsOK,
       PlacesOK, SlotsSpeak, Uses
  <2>7. ReaperOK'
    BY <2>5, ReaperKept DEF GenInv, ReaperOK
  <2> QED BY <2>1, <2>2, <2>3, <2>4, <2>6, <2>7 DEF GenInv
<1>4. CASE Ack(t)
  <2> USE <1>4 DEF Ack
  <2>1. TypeOK'
    BY ThreadFacts, GenerationsAssumption DEF GenInv, TypeOK, ThreadsOK, InstancesOK, SlotsOK,
       RegistryOK
  <2>2. NumbersOK'
    BY ThreadFacts DEF GenInv, TypeOK, ThreadsOK, InstancesOK, NumbersOK
  <2>3. EpochsOK'
    BY ThreadFacts DEF GenInv, TypeOK, ThreadsOK, InstancesOK, SlotsOK, NumbersOK, EpochsOK,
       PlacesOK
  <2>4. PlacesOK'
    BY ThreadFacts DEF GenInv, TypeOK, ThreadsOK, InstancesOK, NumbersOK, PlacesOK
  <2>5. Stable
    BY ThreadFacts DEF GenInv, TypeOK, ThreadsOK, InstancesOK, PlacesOK, Stable, Uses
  <2>6. SlotsSpeak'
    BY <2>5, ThreadFacts DEF GenInv, TypeOK, ThreadsOK, InstancesOK, SlotsOK, Stable, EpochsOK,
       PlacesOK, SlotsSpeak, Uses
  <2>7. ReaperOK'
    BY <2>5, ReaperKept DEF GenInv, ReaperOK
  <2> QED BY <2>1, <2>2, <2>3, <2>4, <2>6, <2>7 DEF GenInv
<1>5. CASE RunSvc(t)
  <2> USE <1>5 DEF RunSvc
  <2>1. TypeOK'
    BY ThreadFacts, GenerationsAssumption DEF GenInv, TypeOK, ThreadsOK, InstancesOK, SlotsOK,
       RegistryOK
  <2>2. NumbersOK'
    BY ThreadFacts DEF GenInv, TypeOK, ThreadsOK, InstancesOK, NumbersOK
  <2>3. EpochsOK'
    BY ThreadFacts DEF GenInv, TypeOK, ThreadsOK, InstancesOK, SlotsOK, NumbersOK, EpochsOK,
       PlacesOK
  <2>4. PlacesOK'
    BY ThreadFacts DEF GenInv, TypeOK, ThreadsOK, InstancesOK, NumbersOK, PlacesOK
  <2>5. Stable
    BY ThreadFacts DEF GenInv, TypeOK, ThreadsOK, InstancesOK, PlacesOK, Stable, Uses
  <2>6. SlotsSpeak'
    BY <2>5, ThreadFacts DEF GenInv, TypeOK, ThreadsOK, InstancesOK, SlotsOK, Stable, EpochsOK,
       PlacesOK, SlotsSpeak, Uses
  <2>7. ReaperOK'
    BY <2>5, ReaperKept DEF GenInv, ReaperOK
  <2> QED BY <2>1, <2>2, <2>3, <2>4, <2>6, <2>7 DEF GenInv
<1>6. CASE Exit(t)
  <2> USE <1>6 DEF Exit, Nobody, Reaper
  <2>1. TypeOK'
    BY ThreadFacts, GenerationsAssumption DEF GenInv, TypeOK, ThreadsOK, InstancesOK, SlotsOK,
       RegistryOK
  <2>2. NumbersOK'
    BY ThreadFacts DEF GenInv, TypeOK, ThreadsOK, InstancesOK, NumbersOK
  <2>3. EpochsOK'
    BY ThreadFacts DEF GenInv, TypeOK, ThreadsOK, InstancesOK, SlotsOK, NumbersOK, EpochsOK,
       PlacesOK
  <2>4. PlacesOK'
    BY ThreadFacts DEF GenInv, TypeOK, ThreadsOK, InstancesOK, NumbersOK, PlacesOK
  <2>5. Stable
    BY ThreadFacts DEF GenInv, TypeOK, ThreadsOK, InstancesOK, PlacesOK, Stable, Uses
  <2>6. SlotsSpeak'
    BY <2>5, ThreadFacts DEF GenInv, TypeOK, ThreadsOK, InstancesOK, SlotsOK, Stable, EpochsOK,
       PlacesOK, SlotsSpeak, Uses
  <2>7. ReaperOK'
    BY <2>5, ReaperKept DEF GenInv, ReaperOK
  <2> QED BY <2>1, <2>2, <2>3, <2>4, <2>6, <2>7 DEF GenInv
<1> QED BY <1>1, <1>2, <1>3, <1>4, <1>5, <1>6

\* renew_jit.  A retirement gets an epoch nobody has acknowledged yet, after
\* the instance has stopped being current and its retired flag is set.
LEMMA RenewSteps ==
    ASSUME GenInv, NEW t \in Threads,
           \/ RenewLock(t)
           \/ RenewPublish(t)
           \/ RenewRefused(t)
           \/ RetireFlag(t)
           \/ AdvanceEpoch(t)
           \/ QueueRetired(t)
    PROVE  GenInv'
<1> USE DEF Goto, Pcs, BoundaryPcs, RenewPcs, Dispatching,
            threadVars, slotVars, world, jitVars, registryVars, reaperVars
<1>1. CASE RenewLock(t)
  <2> USE <1>1 DEF RenewLock
  <2>1. TypeOK'
    BY ThreadFacts, GenerationsAssumption DEF GenInv, TypeOK, ThreadsOK, InstancesOK, SlotsOK,
       RegistryOK
  <2>2. NumbersOK'
    BY ThreadFacts DEF GenInv, TypeOK, ThreadsOK, InstancesOK, NumbersOK
  <2>3. EpochsOK'
    BY ThreadFacts DEF GenInv, TypeOK, ThreadsOK, InstancesOK, SlotsOK, NumbersOK, EpochsOK,
       PlacesOK
  <2>4. PlacesOK'
    BY ThreadFacts DEF GenInv, TypeOK, ThreadsOK, InstancesOK, NumbersOK, PlacesOK
  <2>5. Stable
    BY ThreadFacts DEF GenInv, TypeOK, ThreadsOK, InstancesOK, PlacesOK, Stable, Uses
  <2>6. SlotsSpeak'
    BY <2>5, ThreadFacts DEF GenInv, TypeOK, ThreadsOK, InstancesOK, SlotsOK, Stable, EpochsOK,
       PlacesOK, SlotsSpeak, Uses
  <2>7. ReaperOK'
    BY <2>5, ReaperKept DEF GenInv, ReaperOK
  <2> QED BY <2>1, <2>2, <2>3, <2>4, <2>6, <2>7 DEF GenInv
<1>2. CASE RenewPublish(t)
  <2> USE <1>2 DEF RenewPublish
  <2>1. made \in Nat /\ made + 1 \in Gens /\ made + 1 # NoGen /\ current <= made /\ NoGen <= made
    BY GenerationsAssumption DEF GenInv, TypeOK, InstancesOK, NumbersOK, Gens, NoGen
  <2>2. \A h \in Gens \cup {NoGen} : h \in Nat
    BY GenerationsAssumption DEF Gens, NoGen
  <2>3. \A h \in Gens \cup {NoGen} : h <= made => h # made + 1 /\ h <= made + 1
    BY <2>1, <2>2
  <2> USE <2>1, <2>3
  <2>4. TypeOK'
    <3>1. ThreadsOK'
      BY ThreadFacts DEF GenInv, TypeOK, ThreadsOK, InstancesOK, PlacesOK
    <3>2. SlotsOK'
      BY DEF GenInv, TypeOK, ThreadsOK, InstancesOK, SlotsOK
    <3>3. InstancesOK'
      BY DEF GenInv, TypeOK, ThreadsOK, InstancesOK, PlacesOK
    <3>4. RegistryOK'
      BY DEF GenInv, TypeOK, ThreadsOK, InstancesOK, RegistryOK, PlacesOK, ReaperOK
    <3> QED BY <3>1, <3>2, <3>3, <3>4 DEF TypeOK
  <2>5. NumbersOK'
    <3>1. made' = made + 1 /\ current' = made + 1 /\ UNCHANGED <<retired, ptr, frames>>
      OBVIOUS
    <3>2. \A h \in retired : h <= made + 1
      BY DEF GenInv, TypeOK, ThreadsOK, InstancesOK, NumbersOK
    <3>3. ASSUME NEW w \in Threads
          PROVE  ptr[w] <= made + 1 /\ \A h \in OnStack(frames[w]) : h <= made + 1
      BY ThreadFacts DEF GenInv, TypeOK, ThreadsOK, InstancesOK, NumbersOK
    <3>4. made + 1 <= made + 1
      OBVIOUS
    <3> QED BY <3>1, <3>2, <3>3, <3>4 DEF NumbersOK
  <2>6. EpochsOK'
    BY DEF GenInv, TypeOK, ThreadsOK, InstancesOK, SlotsOK, NumbersOK, EpochsOK
  <2>7. PlacesOK'
    BY DEF GenInv, TypeOK, ThreadsOK, InstancesOK, NumbersOK, PlacesOK
  <2>8. Stable
    BY ThreadFacts DEF GenInv, TypeOK, ThreadsOK, InstancesOK, PlacesOK, Stable, Uses
  <2>9. SlotsSpeak'
    BY <2>8, ThreadFacts DEF GenInv, TypeOK, ThreadsOK, InstancesOK, SlotsOK, Stable, EpochsOK,
       PlacesOK, SlotsSpeak, Uses
  <2>10. ReaperOK'
    BY <2>8, ReaperKept DEF GenInv, ReaperOK
  <2> QED BY <2>4, <2>5, <2>6, <2>7, <2>9, <2>10 DEF GenInv
<1>3. CASE RenewRefused(t)
  <2> USE <1>3 DEF RenewRefused
  <2>1. TypeOK'
    BY ThreadFacts, GenerationsAssumption DEF GenInv, TypeOK, ThreadsOK, InstancesOK, SlotsOK,
       RegistryOK
  <2>2. NumbersOK'
    BY ThreadFacts DEF GenInv, TypeOK, ThreadsOK, InstancesOK, NumbersOK
  <2>3. EpochsOK'
    BY ThreadFacts DEF GenInv, TypeOK, ThreadsOK, InstancesOK, SlotsOK, NumbersOK, EpochsOK,
       PlacesOK
  <2>4. PlacesOK'
    BY ThreadFacts DEF GenInv, TypeOK, ThreadsOK, InstancesOK, NumbersOK, PlacesOK
  <2>5. Stable
    BY ThreadFacts DEF GenInv, TypeOK, ThreadsOK, InstancesOK, PlacesOK, Stable, Uses
  <2>6. SlotsSpeak'
    BY <2>5, ThreadFacts DEF GenInv, TypeOK, ThreadsOK, InstancesOK, SlotsOK, Stable, EpochsOK,
       PlacesOK, SlotsSpeak, Uses
  <2>7. ReaperOK'
    BY <2>5, ReaperKept DEF GenInv, ReaperOK
  <2> QED BY <2>1, <2>2, <2>3, <2>4, <2>6, <2>7 DEF GenInv
<1>4. CASE RetireFlag(t)
  <2> USE <1>4 DEF RetireFlag
  <2>1. TypeOK'
    <3>1. ThreadsOK'
      BY ThreadFacts DEF GenInv, TypeOK, ThreadsOK, InstancesOK, PlacesOK
    <3>2. SlotsOK'
      BY DEF GenInv, TypeOK, ThreadsOK, InstancesOK, SlotsOK
    <3>3. InstancesOK'
      BY DEF GenInv, TypeOK, ThreadsOK, InstancesOK, PlacesOK
    <3>4. RegistryOK'
      BY DEF GenInv, TypeOK, ThreadsOK, InstancesOK, RegistryOK, PlacesOK, ReaperOK
    <3> QED BY <3>1, <3>2, <3>3, <3>4 DEF TypeOK
  <2>2. NumbersOK'
    BY ThreadFacts DEF GenInv, TypeOK, ThreadsOK, InstancesOK, NumbersOK
  <2>3. EpochsOK'
    BY ThreadFacts DEF GenInv, TypeOK, ThreadsOK, InstancesOK, SlotsOK, NumbersOK, EpochsOK,
       PlacesOK
  <2>4. PlacesOK'
    BY ThreadFacts DEF GenInv, TypeOK, ThreadsOK, InstancesOK, NumbersOK, PlacesOK
  <2>5. Stable
    BY ThreadFacts DEF GenInv, TypeOK, ThreadsOK, InstancesOK, PlacesOK, Stable, Uses
  <2>6. SlotsSpeak'
    BY <2>5, ThreadFacts DEF GenInv, TypeOK, ThreadsOK, InstancesOK, SlotsOK, Stable, EpochsOK,
       PlacesOK, SlotsSpeak, Uses
  <2>7. ReaperOK'
    BY <2>5, ReaperKept DEF GenInv, ReaperOK
  <2> QED BY <2>1, <2>2, <2>3, <2>4, <2>6, <2>7 DEF GenInv
<1>5. CASE AdvanceEpoch(t)
  <2> USE <1>5 DEF AdvanceEpoch
  <2>1. TypeOK'
    <3>1. ThreadsOK'
      BY ThreadFacts DEF GenInv, TypeOK, ThreadsOK, InstancesOK, PlacesOK
    <3>2. SlotsOK'
      BY DEF GenInv, TypeOK, ThreadsOK, InstancesOK, SlotsOK
    <3>3. InstancesOK'
      BY DEF GenInv, TypeOK, ThreadsOK, InstancesOK, PlacesOK
    <3>4. RegistryOK'
      BY DEF GenInv, TypeOK, ThreadsOK, InstancesOK, RegistryOK, PlacesOK, ReaperOK
    <3> QED BY <3>1, <3>2, <3>3, <3>4 DEF TypeOK
  <2>2. NumbersOK'
    BY ThreadFacts DEF GenInv, TypeOK, ThreadsOK, InstancesOK, NumbersOK
  <2>3. EpochsOK'
    BY ThreadFacts DEF GenInv, TypeOK, ThreadsOK, InstancesOK, SlotsOK, NumbersOK, EpochsOK,
       PlacesOK
  <2>4. PlacesOK'
    BY ThreadFacts DEF GenInv, TypeOK, ThreadsOK, InstancesOK, NumbersOK, PlacesOK
  <2>5. Stable
    BY ThreadFacts DEF GenInv, TypeOK, ThreadsOK, InstancesOK, PlacesOK, Stable, Uses
  <2>6. SlotsSpeak'
    BY <2>5, ThreadFacts DEF GenInv, TypeOK, ThreadsOK, InstancesOK, SlotsOK, Stable, EpochsOK,
       PlacesOK, SlotsSpeak, Uses
  <2>7. ReaperOK'
    BY <2>5 DEF GenInv, TypeOK, ThreadsOK, InstancesOK, RegistryOK, PlacesOK, EpochsOK, Stable,
       Past, ReaperOK
  <2> QED BY <2>1, <2>2, <2>3, <2>4, <2>6, <2>7 DEF GenInv
<1>6. CASE QueueRetired(t)
  <2> USE <1>6 DEF QueueRetired
  <2>1. TypeOK'
    <3>1. ThreadsOK'
      BY ThreadFacts DEF GenInv, TypeOK, ThreadsOK, InstancesOK, PlacesOK
    <3>2. SlotsOK'
      BY DEF GenInv, TypeOK, ThreadsOK, InstancesOK, SlotsOK
    <3>3. InstancesOK'
      BY DEF GenInv, TypeOK, ThreadsOK, InstancesOK, PlacesOK
    <3>4. RegistryOK'
      BY DEF GenInv, TypeOK, ThreadsOK, InstancesOK, RegistryOK, PlacesOK, ReaperOK
    <3> QED BY <3>1, <3>2, <3>3, <3>4 DEF TypeOK
  <2>2. NumbersOK'
    BY ThreadFacts DEF GenInv, TypeOK, ThreadsOK, InstancesOK, NumbersOK
  <2>3. EpochsOK'
    BY ThreadFacts DEF GenInv, TypeOK, ThreadsOK, InstancesOK, SlotsOK, NumbersOK, EpochsOK,
       PlacesOK
  <2>4. PlacesOK'
    BY ThreadFacts DEF GenInv, TypeOK, ThreadsOK, InstancesOK, NumbersOK, PlacesOK
  <2>5. Stable
    BY ThreadFacts DEF GenInv, TypeOK, ThreadsOK, InstancesOK, PlacesOK, Stable, Uses
  <2>6. SlotsSpeak'
    BY <2>5, ThreadFacts DEF GenInv, TypeOK, ThreadsOK, InstancesOK, SlotsOK, Stable, EpochsOK,
       PlacesOK, SlotsSpeak, Uses
  <2>7. ReaperOK'
    BY <2>5 DEF GenInv, TypeOK, ThreadsOK, InstancesOK, RegistryOK, PlacesOK, EpochsOK, Stable,
       Past, ReaperOK
  <2> QED BY <2>1, <2>2, <2>3, <2>4, <2>6, <2>7 DEF GenInv
<1> QED BY <1>1, <1>2, <1>3, <1>4, <1>5, <1>6

\* The reaper.  A slot it passes, and the absence of one, mean that the thread
\* does not use the candidate; by Stable that is still so when the round ends.
LEMMA ReaperSteps ==
    ASSUME GenInv, NEW t \in Threads, NEW g \in Gens,
           \/ StartRound
           \/ PickCandidate(g)
           \/ PassSlot(t)
           \/ BlockingSlot(t)
           \/ TakeCandidate
           \/ EndRound
           \/ Release(g)
           \/ CountReleased
    PROVE  GenInv'
<1> USE DEF Goto, Pcs, BoundaryPcs, RenewPcs, Dispatching,
            threadVars, slotVars, world, jitVars, registryVars, reaperVars
<1>1. CASE StartRound
  <2> USE <1>1 DEF StartRound
  <2>1. TypeOK'
    BY ThreadFacts, GenerationsAssumption DEF GenInv, TypeOK, ThreadsOK, InstancesOK, SlotsOK,
       RegistryOK
  <2>2. NumbersOK'
    BY ThreadFacts DEF GenInv, TypeOK, ThreadsOK, InstancesOK, NumbersOK
  <2>3. EpochsOK'
    BY ThreadFacts DEF GenInv, TypeOK, ThreadsOK, InstancesOK, SlotsOK, NumbersOK, EpochsOK,
       PlacesOK
  <2>4. PlacesOK'
    BY ThreadFacts DEF GenInv, TypeOK, ThreadsOK, InstancesOK, NumbersOK, PlacesOK
  <2>5. Stable
    BY ThreadFacts DEF GenInv, TypeOK, ThreadsOK, InstancesOK, PlacesOK, Stable, Uses
  <2>6. SlotsSpeak'
    BY <2>5, ThreadFacts DEF GenInv, TypeOK, ThreadsOK, InstancesOK, SlotsOK, Stable, EpochsOK,
       PlacesOK, SlotsSpeak, Uses
  <2>7. ReaperOK'
    BY <2>5, ThreadFacts DEF GenInv, TypeOK, ThreadsOK, InstancesOK, RegistryOK, SlotsOK,
       PlacesOK, SlotsSpeak, Quiet, Decide, Stable, Uses, Past, ReaperOK
  <2> QED BY <2>1, <2>2, <2>3, <2>4, <2>6, <2>7 DEF GenInv
<1>2. CASE PickCandidate(g)
  <2> USE <1>2 DEF PickCandidate
  <2>1. TypeOK'
    BY ThreadFacts, GenerationsAssumption DEF GenInv, TypeOK, ThreadsOK, InstancesOK, SlotsOK,
       RegistryOK
  <2>2. NumbersOK'
    BY ThreadFacts DEF GenInv, TypeOK, ThreadsOK, InstancesOK, NumbersOK
  <2>3. EpochsOK'
    BY ThreadFacts DEF GenInv, TypeOK, ThreadsOK, InstancesOK, SlotsOK, NumbersOK, EpochsOK,
       PlacesOK
  <2>4. PlacesOK'
    BY ThreadFacts DEF GenInv, TypeOK, ThreadsOK, InstancesOK, NumbersOK, PlacesOK
  <2>5. Stable
    BY ThreadFacts DEF GenInv, TypeOK, ThreadsOK, InstancesOK, PlacesOK, Stable, Uses
  <2>6. SlotsSpeak'
    BY <2>5, ThreadFacts DEF GenInv, TypeOK, ThreadsOK, InstancesOK, SlotsOK, Stable, EpochsOK,
       PlacesOK, SlotsSpeak, Uses
  <2>7. ReaperOK'
    BY <2>5, ThreadFacts DEF GenInv, TypeOK, ThreadsOK, InstancesOK, RegistryOK, SlotsOK,
       PlacesOK, SlotsSpeak, Quiet, Decide, Stable, Uses, Past, ReaperOK
  <2> QED BY <2>1, <2>2, <2>3, <2>4, <2>6, <2>7 DEF GenInv
<1>3. CASE PassSlot(t)
  <2> USE <1>3 DEF PassSlot
  <2>1. TypeOK'
    BY ThreadFacts, GenerationsAssumption DEF GenInv, TypeOK, ThreadsOK, InstancesOK, SlotsOK,
       RegistryOK
  <2>2. NumbersOK'
    BY ThreadFacts DEF GenInv, TypeOK, ThreadsOK, InstancesOK, NumbersOK
  <2>3. EpochsOK'
    BY ThreadFacts DEF GenInv, TypeOK, ThreadsOK, InstancesOK, SlotsOK, NumbersOK, EpochsOK,
       PlacesOK
  <2>4. PlacesOK'
    BY ThreadFacts DEF GenInv, TypeOK, ThreadsOK, InstancesOK, NumbersOK, PlacesOK
  <2>5. Stable
    BY ThreadFacts DEF GenInv, TypeOK, ThreadsOK, InstancesOK, PlacesOK, Stable, Uses
  <2>6. SlotsSpeak'
    BY <2>5, ThreadFacts DEF GenInv, TypeOK, ThreadsOK, InstancesOK, SlotsOK, Stable, EpochsOK,
       PlacesOK, SlotsSpeak, Uses
  <2>7. ReaperOK'
    BY <2>5, ThreadFacts DEF GenInv, TypeOK, ThreadsOK, InstancesOK, RegistryOK, SlotsOK,
       PlacesOK, SlotsSpeak, Quiet, Decide, Stable, Uses, Past, ReaperOK
  <2> QED BY <2>1, <2>2, <2>3, <2>4, <2>6, <2>7 DEF GenInv
<1>4. CASE BlockingSlot(t)
  <2> USE <1>4 DEF BlockingSlot, Decide
  <2>1. TypeOK'
    BY ThreadFacts, GenerationsAssumption DEF GenInv, TypeOK, ThreadsOK, InstancesOK, SlotsOK,
       RegistryOK
  <2>2. NumbersOK'
    BY ThreadFacts DEF GenInv, TypeOK, ThreadsOK, InstancesOK, NumbersOK
  <2>3. EpochsOK'
    BY ThreadFacts DEF GenInv, TypeOK, ThreadsOK, InstancesOK, SlotsOK, NumbersOK, EpochsOK,
       PlacesOK
  <2>4. PlacesOK'
    BY ThreadFacts DEF GenInv, TypeOK, ThreadsOK, InstancesOK, NumbersOK, PlacesOK
  <2>5. Stable
    BY ThreadFacts DEF GenInv, TypeOK, ThreadsOK, InstancesOK, PlacesOK, Stable, Uses
  <2>6. SlotsSpeak'
    BY <2>5, ThreadFacts DEF GenInv, TypeOK, ThreadsOK, InstancesOK, SlotsOK, Stable, EpochsOK,
       PlacesOK, SlotsSpeak, Uses
  <2>7. ReaperOK'
    BY <2>5, ThreadFacts DEF GenInv, TypeOK, ThreadsOK, InstancesOK, RegistryOK, SlotsOK,
       PlacesOK, SlotsSpeak, Quiet, Decide, Stable, Uses, Past, ReaperOK
  <2> QED BY <2>1, <2>2, <2>3, <2>4, <2>6, <2>7 DEF GenInv
<1>5. CASE TakeCandidate
  <2> USE <1>5 DEF TakeCandidate, Decide
  <2>1. TypeOK'
    <3>1. ThreadsOK'
      BY ThreadFacts DEF GenInv, TypeOK, ThreadsOK, InstancesOK, PlacesOK
    <3>2. SlotsOK'
      BY DEF GenInv, TypeOK, ThreadsOK, InstancesOK, SlotsOK
    <3>3. InstancesOK'
      BY DEF GenInv, TypeOK, ThreadsOK, InstancesOK, PlacesOK
    <3>4. RegistryOK'
      BY DEF GenInv, TypeOK, ThreadsOK, InstancesOK, RegistryOK, PlacesOK, ReaperOK
    <3> QED BY <3>1, <3>2, <3>3, <3>4 DEF TypeOK
  <2>2. NumbersOK'
    BY ThreadFacts DEF GenInv, TypeOK, ThreadsOK, InstancesOK, NumbersOK
  <2>3. EpochsOK'
    BY ThreadFacts DEF GenInv, TypeOK, ThreadsOK, InstancesOK, SlotsOK, NumbersOK, EpochsOK,
       PlacesOK
  <2>4. PlacesOK'
    BY ThreadFacts DEF GenInv, TypeOK, ThreadsOK, InstancesOK, NumbersOK, PlacesOK
  <2>5. Stable
    BY ThreadFacts DEF GenInv, TypeOK, ThreadsOK, InstancesOK, PlacesOK, Stable, Uses
  <2>6. SlotsSpeak'
    BY <2>5, ThreadFacts DEF GenInv, TypeOK, ThreadsOK, InstancesOK, SlotsOK, Stable, EpochsOK,
       PlacesOK, SlotsSpeak, Uses
  <2>7. ReaperOK'
    BY <2>5, ThreadFacts DEF GenInv, TypeOK, ThreadsOK, InstancesOK, RegistryOK, SlotsOK,
       PlacesOK, SlotsSpeak, Quiet, Decide, Stable, Uses, Past, ReaperOK
  <2> QED BY <2>1, <2>2, <2>3, <2>4, <2>6, <2>7 DEF GenInv
<1>6. CASE EndRound
  <2> USE <1>6 DEF EndRound
  <2>1. TypeOK'
    BY ThreadFacts, GenerationsAssumption DEF GenInv, TypeOK, ThreadsOK, InstancesOK, SlotsOK,
       RegistryOK
  <2>2. NumbersOK'
    BY ThreadFacts DEF GenInv, TypeOK, ThreadsOK, InstancesOK, NumbersOK
  <2>3. EpochsOK'
    BY ThreadFacts DEF GenInv, TypeOK, ThreadsOK, InstancesOK, SlotsOK, NumbersOK, EpochsOK,
       PlacesOK
  <2>4. PlacesOK'
    BY ThreadFacts DEF GenInv, TypeOK, ThreadsOK, InstancesOK, NumbersOK, PlacesOK
  <2>5. Stable
    BY ThreadFacts DEF GenInv, TypeOK, ThreadsOK, InstancesOK, PlacesOK, Stable, Uses
  <2>6. SlotsSpeak'
    BY <2>5, ThreadFacts DEF GenInv, TypeOK, ThreadsOK, InstancesOK, SlotsOK, Stable, EpochsOK,
       PlacesOK, SlotsSpeak, Uses
  <2>7. ReaperOK'
    BY <2>5, ThreadFacts DEF GenInv, TypeOK, ThreadsOK, InstancesOK, RegistryOK, SlotsOK,
       PlacesOK, SlotsSpeak, Quiet, Decide, Stable, Uses, Past, ReaperOK
  <2> QED BY <2>1, <2>2, <2>3, <2>4, <2>6, <2>7 DEF GenInv
<1>7. CASE Release(g)
  <2> USE <1>7 DEF Release
  <2>1. TypeOK'
    BY ThreadFacts, GenerationsAssumption DEF GenInv, TypeOK, ThreadsOK, InstancesOK, SlotsOK,
       RegistryOK
  <2>2. NumbersOK'
    BY ThreadFacts DEF GenInv, TypeOK, ThreadsOK, InstancesOK, NumbersOK
  <2>3. EpochsOK'
    BY ThreadFacts DEF GenInv, TypeOK, ThreadsOK, InstancesOK, SlotsOK, NumbersOK, EpochsOK,
       PlacesOK
  <2>4. PlacesOK'
    BY ThreadFacts DEF GenInv, TypeOK, ThreadsOK, InstancesOK, NumbersOK, PlacesOK
  <2>5. Stable
    BY ThreadFacts DEF GenInv, TypeOK, ThreadsOK, InstancesOK, PlacesOK, Stable, Uses
  <2>6. SlotsSpeak'
    BY <2>5, ThreadFacts DEF GenInv, TypeOK, ThreadsOK, InstancesOK, SlotsOK, Stable, EpochsOK,
       PlacesOK, SlotsSpeak, Uses
  <2>7. ReaperOK'
    BY <2>5, ThreadFacts DEF GenInv, TypeOK, ThreadsOK, InstancesOK, RegistryOK, SlotsOK,
       PlacesOK, SlotsSpeak, Quiet, Decide, Stable, Uses, Past, ReaperOK
  <2> QED BY <2>1, <2>2, <2>3, <2>4, <2>6, <2>7 DEF GenInv
<1>8. CASE CountReleased
  <2> USE <1>8 DEF CountReleased
  <2>1. TypeOK'
    <3>1. IsFiniteSet(Gens)
      BY FS_Interval, GenerationsAssumption DEF Gens
    <3>2. Cardinality(ready) \in Nat
      BY <3>1, FS_Subset, FS_CardinalityType DEF GenInv, TypeOK, RegistryOK
    <3>3. RegistryOK'
      BY <3>2 DEF GenInv, TypeOK, ThreadsOK, InstancesOK, RegistryOK
    <3> QED BY <3>3 DEF GenInv, TypeOK, ThreadsOK, InstancesOK, SlotsOK
  <2>2. NumbersOK'
    BY ThreadFacts DEF GenInv, TypeOK, ThreadsOK, InstancesOK, NumbersOK
  <2>3. EpochsOK'
    BY ThreadFacts DEF GenInv, TypeOK, ThreadsOK, InstancesOK, SlotsOK, NumbersOK, EpochsOK,
       PlacesOK
  <2>4. PlacesOK'
    BY ThreadFacts DEF GenInv, TypeOK, ThreadsOK, InstancesOK, NumbersOK, PlacesOK
  <2>5. Stable
    BY ThreadFacts DEF GenInv, TypeOK, ThreadsOK, InstancesOK, PlacesOK, Stable, Uses
  <2>6. SlotsSpeak'
    BY <2>5, ThreadFacts DEF GenInv, TypeOK, ThreadsOK, InstancesOK, SlotsOK, Stable, EpochsOK,
       PlacesOK, SlotsSpeak, Uses
  <2>7. ReaperOK'
    BY <2>5, ThreadFacts DEF GenInv, TypeOK, ThreadsOK, InstancesOK, RegistryOK, SlotsOK,
       PlacesOK, SlotsSpeak, Quiet, Decide, Stable, Uses, Past, ReaperOK
  <2> QED BY <2>1, <2>2, <2>3, <2>4, <2>6, <2>7 DEF GenInv
<1> QED BY <1>1, <1>2, <1>3, <1>4, <1>5, <1>6, <1>7, <1>8

\* exec, fork and the end of the emulator.  A fork child keeps released and
\* retiredEpoch, and drops everything the reaper had under way.
LEMMA ProcessSteps ==
    ASSUME GenInv, NEW t \in Threads, NEW g \in Gens,
           \/ Exec(t)
           \/ Fork(t)
           \/ Destroy
           \/ Forget(g)
    PROVE  GenInv'
<1> USE DEF Goto, Pcs, BoundaryPcs, RenewPcs, Dispatching,
            threadVars, slotVars, world, jitVars, registryVars, reaperVars
<1>1. CASE Exec(t)
  <2> USE <1>1 DEF Exec, InCpp
  <2>1. made \in Nat /\ made + 1 \in Gens /\ made + 1 # NoGen /\ current <= made /\ NoGen <= made
    BY GenerationsAssumption DEF GenInv, TypeOK, InstancesOK, NumbersOK, Gens, NoGen
  <2>2. \A h \in Gens \cup {NoGen} : h \in Nat
    BY GenerationsAssumption DEF Gens, NoGen
  <2>3. \A h \in Gens \cup {NoGen} : h <= made => h # made + 1 /\ h <= made + 1
    BY <2>1, <2>2
  <2> USE <2>1, <2>3
  <2>4. TypeOK'
    <3>1. ThreadsOK'
      BY ThreadFacts DEF GenInv, TypeOK, ThreadsOK, InstancesOK, PlacesOK
    <3>2. SlotsOK'
      BY DEF GenInv, TypeOK, ThreadsOK, InstancesOK, SlotsOK
    <3>3. InstancesOK'
      BY DEF GenInv, TypeOK, ThreadsOK, InstancesOK, PlacesOK
    <3>4. RegistryOK'
      BY DEF GenInv, TypeOK, ThreadsOK, InstancesOK, RegistryOK, PlacesOK, ReaperOK
    <3> QED BY <3>1, <3>2, <3>3, <3>4 DEF TypeOK
  <2>5. NumbersOK'
    <3>1. made' = made + 1 /\ current' = made + 1 /\ UNCHANGED <<retired, ptr, frames>>
      OBVIOUS
    <3>2. \A h \in retired : h <= made + 1
      BY DEF GenInv, TypeOK, ThreadsOK, InstancesOK, NumbersOK
    <3>3. ASSUME NEW w \in Threads
          PROVE  ptr[w] <= made + 1 /\ \A h \in OnStack(frames[w]) : h <= made + 1
      BY ThreadFacts DEF GenInv, TypeOK, ThreadsOK, InstancesOK, NumbersOK
    <3>4. made + 1 <= made + 1
      OBVIOUS
    <3> QED BY <3>1, <3>2, <3>3, <3>4 DEF NumbersOK
  <2>6. EpochsOK'
    BY DEF GenInv, TypeOK, ThreadsOK, InstancesOK, SlotsOK, NumbersOK, EpochsOK
  <2>7. PlacesOK'
    BY DEF GenInv, TypeOK, ThreadsOK, InstancesOK, NumbersOK, PlacesOK
  <2>8. Stable
    BY ThreadFacts DEF GenInv, TypeOK, ThreadsOK, InstancesOK, PlacesOK, Stable, Uses
  <2>9. SlotsSpeak'
    BY <2>8, ThreadFacts DEF GenInv, TypeOK, ThreadsOK, InstancesOK, SlotsOK, Stable, EpochsOK,
       PlacesOK, SlotsSpeak, Uses
  <2>10. ReaperOK'
    BY <2>8, ReaperKept DEF GenInv, ReaperOK
  <2> QED BY <2>4, <2>5, <2>6, <2>7, <2>9, <2>10 DEF GenInv
<1>2. CASE Fork(t)
  <2> USE <1>2 DEF Fork, InCpp
  <2>1. TypeOK'
    <3>1. ThreadsOK'
      BY ThreadFacts DEF GenInv, TypeOK, ThreadsOK, InstancesOK, PlacesOK
    <3>2. SlotsOK'
      BY DEF GenInv, TypeOK, ThreadsOK, InstancesOK, SlotsOK
    <3>3. InstancesOK'
      BY DEF GenInv, TypeOK, ThreadsOK, InstancesOK, PlacesOK
    <3>4. RegistryOK'
      BY DEF GenInv, TypeOK, ThreadsOK, InstancesOK, RegistryOK, PlacesOK, ReaperOK
    <3> QED BY <3>1, <3>2, <3>3, <3>4 DEF TypeOK
  <2>2. NumbersOK'
    <3>1. NoGen <= made
      BY DEF GenInv, TypeOK, ThreadsOK, InstancesOK, Gens, NoGen
    <3>2. OnStack(<<>>) = {}
      BY EmptyStack, EmptySeq
    <3> QED BY <3>1, <3>2, ThreadFacts DEF GenInv, TypeOK, ThreadsOK, InstancesOK, NumbersOK
  <2>3. EpochsOK'
    <3>1. \A h \in Gens : h # NoGen
      BY DEF Gens, NoGen
    <3> QED BY <3>1 DEF GenInv, TypeOK, ThreadsOK, InstancesOK, SlotsOK, EpochsOK
  <2>4. PlacesOK'
    BY ThreadFacts DEF GenInv, TypeOK, ThreadsOK, InstancesOK, NumbersOK, PlacesOK
  <2>5. Stable
    <3>1. OnStack(<<>>) = {}
      BY EmptyStack, EmptySeq
    <3> QED BY <3>1, ThreadFacts DEF GenInv, TypeOK, ThreadsOK, InstancesOK, PlacesOK, Stable, Uses
  <2>6. SlotsSpeak'
    BY <2>5, ThreadFacts DEF GenInv, TypeOK, ThreadsOK, InstancesOK, SlotsOK, Stable, EpochsOK,
       PlacesOK, SlotsSpeak, Uses
  <2>7. ReaperOK'
    BY <2>5, ThreadFacts DEF GenInv, TypeOK, ThreadsOK, InstancesOK, RegistryOK, SlotsOK,
       PlacesOK, SlotsSpeak, Quiet, Decide, Stable, Uses, Past, ReaperOK
  <2> QED BY <2>1, <2>2, <2>3, <2>4, <2>6, <2>7 DEF GenInv
<1>3. CASE Destroy
  <2> USE <1>3 DEF Destroy
  <2>1. TypeOK'
    BY ThreadFacts, GenerationsAssumption DEF GenInv, TypeOK, ThreadsOK, InstancesOK, SlotsOK,
       RegistryOK
  <2>2. NumbersOK'
    BY ThreadFacts DEF GenInv, TypeOK, ThreadsOK, InstancesOK, NumbersOK
  <2>3. EpochsOK'
    BY ThreadFacts DEF GenInv, TypeOK, ThreadsOK, InstancesOK, SlotsOK, NumbersOK, EpochsOK,
       PlacesOK
  <2>4. PlacesOK'
    BY ThreadFacts DEF GenInv, TypeOK, ThreadsOK, InstancesOK, NumbersOK, PlacesOK
  <2>5. Stable
    BY ThreadFacts DEF GenInv, TypeOK, ThreadsOK, InstancesOK, PlacesOK, Stable, Uses
  <2>6. SlotsSpeak'
    BY <2>5, ThreadFacts DEF GenInv, TypeOK, ThreadsOK, InstancesOK, SlotsOK, Stable, EpochsOK,
       PlacesOK, SlotsSpeak, Uses
  <2>7. ReaperOK'
    BY <2>5, ReaperKept DEF GenInv, ReaperOK
  <2> QED BY <2>1, <2>2, <2>3, <2>4, <2>6, <2>7 DEF GenInv
<1>4. CASE Forget(g)
  <2> USE <1>4 DEF Forget
  <2>1. TypeOK'
    BY ThreadFacts, GenerationsAssumption DEF GenInv, TypeOK, ThreadsOK, InstancesOK, SlotsOK,
       RegistryOK
  <2>2. NumbersOK'
    BY ThreadFacts DEF GenInv, TypeOK, ThreadsOK, InstancesOK, NumbersOK
  <2>3. EpochsOK'
    BY ThreadFacts DEF GenInv, TypeOK, ThreadsOK, InstancesOK, SlotsOK, NumbersOK, EpochsOK,
       PlacesOK
  <2>4. PlacesOK'
    BY ThreadFacts DEF GenInv, TypeOK, ThreadsOK, InstancesOK, NumbersOK, PlacesOK
  <2>5. Stable
    BY ThreadFacts DEF GenInv, TypeOK, ThreadsOK, InstancesOK, PlacesOK, Stable, Uses
  <2>6. SlotsSpeak'
    BY <2>5, ThreadFacts DEF GenInv, TypeOK, ThreadsOK, InstancesOK, SlotsOK, Stable, EpochsOK,
       PlacesOK, SlotsSpeak, Uses
  <2>7. ReaperOK'
    BY <2>5, ThreadFacts DEF GenInv, TypeOK, ThreadsOK, InstancesOK, RegistryOK, SlotsOK,
       PlacesOK, SlotsSpeak, Quiet, Decide, Stable, Uses, Past, ReaperOK
  <2> QED BY <2>1, <2>2, <2>3, <2>4, <2>6, <2>7 DEF GenInv
<1> QED BY <1>1, <1>2, <1>3, <1>4


\* GenInv holds initially: there is one instance and nobody runs it yet.
LEMMA GenInvInit ==
    ASSUME Init PROVE GenInv
<1> USE GenerationsAssumption DEF Init
<1>0. 1 \in Gens
  BY DEF Gens
<1>1. 1 \in Gens /\ OnStack(<<>>) = {}
  BY <1>0, EmptyStack, EmptySeq
<1>2. TypeOK
  BY <1>1, EmptySeq DEF TypeOK, ThreadsOK, SlotsOK, InstancesOK, RegistryOK, Pcs, Nobody
<1>3. NumbersOK
  BY <1>1 DEF NumbersOK, NoGen
<1>4. EpochsOK
  BY DEF EpochsOK
<1>5. PlacesOK
  BY DEF PlacesOK, Dispatching, BoundaryPcs, RenewPcs, Pcs
<1>6. SlotsSpeak /\ ReaperOK
  BY DEF SlotsSpeak, ReaperOK
<1> QED BY <1>2, <1>3, <1>4, <1>5, <1>6 DEF GenInv

\* Every step keeps GenInv.
LEMMA GenInvStep ==
    ASSUME GenInv, [Next]_vars
    PROVE  GenInv'
<1>1. CASE \E t \in Threads :
              \/ Dispatch(t) \/ Boundary(t) \/ Step(t) \/ Renew(t)
              \/ Leave(t) \/ Call(t) \/ HelperLoop(t) \/ HelperReturn(t)
              \/ SyscallReturns(t) \/ Process(t)
  <2>1. PICK t \in Threads :
              \/ Dispatch(t) \/ Boundary(t) \/ Step(t) \/ Renew(t)
              \/ Leave(t) \/ Call(t) \/ HelperLoop(t) \/ HelperReturn(t)
              \/ SyscallReturns(t) \/ Process(t)
    BY <1>1
  <2>2. 1 \in Gens
    BY GenerationsAssumption DEF Gens
  <2>3. CASE Dispatch(t) \/ Leave(t) \/ Call(t) \/ HelperLoop(t) \/ HelperReturn(t) \/ SyscallReturns(t)
    BY <2>3, QuietThread
  <2>4. CASE Boundary(t)
    BY <2>4, QuietThread, SlotSteps DEF Boundary
  <2>5. CASE Step(t)
    BY <2>5, QuietThread, SlotSteps DEF Step
  <2>6. CASE Renew(t)
    BY <2>6, QuietThread, RenewSteps DEF Renew
  <2>7. CASE Process(t)
    BY <2>2, <2>7, QuietThread, SlotSteps, ProcessSteps DEF Process
  <2> QED BY <2>1, <2>3, <2>4, <2>5, <2>6, <2>7
<1>2. CASE Reap
  BY <1>2, ReaperSteps, GenerationsAssumption DEF Reap, Gens
<1>3. CASE Destroy \/ \E g \in Gens : Forget(g)
  BY <1>3, ProcessSteps, GenerationsAssumption DEF Gens
<1>4. CASE UNCHANGED vars
  <2> USE <1>4 DEF vars, threadVars, slotVars, world, jitVars, registryVars, reaperVars
  <2>1. TypeOK'
    BY DEF GenInv, TypeOK, ThreadsOK, SlotsOK, InstancesOK, RegistryOK
  <2>2. NumbersOK' /\ EpochsOK' /\ PlacesOK'
    BY DEF GenInv, NumbersOK, EpochsOK, PlacesOK, Dispatching
  <2>3. SlotsSpeak' /\ ReaperOK'
    BY DEF GenInv, SlotsSpeak, ReaperOK, Past, Uses, Dispatching
  <2> QED BY <2>1, <2>2, <2>3 DEF GenInv
<1> QED BY <1>1, <1>2, <1>3, <1>4 DEF Next

\* GenInv is an invariant of the whole specification.
LEMMA GenInvariant == Spec => []GenInv
  BY GenInvInit, GenInvStep, PTL DEF Spec

\* Every variable keeps its type, for any number of threads and instances: in
\* particular renew_jit, the reaper and ~JitSet never act on the absent
\* instance, the null that JitSet::current_ holds in a fork child.
THEOREM TypeCorrect == Spec => []TypeOK
  BY GenInvariant, PTL DEF GenInv

\* No thread has a frame in code that release_resources unmapped, or is about to
\* enter it: whatever threads, nesting, renewals, exits and forks there are,
\* quiescent()'s look at the slots, one by one and while their threads go on, is
\* enough.
THEOREM NoUseAfterRelease == Spec => []NoReleasedCode
<1>1. GenInv => NoReleasedCode
  BY DEF GenInv, ReaperOK, Past, NoReleasedCode
<1> QED BY <1>1, GenInvariant, PTL

-----------------------------------------------------------------------------
(* How many instances are live, and what the reaper may touch.  A renewal  *)
(* is refused while MaxUnreleased retirements are in the reaper's hands,   *)
(* and renew_jit's lock lets one more through at a time: LiveInv counts    *)
(* both, and says where each instance of JitSet is in the meantime.        *)

Retires(t) == at[t] \in {"retire", "advance", "queue"}

\* jit_renew_mu_ excludes other renewals.
RenewLocked == \A t \in Threads : at[t] = "recheck" \/ Retires(t) => renewing = t

\* ~JitSet runs after the threads' last dispatch, and frees every instance.
EndingOK == /\ ending # "no" => \A t \in Threads : at[t] \in {"out", "gone"}
            /\ ending = "freed" => owned = {}

\* What is retired belongs to JitSet or was leaked by it; it is queued once.
OwnedOK ==
    /\ ending = "no" /\ current # NoGen => current \in owned
    /\ \A t \in Threads : Retires(t) => ptr[t] \in owned \ (pending \cup ready)
    /\ pending \cup ready \subseteq owned \cup abandoned

\* Where the reaper's lists overlap, and when what it holds is released.
RoundOK ==
    /\ pending \cap ready = {}
    /\ rp \in {"pick", "slot"} => scan \subseteq pending
    /\ rp = "slot" => cand \in scan
    /\ rp \in {"release", "count"} => ready \subseteq releasing
    /\ rp = "idle" => ready = {}
    /\ rp = "count" => ready \subseteq released

\* unreleased() counts what the reaper holds, at most MaxUnreleased with the
\* retirement under way.
Held == Cardinality(pending) + Cardinality(ready)

CountOK ==
    /\ retiredTotal = releasedTotal + Held
    /\ Held <= MaxUnreleased
    /\ \A t \in Threads : Retires(t) => Held < MaxUnreleased

\* An instance with code is the current one, in the reaper's hands, or on its
\* way there.
Live(g) == g = current \/ g \in pending \cup ready \/ \E t \in Threads : Retires(t) /\ ptr[t] = g

CoverOK == \A g \in owned \ released : Live(g)

LiveInv == RenewLocked /\ EndingOK /\ OwnedOK /\ RoundOK /\ CountOK /\ CoverOK

\* The reaper's lists are finite, and their sizes change one at a time.
LEMMA ListsFinite ==
    ASSUME GenInv
    PROVE  /\ IsFiniteSet(pending) /\ IsFiniteSet(ready)
           /\ Cardinality(pending) \in Nat /\ Cardinality(ready) \in Nat /\ Held \in Nat
  <1>1. IsFiniteSet(Gens)
    BY GenerationsAssumption, FS_Interval DEF Gens
  <1>2. pending \subseteq Gens /\ ready \subseteq Gens
    BY DEF GenInv, TypeOK, RegistryOK
  <1>3. IsFiniteSet(pending) /\ IsFiniteSet(ready)
    BY <1>1, <1>2, FS_Subset
  <1>4. Cardinality(pending) \in Nat /\ Cardinality(ready) \in Nat
    BY <1>3, FS_CardinalityType
  <1> QED BY <1>3, <1>4 DEF Held

\* A thread that moves from and to where no renewal is under way.
LEMMA LiveQuiet ==
    ASSUME GenInv, LiveInv, NEW t \in Threads, ~Retires(t),
           at'[t] \notin {"recheck", "retire", "advance", "queue"},
           ending # "no" => at'[t] \in {"out", "gone"},
           \A u \in Threads \ {t} : at'[u] = at[u] /\ ptr'[u] = ptr[u],
           UNCHANGED world
    PROVE  LiveInv'
  <1> USE DEF LiveInv, world, jitVars, registryVars, reaperVars
  <1>1. \A u \in Threads : (Retires(u))' => Retires(u) /\ ptr'[u] = ptr[u]
    BY DEF Retires
  <1>2. \A u \in Threads : Retires(u) => (Retires(u))' /\ ptr'[u] = ptr[u]
    BY DEF Retires
  <1>3. RenewLocked'
    <2>1. \A u \in Threads : at'[u] = "recheck" => at[u] = "recheck"
      OBVIOUS
    <2> QED BY <1>1, <2>1 DEF RenewLocked
  <1>4. EndingOK'
    BY DEF EndingOK
  <1>5. OwnedOK'
    BY <1>1 DEF OwnedOK
  <1>6. RoundOK'
    BY DEF RoundOK
  <1>7. CountOK'
    BY <1>1 DEF CountOK, Held
  <1>8. CoverOK'
    BY <1>2 DEF CoverOK, Live
  <1> QED BY <1>3, <1>4, <1>5, <1>6, <1>7, <1>8

\* A thread's steps that change nothing shared.
LEMMA LiveThread ==
    ASSUME GenInv, LiveInv, NEW t \in Threads,
           \/ Dispatch(t) \/ Boundary(t) \/ Step(t) \/ RenewCheck(t)
           \/ Leave(t) \/ Call(t) \/ HelperLoop(t) \/ HelperReturn(t)
           \/ SyscallReturns(t) \/ Exit(t)
    PROVE  LiveInv'
  <1> SUFFICES /\ at[t] \notin {"recheck", "retire", "advance", "queue"}
               /\ at'[t] \notin {"recheck", "retire", "advance", "queue"}
               /\ ending # "no" => at'[t] \in {"out", "gone"}
               /\ \A u \in Threads \ {t} : at'[u] = at[u] /\ ptr'[u] = ptr[u]
               /\ UNCHANGED world
    BY LiveQuiet DEF Retires
  <1>0. /\ at \in [Threads -> Pcs] /\ ptr \in [Threads -> Gens \cup {NoGen}]
        /\ ending # "no" => at[t] \in {"out", "gone"}
    BY DEF GenInv, TypeOK, ThreadsOK, LiveInv, EndingOK
  <1>1. CASE Dispatch(t)
    BY <1>0, <1>1 DEF Dispatch, Goto
  <1>2. CASE Boundary(t)
    <2>1. CASE RegisterEpoch(t)
      BY <1>0, <2>1 DEF RegisterEpoch, Goto
    <2>2. CASE RegisterSlot(t)
      BY <1>0, <2>2 DEF RegisterSlot, Goto
    <2>3. CASE Unpark(t)
      BY <1>0, <2>3 DEF Unpark, Goto
    <2>4. CASE LoadEpoch(t)
      BY <1>0, <2>4 DEF LoadEpoch, Goto
    <2>5. CASE Ack(t)
      BY <1>0, <2>5 DEF Ack, Goto
    <2>6. CASE CheckRetired(t)
      BY <1>0, <2>6 DEF CheckRetired, Goto
    <2> QED BY <1>2, <2>1, <2>2, <2>3, <2>4, <2>5, <2>6 DEF Boundary
  <1>3. CASE Step(t)
    <2>1. CASE RunSvc(t) \/ DropSvc(t)
      BY <1>0, <2>1 DEF RunSvc, DropSvc, Goto
    <2>2. CASE Run(t)
      BY <1>0, <2>2 DEF Run, Goto
    <2>3. CASE EnterCode(t)
      BY <1>0, <2>3 DEF EnterCode, Goto
    <2>4. CASE Interpret(t)
      BY <1>0, <2>4 DEF Interpret, Goto, Over
    <2>5. CASE WantRenewal(t)
      BY <1>0, <2>5 DEF WantRenewal, Goto
    <2> QED BY <1>3, <2>1, <2>2, <2>3, <2>4, <2>5 DEF Step
  <1>4. CASE RenewCheck(t)
    BY <1>0, <1>4 DEF RenewCheck, Goto
  <1>5. CASE Leave(t)
    BY <1>0, <1>5 DEF Leave, ExitCode, Goto, Over
  <1>6. CASE Call(t)
    BY <1>0, <1>6 DEF Call, Goto
  <1>7. CASE HelperLoop(t)
    BY <1>0, <1>7 DEF HelperLoop, Goto
  <1>8. CASE HelperReturn(t)
    BY <1>0, <1>8 DEF HelperReturn, Goto
  <1>9. CASE SyscallReturns(t)
    BY <1>0, <1>9 DEF SyscallReturns, Goto, Over
  <1>10. CASE Exit(t)
    BY <1>0, <1>10 DEF Exit, Goto
  <1> QED BY <1>1, <1>2, <1>3, <1>4, <1>5, <1>6, <1>7, <1>8, <1>9, <1>10

\* The renewal, from the lock to the reaper's queue.
LEMMA LiveRenew ==
    ASSUME GenInv, LiveInv, NEW t \in Threads,
           \/ RenewLock(t) \/ RenewPublish(t) \/ RenewRefused(t)
           \/ RetireFlag(t) \/ AdvanceEpoch(t) \/ QueueRetired(t)
    PROVE  LiveInv'
  <1>0. /\ at \in [Threads -> Pcs] /\ ptr \in [Threads -> Gens \cup {NoGen}] /\ owned \subseteq Gens
        /\ renewing \in Threads \cup {Nobody} /\ Nobody \notin Threads
        /\ Held \in Nat /\ retiredTotal \in Nat /\ releasedTotal \in Nat /\ MaxUnreleased \in Nat
    BY ListsFinite, GenerationsAssumption DEF GenInv, TypeOK, ThreadsOK, InstancesOK, RegistryOK, Nobody
  <1>e. at[t] \notin {"out", "gone"} => ending = "no"
    BY DEF LiveInv, EndingOK
  <1>l. \A u, v \in Threads : (at[u] = "recheck" \/ Retires(u)) /\ (at[v] = "recheck" \/ Retires(v)) => u = v
    BY DEF LiveInv, RenewLocked
  <1>1. CASE RenewLock(t)
    <2>1. /\ at[t] = "lock" /\ at' = [at EXCEPT ![t] = "recheck"] /\ renewing = Nobody /\ renewing' = t
          /\ UNCHANGED <<ptr, jitVars, epoch, mu, registryVars, reaperVars>>
      BY <1>1 DEF RenewLock, Goto
    <2> USE <2>1 DEF LiveInv, jitVars, registryVars, reaperVars
    <2>2. \A u \in Threads : ~(at[u] = "recheck" \/ Retires(u))
      BY <1>0 DEF RenewLocked
    <2>3. \A u \in Threads : ~(Retires(u))' /\ (at'[u] = "recheck" => u = t)
      BY <1>0, <2>2 DEF Retires
    <2>4. RenewLocked'
      BY <2>3 DEF RenewLocked
    <2>5. EndingOK'
      BY <1>e DEF EndingOK
    <2>6. OwnedOK' /\ RoundOK' /\ CountOK'
      BY <2>3 DEF OwnedOK, RoundOK, CountOK, Held
    <2>7. CoverOK'
      BY <2>2 DEF CoverOK, Live
    <2> QED BY <2>4, <2>5, <2>6, <2>7
  <1>2. CASE RenewPublish(t)
    <2>1. /\ at[t] = "recheck" /\ at' = [at EXCEPT ![t] = "retire"] /\ current = ptr[t]
          /\ unreleased < MaxUnreleased
          /\ current' = made + 1 /\ owned' = owned \cup {made + 1}
          /\ UNCHANGED <<ptr, retired, released, abandoned, ending, epoch, renewing, mu,
                         registryVars, reaperVars>>
      BY <1>2 DEF RenewPublish, Goto
    <2> USE <2>1 DEF LiveInv, registryVars, reaperVars
    <2>2. \A u \in Threads : u # t => ~(at[u] = "recheck" \/ Retires(u))
      BY <1>l
    <2>3. \A u \in Threads : ((Retires(u))' <=> u = t) /\ at'[u] # "recheck"
      BY <1>0, <2>2 DEF Retires
    <2>4. RenewLocked'
      BY <2>3 DEF RenewLocked
    <2>5. EndingOK'
      BY <1>e DEF EndingOK
    <2>6. ptr[t] # NoGen /\ ending = "no"
      BY <1>e DEF GenInv, PlacesOK, Dispatching, RenewPcs
    <2>7. current \in owned /\ current \notin pending \cup ready
      <3>1. \A g \in pending \cup ready : retiredEpoch[g] > 0 /\ g \in Gens
        BY DEF GenInv, ReaperOK, Past, TypeOK, RegistryOK
      <3>2. current \notin pending \cup ready
        BY <3>1 DEF GenInv, EpochsOK
      <3> QED BY <2>6, <3>2 DEF OwnedOK
    <2>8. OwnedOK'
      BY <2>3, <2>7 DEF OwnedOK
    <2>9. RoundOK'
      BY DEF RoundOK
    <2>10. Held < MaxUnreleased
      BY <1>0 DEF CountOK, unreleased
    <2>11. CountOK'
      BY <2>3, <2>10 DEF CountOK, Held
    <2>12. CoverOK'
      <3> SUFFICES ASSUME NEW g \in owned' \ released' PROVE Live(g)'
        BY DEF CoverOK
      <3>1. CASE g = made + 1
        BY <3>1 DEF Live
      <3>2. CASE g # made + 1
        <4>1. g = ptr[t] \/ g \in pending \cup ready
          BY <2>2, <3>2 DEF CoverOK, Live, Retires
        <4> QED BY <2>3, <4>1 DEF Live
      <3> QED BY <3>1, <3>2
    <2> QED BY <2>4, <2>5, <2>8, <2>9, <2>11, <2>12
  <1>3. CASE RenewRefused(t)
    <2>1. /\ at[t] = "recheck" /\ at' = [at EXCEPT ![t] = "found"] /\ renewing' = Nobody
          /\ UNCHANGED <<ptr, jitVars, epoch, mu, registryVars, reaperVars>>
      BY <1>3 DEF RenewRefused, Goto
    <2> USE <2>1 DEF LiveInv, jitVars, registryVars, reaperVars
    <2>2. \A u \in Threads : u # t => ~(at[u] = "recheck" \/ Retires(u))
      BY <1>l
    <2>3. \A u \in Threads : ~(Retires(u))' /\ at'[u] # "recheck" /\ ~Retires(u)
      BY <1>0, <2>2 DEF Retires
    <2>4. RenewLocked'
      BY <2>3 DEF RenewLocked
    <2>5. EndingOK'
      BY <1>e DEF EndingOK
    <2>6. OwnedOK' /\ RoundOK' /\ CountOK'
      BY <2>3 DEF OwnedOK, RoundOK, CountOK, Held
    <2>7. CoverOK'
      BY <2>3 DEF CoverOK, Live
    <2> QED BY <2>4, <2>5, <2>6, <2>7
  <1>4. CASE RetireFlag(t) \/ AdvanceEpoch(t)
    <2>1. /\ Retires(t) /\ \E p \in {"advance", "queue"} : at' = [at EXCEPT ![t] = p]
          /\ UNCHANGED <<ptr, made, current, owned, released, abandoned, ending, renewing, mu,
                         registryVars, reaperVars>>
      BY <1>4 DEF RetireFlag, AdvanceEpoch, Goto, Retires
    <2> USE <2>1 DEF LiveInv, registryVars, reaperVars
    <2>2. \A u \in Threads : /\ (Retires(u))' <=> Retires(u)
                             /\ at'[u] = "recheck" => at[u] = "recheck"
      BY <1>0 DEF Retires
    <2>3. RenewLocked'
      BY <2>2 DEF RenewLocked
    <2>4. EndingOK'
      BY <1>e DEF EndingOK, Retires
    <2>5. OwnedOK' /\ RoundOK' /\ CountOK'
      BY <2>2 DEF OwnedOK, RoundOK, CountOK, Held
    <2>6. CoverOK'
      BY <2>2 DEF CoverOK, Live
    <2> QED BY <2>3, <2>4, <2>5, <2>6
  <1>5. CASE QueueRetired(t)
    <2>1. /\ Retires(t) /\ at' = [at EXCEPT ![t] = "found"] /\ mu = Nobody
          /\ pending' = pending \cup {ptr[t]} /\ retiredTotal' = retiredTotal + 1 /\ renewing' = Nobody
          /\ UNCHANGED <<ptr, jitVars, mu, releasing, releasedTotal, reaperVars>>
      BY <1>5 DEF QueueRetired, Goto, Retires
    <2> USE <2>1 DEF LiveInv, jitVars, reaperVars
    <2>2. \A u \in Threads : u # t => ~(at[u] = "recheck" \/ Retires(u))
      BY <1>l
    <2>3. \A u \in Threads : ~(Retires(u))' /\ at'[u] # "recheck"
      BY <1>0, <2>2 DEF Retires
    <2>4. RenewLocked'
      BY <2>3 DEF RenewLocked
    <2>5. EndingOK'
      BY <1>e DEF EndingOK, Retires
    <2>6. ptr[t] \in owned /\ ptr[t] \notin pending \cup ready
      BY DEF OwnedOK
    <2>7. OwnedOK'
      BY <2>3, <2>6 DEF OwnedOK
    <2>8. RoundOK'
      <3>1. rp \notin {"pick", "slot"}
        BY DEF GenInv, ReaperOK, Reaper, Nobody
      <3> QED BY <2>6, <3>1 DEF RoundOK
    <2>9. Cardinality(pending') = Cardinality(pending) + 1
      BY <2>6, ListsFinite, FS_AddElement
    <2>10. Held' = Held + 1 /\ Held < MaxUnreleased
      BY <2>9, ListsFinite DEF Held, CountOK
    <2>11. CountOK'
      BY <1>0, <2>3, <2>10 DEF CountOK
    <2>12. CoverOK'
      <3> SUFFICES ASSUME NEW g \in owned \ released PROVE Live(g)'
        BY DEF CoverOK
      <3>1. g = current \/ g \in pending \cup ready \/ g = ptr[t]
        BY <2>2 DEF CoverOK, Live
      <3> QED BY <3>1 DEF Live
    <2> QED BY <2>4, <2>5, <2>7, <2>8, <2>11, <2>12
  <1> QED BY <1>1, <1>2, <1>3, <1>4, <1>5

\* The reaper's round: what it takes moves from pending to ready, and stays
\* there until it is released and counted.
LEMMA LiveReaper ==
    ASSUME GenInv, LiveInv, Reap
    PROVE  LiveInv'
  <1>0. /\ Held \in Nat /\ retiredTotal \in Nat /\ releasedTotal \in Nat /\ MaxUnreleased \in Nat
        /\ Cardinality(pending) \in Nat /\ Cardinality(ready) \in Nat
        /\ IsFiniteSet(pending) /\ IsFiniteSet(ready)
    BY ListsFinite, GenerationsAssumption DEF GenInv, TypeOK, RegistryOK
  \* Steps that leave what is pending and ready alone.
  <1>q. ASSUME UNCHANGED <<threadVars, made, current, owned, abandoned, ending, renewing, pending,
                           ready, retiredTotal, releasedTotal>>,
               released \subseteq released', RoundOK'
        PROVE  LiveInv'
    <2> USE <1>q DEF LiveInv, threadVars
    <2>1. \A u \in Threads : (Retires(u))' <=> Retires(u)
      BY DEF Retires
    <2>2. RenewLocked' /\ EndingOK' /\ OwnedOK' /\ CountOK'
      BY <2>1 DEF RenewLocked, EndingOK, OwnedOK, CountOK, Held
    <2>3. CoverOK'
      BY <2>1 DEF CoverOK, Live
    <2> QED BY <2>2, <2>3
  <1> USE DEF LiveInv
  <1>1. CASE StartRound
    <2>1. RoundOK'
      BY <1>1 DEF StartRound, RoundOK, registryVars, jitVars
    <2> QED BY <1>1, <1>q, <2>1 DEF StartRound, registryVars, jitVars
  <1>2. ASSUME NEW g \in Gens, PickCandidate(g) PROVE LiveInv'
    <2>1. RoundOK'
      BY <1>2 DEF PickCandidate, RoundOK, registryVars, jitVars
    <2> QED BY <1>2, <1>q, <2>1 DEF PickCandidate, registryVars, jitVars
  <1>3. ASSUME NEW t \in Threads, PassSlot(t) PROVE LiveInv'
    <2>1. RoundOK'
      BY <1>3 DEF PassSlot, RoundOK, registryVars, jitVars
    <2> QED BY <1>3, <1>q, <2>1 DEF PassSlot, registryVars, jitVars
  <1>4. ASSUME NEW t \in Threads, BlockingSlot(t) PROVE LiveInv'
    <2>1. RoundOK'
      BY <1>4 DEF BlockingSlot, Decide, RoundOK, registryVars, jitVars
    <2> QED BY <1>4, <1>q, <2>1 DEF BlockingSlot, registryVars, jitVars
  <1>5. CASE EndRound
    <2>1. RoundOK'
      <3>1. CASE ready = {}
        BY <1>5, <3>1 DEF EndRound, RoundOK, jitVars
      <3>2. CASE ready # {}
        BY <1>5, <3>2 DEF EndRound, RoundOK, jitVars
      <3> QED BY <3>1, <3>2
    <2> QED BY <1>5, <1>q, <2>1 DEF EndRound, jitVars
  <1>6. ASSUME NEW g \in Gens, Release(g) PROVE LiveInv'
    <2>1. RoundOK'
      BY <1>6 DEF Release, RoundOK, registryVars
    <2> QED BY <1>6, <1>q, <2>1 DEF Release, registryVars
  <1>7. CASE TakeCandidate
    <2>1. /\ rp = "slot" /\ rp' = "pick" /\ scan' = scan \ {cand}
          /\ pending' = pending \ {cand} /\ ready' = ready \cup {cand}
          /\ UNCHANGED <<threadVars, jitVars, renewing, releasing, retiredTotal, releasedTotal>>
      BY <1>7 DEF TakeCandidate, Decide
    <2> USE <2>1 DEF threadVars, jitVars
    <2>2. cand \in pending /\ cand \notin ready /\ pending' \cup ready' = pending \cup ready
      BY DEF RoundOK
    <2>3. \A u \in Threads : (Retires(u))' <=> Retires(u)
      BY DEF Retires
    <2>4. RenewLocked' /\ EndingOK'
      BY <2>3 DEF RenewLocked, EndingOK
    <2>5. OwnedOK'
      BY <2>2, <2>3 DEF OwnedOK
    <2>6. RoundOK'
      BY <2>2 DEF RoundOK
    <2>7. Cardinality(pending') = Cardinality(pending) - 1 /\ Cardinality(ready') = Cardinality(ready) + 1
      BY <1>0, <2>2, FS_AddElement, FS_RemoveElement
    <2>8. Held' = Held
      BY <1>0, <2>7 DEF Held
    <2>9. CountOK'
      BY <2>3, <2>8 DEF CountOK
    <2>10. CoverOK'
      BY <2>2, <2>3 DEF CoverOK, Live
    <2> QED BY <2>4, <2>5, <2>6, <2>9, <2>10
  <1>8. CASE CountReleased
    <2>1. /\ rp = "count" /\ rp' = "idle" /\ releasing' = {} /\ ready' = {}
          /\ releasedTotal' = releasedTotal + Cardinality(ready)
          /\ UNCHANGED <<threadVars, jitVars, renewing, pending, retiredTotal, scan, cand>>
      BY <1>8 DEF CountReleased
    <2> USE <2>1 DEF threadVars, jitVars
    <2>2. ready \subseteq released
      BY DEF RoundOK
    <2>3. \A u \in Threads : (Retires(u))' <=> Retires(u)
      BY DEF Retires
    <2>4. RenewLocked' /\ EndingOK' /\ OwnedOK' /\ RoundOK'
      BY <2>3 DEF RenewLocked, EndingOK, OwnedOK, RoundOK
    <2>5. Cardinality(ready') = 0
      BY FS_EmptySet
    <2>6. /\ Held' = Cardinality(pending) /\ Held' <= Held
          /\ retiredTotal' = releasedTotal' + Held'
      BY <1>0, <2>5 DEF Held, CountOK
    <2>7. CountOK'
      BY <1>0, <2>3, <2>6 DEF CountOK
    <2>8. CoverOK'
      BY <2>2, <2>3 DEF CoverOK, Live
    <2> QED BY <2>4, <2>7, <2>8
  <1> QED BY <1>1, <1>2, <1>3, <1>4, <1>5, <1>6, <1>7, <1>8 DEF Reap

\* exec and fork leak what JitSet owns, and ~JitSet forgets it.
LEMMA LiveProcess ==
    ASSUME GenInv, LiveInv, NEW t \in Threads, NEW u \in Threads, NEW g \in Gens,
           Exec(t) \/ Fork(t) \/ Spawn(t, u) \/ Destroy \/ Forget(g)
    PROVE  LiveInv'
  <1>0. /\ Held \in Nat /\ retiredTotal \in Nat /\ releasedTotal \in Nat /\ MaxUnreleased \in Nat \ {0}
        /\ Cardinality(pending) \in Nat /\ Cardinality(ready) \in Nat
        /\ IsFiniteSet(pending) /\ IsFiniteSet(ready) /\ at \in [Threads -> Pcs]
    BY ListsFinite, GenerationsAssumption DEF GenInv, TypeOK, RegistryOK, ThreadsOK
  <1> USE DEF LiveInv
  <1>1. CASE Exec(t)
    <2>1. /\ ending = "no" /\ InCpp(t) /\ \A v \in Threads \ {t} : at[v] = "gone"
          /\ abandoned' = abandoned \cup owned /\ current' = made + 1 /\ owned' = {made + 1}
          /\ UNCHANGED <<threadVars, released, ending, renewing, registryVars, reaperVars>>
      BY <1>1 DEF Exec
    <2> USE <2>1 DEF threadVars, registryVars, reaperVars
    <2>2. \A v \in Threads : ~(Retires(v))' /\ at'[v] # "recheck" /\ ~Retires(v)
      BY DEF Retires, InCpp
    <2>3. RenewLocked' /\ EndingOK' /\ RoundOK'
      BY <2>2 DEF RenewLocked, EndingOK, RoundOK
    <2>4. OwnedOK'
      BY <2>2 DEF OwnedOK
    <2>5. CountOK'
      BY <2>2 DEF CountOK, Held
    <2>6. CoverOK'
      BY DEF CoverOK, Live
    <2> QED BY <2>3, <2>4, <2>5, <2>6
  <1>2. CASE Fork(t)
    <2>1. /\ ending = "no" /\ InCpp(t) /\ at' = [v \in Threads |-> IF v = t THEN at[t] ELSE "gone"]
          /\ owned' = {} /\ current' = NoGen
          /\ pending' = {} /\ ready' = {} /\ releasing' = {} /\ retiredTotal' = 0 /\ releasedTotal' = 0
          /\ rp' = "idle" /\ UNCHANGED <<ending, renewing>>
      BY <1>2 DEF Fork
    <2> USE <2>1
    <2>2. \A v \in Threads : ~(Retires(v))' /\ at'[v] # "recheck"
      BY DEF Retires, InCpp
    <2>3. RenewLocked' /\ EndingOK' /\ RoundOK'
      BY <2>2 DEF RenewLocked, EndingOK, RoundOK
    <2>4. OwnedOK'
      BY <2>2 DEF OwnedOK
    <2>5. Held' = 0
      BY FS_EmptySet DEF Held
    <2>6. CountOK'
      BY <1>0, <2>2, <2>5 DEF CountOK
    <2>7. CoverOK'
      BY DEF CoverOK
    <2> QED BY <2>3, <2>4, <2>6, <2>7
  <1>3. CASE Spawn(t, u)
    <2>1. /\ ending = "no" /\ at[u] = "gone" /\ at' = [at EXCEPT ![u] = "out"] /\ UNCHANGED <<ptr, world>>
      BY <1>3 DEF Spawn, Goto
    <2>2. ~Retires(u) /\ at'[u] = "out" /\ \A v \in Threads \ {u} : at'[v] = at[v]
      BY <1>0, <2>1 DEF Retires
    <2> QED BY <2>1, <2>2, LiveQuiet
  <1>4. CASE Destroy
    <2>1. /\ ending = "no" /\ \A v \in Threads : at[v] \in {"out", "gone"} /\ ending' = "forget"
          /\ UNCHANGED <<threadVars, made, current, owned, abandoned, released, renewing, registryVars, reaperVars>>
      BY <1>4 DEF Destroy
    <2> USE <2>1 DEF threadVars, registryVars, reaperVars
    <2>2. \A v \in Threads : ~(Retires(v))' /\ at'[v] # "recheck" /\ ~Retires(v)
      BY DEF Retires
    <2>3. RenewLocked' /\ EndingOK' /\ RoundOK' /\ OwnedOK'
      BY <2>2 DEF RenewLocked, EndingOK, RoundOK, OwnedOK
    <2>4. CountOK'
      BY <2>2 DEF CountOK, Held
    <2>5. CoverOK'
      BY <2>2 DEF CoverOK, Live
    <2> QED BY <2>3, <2>4, <2>5
  <1>5. CASE Forget(g)
    <2>1. /\ ending = "forget" /\ mu = Nobody /\ g \in owned \ releasing
          /\ pending' = pending \ {g}
          /\ releasedTotal' = IF g \in pending THEN releasedTotal + 1 ELSE releasedTotal
          /\ owned' = owned \ {g}
          /\ ending' = IF owned = {g} THEN "freed" ELSE ending
          /\ UNCHANGED <<threadVars, made, current, released, abandoned, renewing, releasing, retiredTotal,
                         reaperVars>>
      BY <1>5 DEF Forget
    <2> USE <2>1 DEF threadVars, reaperVars
    <2>2. \A v \in Threads : ~(Retires(v))' /\ at'[v] # "recheck" /\ ~Retires(v)
      BY DEF EndingOK, Retires
    <2>3. rp \notin {"pick", "slot"}
      BY DEF GenInv, ReaperOK, Reaper, Nobody
    <2>4. g \notin ready
      <3>1. rp \in {"idle", "release", "count"}
        BY <2>3 DEF GenInv, TypeOK, RegistryOK
      <3> QED BY <3>1 DEF RoundOK
    <2>5. RenewLocked'
      BY <2>2 DEF RenewLocked
    <2>6. EndingOK'
      BY DEF EndingOK
    <2>7. OwnedOK'
      BY <2>2, <2>4 DEF OwnedOK
    <2>8. RoundOK'
      BY <2>3 DEF RoundOK
    <2>9. Cardinality(pending') = IF g \in pending THEN Cardinality(pending) - 1 ELSE Cardinality(pending)
      BY <1>0, FS_RemoveElement
    <2>10. retiredTotal' = releasedTotal' + Held' /\ Held' <= Held
      <3>1. CASE g \in pending
        BY <1>0, <2>9, <3>1 DEF Held, CountOK
      <3>2. CASE g \notin pending
        BY <1>0, <2>9, <3>2 DEF Held, CountOK
      <3> QED BY <3>1, <3>2
    <2>11. CountOK'
      <3>1. Held' \in Int
        BY <1>0, <2>9 DEF Held
      <3>2. Held' <= MaxUnreleased
        BY <1>0, <2>10, <3>1 DEF CountOK
      <3> QED BY <2>2, <2>10, <3>2 DEF CountOK
    <2>12. CoverOK'
      BY <2>2 DEF CoverOK, Live
    <2> QED BY <2>5, <2>6, <2>7, <2>8, <2>11, <2>12
  <1> QED BY <1>1, <1>2, <1>3, <1>4, <1>5

LEMMA LiveInit ==
    ASSUME Init PROVE LiveInv
  <1> USE DEF Init
  <1>1. \A t \in Threads : ~Retires(t) /\ at[t] # "recheck"
    BY DEF Retires
  <1>2. Held = 0
    BY FS_EmptySet DEF Held
  <1>3. CountOK
    BY <1>1, <1>2, GenerationsAssumption DEF CountOK
  <1>4. RenewLocked /\ EndingOK /\ OwnedOK /\ RoundOK /\ CoverOK
    BY <1>1 DEF RenewLocked, EndingOK, OwnedOK, RoundOK, CoverOK, Live
  <1> QED BY <1>3, <1>4 DEF LiveInv

LEMMA LiveStep ==
    ASSUME GenInv, LiveInv, [Next]_vars
    PROVE  LiveInv'
  <1>1. ASSUME NEW t \in Threads,
               \/ Dispatch(t) \/ Boundary(t) \/ Step(t) \/ Renew(t)
               \/ Leave(t) \/ Call(t) \/ HelperLoop(t) \/ HelperReturn(t)
               \/ SyscallReturns(t) \/ Process(t)
        PROVE  LiveInv'
    <2>1. 1 \in Gens
      BY GenerationsAssumption DEF Gens
    <2> QED BY <1>1, <2>1, LiveThread, LiveRenew, LiveProcess DEF Renew, Process
  <1>2. CASE Reap
    BY <1>2, LiveReaper
  <1>3. ASSUME NEW g \in Gens, Destroy \/ Forget(g) PROVE LiveInv'
    BY <1>3, GenerationsAssumption, LiveProcess
  <1>4. CASE UNCHANGED vars
    BY <1>4 DEF vars, world, threadVars, slotVars, jitVars, registryVars, reaperVars, LiveInv, RenewLocked,
       EndingOK, OwnedOK, RoundOK, CountOK, CoverOK, Live, Held, Retires
  <1>5. 1 \in Gens
    BY GenerationsAssumption DEF Gens
  <1> QED BY <1>1, <1>2, <1>3, <1>4, <1>5 DEF Next

LEMMA LiveInvariant == Spec => []LiveInv
  <1>1. GenInv /\ LiveInv /\ [Next]_vars => LiveInv'
    BY LiveStep
  <1>2. Init => LiveInv
    BY LiveInit
  <1> QED BY <1>1, <1>2, GenInvariant, PTL DEF Spec

\* kMaxUnreleased bounds the memory of a process that keeps filling its code
\* cache: the instances that still have code are the current one and as many as
\* renew_jit lets the reaper hold, whoever races for the renewal, and across
\* exec, fork and ~JitSet.
THEOREM CodeBounded == Spec => []LiveBound
  <1>1. GenInv /\ LiveInv => LiveBound
    <2> SUFFICES ASSUME GenInv, LiveInv PROVE LiveBound
      OBVIOUS
    <2> USE DEF LiveInv
    <2>0. /\ Held \in Nat /\ MaxUnreleased \in Nat
          /\ Cardinality(pending) \in Nat /\ Cardinality(ready) \in Nat
          /\ IsFiniteSet(pending) /\ IsFiniteSet(ready)
      BY ListsFinite, GenerationsAssumption
    <2> DEFINE reaped == pending \cup ready
    <2>1. IsFiniteSet(reaped) /\ Cardinality(reaped) \in Nat /\ Cardinality(reaped) <= Held
      <3>1. /\ IsFiniteSet(reaped)
            /\ Cardinality(reaped) = Cardinality(pending) + Cardinality(ready) - Cardinality(pending \cap ready)
        BY <2>0, FS_Union
      <3>2. pending \cap ready = {}
        BY DEF RoundOK
      <3>3. Cardinality(pending \cap ready) = 0
        BY <3>2, FS_EmptySet
      <3>4. Cardinality(reaped) = Held
        BY <2>0, <3>1, <3>3 DEF Held
      <3> QED BY <2>0, <3>1, <3>4
    <2> HIDE DEF reaped
    \* with the retirement under way, if there is one
    <2>2. \E S : /\ IsFiniteSet(S) /\ Cardinality(S) \in Nat /\ Cardinality(S) <= MaxUnreleased
                 /\ reaped \subseteq S
                 /\ \A t \in Threads : Retires(t) => ptr[t] \in S
      <3>1. CASE \A t \in Threads : ~Retires(t)
        BY <2>0, <2>1, <3>1 DEF CountOK
      <3>2. CASE \E t \in Threads : Retires(t)
        <4> PICK t \in Threads : Retires(t)
          BY <3>2
        <4>1. \A u \in Threads : Retires(u) => u = t
          BY <3>2 DEF RenewLocked
        <4>2. IsFiniteSet(reaped \cup {ptr[t]}) /\ Cardinality(reaped \cup {ptr[t]}) <= Cardinality(reaped) + 1
          <5>1. /\ IsFiniteSet(reaped \cup {ptr[t]})
                /\ \/ Cardinality(reaped \cup {ptr[t]}) = Cardinality(reaped)
                   \/ Cardinality(reaped \cup {ptr[t]}) = Cardinality(reaped) + 1
            BY <2>1, FS_AddElement, Zenon
          <5> HIDE DEF reaped
          <5> QED BY <2>1, <5>1
        <4>3. Cardinality(reaped \cup {ptr[t]}) \in Nat
          BY <4>2, FS_CardinalityType
        <4>4. Cardinality(reaped \cup {ptr[t]}) <= MaxUnreleased
          BY <2>0, <2>1, <3>2, <4>2, <4>3 DEF CountOK
        <4> QED BY <4>1, <4>2, <4>3, <4>4
      <3> QED BY <3>1, <3>2
    <2>3. PICK S : /\ IsFiniteSet(S) /\ Cardinality(S) \in Nat /\ Cardinality(S) <= MaxUnreleased
                   /\ reaped \subseteq S
                   /\ \A t \in Threads : Retires(t) => ptr[t] \in S
      BY <2>2
    <2>4. owned \ released \subseteq S \cup {current}
      BY <2>3 DEF CoverOK, Live, reaped
    <2>5. IsFiniteSet(S \cup {current}) /\ Cardinality(S \cup {current}) <= Cardinality(S) + 1
      BY <2>3, FS_AddElement
    <2>6. /\ Cardinality(owned \ released) \in Nat /\ Cardinality(S \cup {current}) \in Nat
          /\ Cardinality(owned \ released) <= Cardinality(S \cup {current})
      BY <2>4, <2>5, FS_Subset, FS_CardinalityType
    <2>7. Cardinality(owned \ released) <= MaxUnreleased + 1
      BY <2>0, <2>3, <2>5, <2>6
    <2> QED BY <2>7 DEF LiveBound
  <1> QED BY <1>1, GenInvariant, LiveInvariant, PTL

\* jit_generations::forget: once ~JitSet has freed the instances, neither the
\* reaper's queue nor the batch it is releasing holds one of them, and never
\* will again.
THEOREM ReaperLetsGo == Spec => []ReaperSparesFreed
  <1>1. LiveInv => ReaperSparesFreed
    BY DEF LiveInv, EndingOK, OwnedOK, ReaperSparesFreed
  <1> QED BY <1>1, LiveInvariant, PTL
=============================================================================
