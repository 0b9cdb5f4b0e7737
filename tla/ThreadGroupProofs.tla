------------------------- MODULE ThreadGroupProofs -------------------------
(***************************************************************************)
(* Every host thread has one owner, alive_threads_ counts the workers that *)
(* still touch guest memory, and run() returns with nothing left to join:  *)
(* for any number of workers, and whatever clone, exit, reaping, exec and  *)
(* group exit overlap.  The last section is about fork_guest, which takes  *)
(* the locks of the whole group (ForkLocks).                               *)
(***************************************************************************)
EXTENDS ThreadGroup, ForkLocks, FiniteSetTheorems, TLAPS

-----------------------------------------------------------------------------
(* The inductive invariant. *)

\* Which places are the main thread's and which a worker's, and where a
\* thread has workers of its own to publish or to join.
Shape ==
    /\ at[Main] \notin {"none", "cleanup", "finish", "return"}
    /\ \A w \in Workers : /\ at[w] \notin {"joinall", "jpoll", "ended"} /\ after[w] = "exec"
                          /\ host[w] = "live" <=> at[w] # "none"
    /\ \A t \in Threads : /\ child[t] # None <=> at[t] = "publish"
                          /\ held[t] # {} => at[t] \in {"reapjoin", "kkick", "kjoin", "jpoll"}

\* OneOwner, owner by owner.
Owns(t, w) == w \in held[t] \/ child[t] = w

Lists ==
    \A w \in Workers :
        /\ host[w] \in {"new", "joined"} => w \notin threads /\ \A t \in Threads : ~Owns(t, w)
        /\ host[w] \in {"live", "over"} => w \in threads \/ \E t \in Threads : Owns(t, w)
        /\ w \in threads => \A t \in Threads : ~Owns(t, w)
        /\ \A t, u \in Threads : Owns(t, w) /\ Owns(u, w) => t = u

\* alive_threads_ is the number of workers before their last cleanup.
Counted == {w \in Workers : at[w] \notin {"none", "finish", "return"}}

Counting == alive = Cardinality(Counted)

\* A worker that has set its flag makes no more calls.
Spent == \A w \in finished : at[w] \in {"none", "return"} /\ host[w] # "new"

\* A worker that joins others is reaping, and reaps only what has finished.
Reaping == \A w \in Workers : /\ at[w] \notin {"kill", "kkick", "kjoin", "exec"}
                              /\ held[w] \subseteq finished

\* No set of workers is being spawned by itself: who spawns was started before.
Rooted == \A S \in SUBSET Workers : S # {} => \E w \in S : \A t \in S : child[t] # w

Inv == TypeOK /\ Shape /\ Lists /\ Counting /\ Spent

-----------------------------------------------------------------------------
LEMMA ThreadFacts ==
    /\ Main \in Threads /\ Workers \subseteq Threads /\ Main \notin Workers /\ None \notin Workers
    /\ \A t \in Threads : t # Main => t \in Workers
  BY ThreadAssumption DEF Threads

LEMMA CountedFinite == IsFiniteSet(Counted) /\ Cardinality(Counted) \in Nat
  <1>1. Counted \subseteq Workers /\ IsFiniteSet(Workers)
    BY ThreadAssumption DEF Counted
  <1>2. IsFiniteSet(Counted)
    BY <1>1, FS_Subset
  <1> QED BY <1>2, FS_CardinalityType

LEMMA InitInv == Init => Inv /\ Reaping /\ Rooted /\ NoOrphan
  <1> SUFFICES ASSUME Init PROVE Inv /\ Reaping /\ Rooted /\ NoOrphan OBVIOUS
  <1>1. TypeOK
    BY ThreadFacts DEF Init, TypeOK, Places
  <1>2. Shape /\ Lists /\ Spent /\ Reaping /\ Rooted /\ NoOrphan
    BY ThreadFacts DEF Init, Shape, Lists, Owns, Spent, Reaping, Rooted, NoOrphan
  <1>3. Counting
    <2>1. Counted = {} BY ThreadFacts DEF Init, Counted
    <2> QED BY <2>1, FS_EmptySet DEF Init, Counting
  <1> QED BY <1>1, <1>2, <1>3 DEF Inv

-----------------------------------------------------------------------------
(* What the joins pick. *)
LEMMA CurrentHeld == ASSUME TypeOK, NEW t \in Threads, held[t] # {}
                     PROVE  Current(t) \in held[t] /\ Current(t) \in Workers
  <1>1. \E w \in held[t] : TRUE OBVIOUS
  <1>2. Current(t) \in held[t] BY <1>1 DEF Current
  <1> QED BY <1>2 DEF TypeOK

-----------------------------------------------------------------------------
(* The shape of the threads' states. *)

LEMMA ShapeStep == ASSUME Inv, Next PROVE TypeOK' /\ Shape'
  <1> USE ThreadFacts DEF Inv, TypeOK, Shape
  <1>1. ASSUME NEW t \in Threads, Guest(t) PROVE TypeOK' /\ Shape'
    <2>1. CASE Wait(t) \/ Clone(t) \/ FatalSignal(t)
      BY <2>1 DEF Wait, Clone, FatalSignal, Begins, Goto, Places
    <2>2. CASE Exit(t)
      BY <2>2 DEF Exit, Begins, Goto, Places
    <2>3. CASE Execve(t)
      BY <2>3 DEF Execve, Kill, Places
    <2>4. CASE ExitGroup(t)
      BY <2>4 DEF ExitGroup, Kill, Places
    <2> QED BY <1>1, <2>1, <2>2, <2>3, <2>4 DEF Guest
  <1>2. ASSUME NEW t \in Threads, EnterWait(t) \/ ReapDone(t) \/ StartFails(t) \/ Leave(t) \/ Finish(t)
        PROVE  TypeOK' /\ Shape'
    BY <1>2 DEF EnterWait, ReapDone, StartFails, Leave, Finish, Goto, Places
  <1>3. ASSUME NEW t \in Threads, Reap(t) PROVE TypeOK' /\ Shape'
    BY <1>3 DEF Reap, Goto, Places
  <1>4. ASSUME NEW t \in Threads, Join(t) PROVE TypeOK' /\ Shape'
    <2>1. Current(t) \in held[t] /\ Current(t) \in Workers
      BY <1>4, CurrentHeld DEF Join, Joining
    <2> QED BY <1>4, <2>1 DEF Join, Joining
  <1>5. ASSUME NEW t \in Threads, JoinRefused(t) PROVE TypeOK' /\ Shape'
    BY <1>5 DEF JoinRefused
  <1>6. ASSUME NEW t \in Threads, NEW w \in Workers, Start(t, w) PROVE TypeOK' /\ Shape'
    BY <1>6 DEF Start, Places
  <1>7. ASSUME NEW t \in Threads, Publish(t) PROVE TypeOK' /\ Shape'
    BY <1>7 DEF Publish, Goto, Places
  <1>8. ASSUME NEW t \in Threads, Cleanup(t) PROVE TypeOK' /\ Shape'
    <2>1. t \in Counted
      BY <1>8 DEF Cleanup, Goto, Counted
    <2>2. Cardinality(Counted) # 0
      BY <2>1, CountedFinite, FS_EmptySet
    <2>3. alive - 1 \in Nat
      BY <2>2, CountedFinite DEF Counting
    <2> QED BY <1>8, <2>3 DEF Cleanup, Goto, Places
  <1>9. ASSUME NEW t \in Threads, Return(t) PROVE TypeOK' /\ Shape'
    BY <1>9 DEF Return, Goto, Places
  <1>10. ASSUME NEW t \in Threads, KillSnapshot(t) PROVE TypeOK' /\ Shape'
    BY <1>10 DEF KillSnapshot, Stop, Places
  <1>11. ASSUME NEW t \in Threads, KillKick(t) PROVE TypeOK' /\ Shape'
    BY <1>11 DEF KillKick, Kicked, Places
  <1>12. ASSUME NEW t \in Threads, KillDone(t) \/ ExecImage(t) PROVE TypeOK' /\ Shape'
    <2>1. CASE KillDone(t)
      BY <2>1 DEF KillDone, Goto, Places
    <2>2. CASE ExecImage(t)
      BY <2>2 DEF ExecImage, Goto, Places
    <2> QED BY <1>12, <2>1, <2>2
  <1>13. ASSUME NEW t \in Threads, GroupExit(t) \/ StopMain(t) PROVE TypeOK' /\ Shape'
    <2>1. CASE GroupExit(t)
      BY <2>1 DEF GroupExit, Goto, Places
    <2>2. CASE StopMain(t)
      BY <2>2 DEF StopMain, Stop, Goto, Places
    <2> QED BY <1>13, <2>1, <2>2
  <1>14. ASSUME NEW t \in Threads, StopThreads(t) \/ KickMain(t) PROVE TypeOK' /\ Shape'
    <2>1. CASE StopThreads(t)
      BY <2>1 DEF StopThreads, Stop, Kicked, Places
    <2>2. CASE KickMain(t)
      BY <2>2 DEF KickMain, Kicked, Places
    <2> QED BY <1>14, <2>1, <2>2
  <1>15. ASSUME MainLeaves \/ JoinRound PROVE TypeOK' /\ Shape'
    BY <1>15 DEF MainLeaves, JoinRound, Kill, Goto, Places
  <1>16. ASSUME JoinSwap PROVE TypeOK' /\ Shape'
    BY <1>16 DEF JoinSwap, Kicked, Places
  <1>17. ASSUME JoinStop PROVE TypeOK' /\ Shape'
    BY <1>17 DEF JoinStop, Stop
  <1>18. ASSUME JoinKick PROVE TypeOK' /\ Shape'
    <2>1. Current(Main) \in Workers
      BY <1>18, CurrentHeld DEF JoinKick
    <2> QED BY <1>18, <2>1 DEF JoinKick, Places
  <1> QED
    BY <1>1, <1>2, <1>3, <1>4, <1>5, <1>6, <1>7, <1>8, <1>9, <1>10, <1>11, <1>12, <1>13, <1>14,
       <1>15, <1>16, <1>17, <1>18 DEF Next, Step, MainStep

-----------------------------------------------------------------------------
(* The lists. *)

LEMMA ListsStep == ASSUME Inv, Next PROVE Lists'
  <1> USE ThreadFacts DEF Inv
  <1>0. ASSUME UNCHANGED <<threads, held, child, host>> PROVE Lists'
    BY <1>0 DEF Lists, Owns
  <1>1. ASSUME NEW t \in Threads, Guest(t) PROVE Lists'
    BY <1>0, <1>1 DEF Guest, Wait, Clone, Exit, Execve, ExitGroup, FatalSignal
  <1>2. ASSUME NEW t \in Threads,
               EnterWait(t) \/ ReapDone(t) \/ StartFails(t) \/ Leave(t) \/ Finish(t) \/ Cleanup(t)
        PROVE  Lists'
    BY <1>0, <1>2 DEF EnterWait, ReapDone, StartFails, Leave, Finish, Cleanup
  <1>3. ASSUME NEW t \in Threads, Reap(t) PROVE Lists'
    BY <1>3 DEF Reap, Goto, Lists, Owns, Shape, TypeOK
  <1>4. ASSUME NEW t \in Threads, Join(t) PROVE Lists'
    <2>1. Current(t) \in held[t] /\ Current(t) \in Workers
      BY <1>4, CurrentHeld DEF Join, Joining
    <2>2. child[t] = None
      BY <1>4 DEF Join, Joining, Shape
    <2> QED BY <1>4, <2>1, <2>2 DEF Join, Lists, Owns, TypeOK
  <1>5. ASSUME NEW t \in Threads, JoinRefused(t) PROVE Lists'
    BY <1>0, <1>5 DEF JoinRefused
  <1>6. ASSUME NEW t \in Threads, NEW w \in Workers, Start(t, w) PROVE Lists'
    BY <1>6 DEF Start, Lists, Owns, Shape, TypeOK
  <1>7. ASSUME NEW t \in Threads, Publish(t) PROVE Lists'
    BY <1>7 DEF Publish, Goto, Lists, Owns, Shape, TypeOK
  <1>8. ASSUME NEW t \in Threads, Return(t) PROVE Lists'
    BY <1>8 DEF Return, Goto, Lists, Owns, Shape, TypeOK
  <1>9. ASSUME NEW t \in Threads, KillSnapshot(t) PROVE Lists'
    BY <1>9 DEF KillSnapshot, Lists, Owns, Shape, TypeOK
  <1>10. ASSUME NEW t \in Threads,
                \/ KillKick(t) \/ KillDone(t) \/ ExecImage(t)
                \/ GroupExit(t) \/ StopMain(t) \/ StopThreads(t) \/ KickMain(t)
         PROVE  Lists'
    BY <1>0, <1>10 DEF KillKick, KillDone, ExecImage, GroupExit, StopMain, StopThreads, KickMain
  <1>11. ASSUME MainLeaves \/ JoinStop \/ JoinKick \/ JoinRound PROVE Lists'
    BY <1>0, <1>11 DEF MainLeaves, JoinStop, JoinKick, JoinRound
  <1>12. ASSUME JoinSwap PROVE Lists'
    BY <1>12 DEF JoinSwap, Lists, Owns, Shape, TypeOK
  <1> QED
    BY <1>1, <1>2, <1>3, <1>4, <1>5, <1>6, <1>7, <1>8, <1>9, <1>10, <1>11, <1>12 DEF Next, Step, MainStep

-----------------------------------------------------------------------------
(* The count, and the flags. *)

LEMMA CountStep == ASSUME Inv, Next PROVE Counting'
  <1> USE ThreadFacts DEF Inv
  <1>0. ASSUME alive' = alive, Counted' = Counted PROVE Counting'
    BY <1>0 DEF Counting
  <1>1. ASSUME NEW t \in Threads, Guest(t) PROVE Counting'
    <2>1. alive' = alive /\ Counted' = Counted
      BY <1>1 DEF Guest, Wait, Clone, Exit, Execve, ExitGroup, FatalSignal, Begins, Goto, Kill, Counted, TypeOK
    <2> QED BY <1>0, <2>1
  <1>2. ASSUME NEW t \in Threads,
               EnterWait(t) \/ Reap(t) \/ ReapDone(t) \/ StartFails(t) \/ Publish(t)
        PROVE  Counting'
    <2>1. alive' = alive /\ Counted' = Counted
      BY <1>2 DEF EnterWait, Reap, ReapDone, StartFails, Publish, Goto, Counted, TypeOK
    <2> QED BY <1>0, <2>1
  <1>3. ASSUME NEW t \in Threads, Join(t) \/ JoinRefused(t) PROVE Counting'
    <2>1. alive' = alive /\ Counted' = Counted
      BY <1>3 DEF Join, JoinRefused, Counted
    <2> QED BY <1>0, <2>1
  <1>4. ASSUME NEW t \in Threads, NEW w \in Workers, Start(t, w) PROVE Counting'
    <2>1. w \notin Counted /\ Counted' = Counted \cup {w}
      BY <1>4 DEF Start, Counted, Shape, TypeOK
    <2>2. Cardinality(Counted') = Cardinality(Counted) + 1
      BY <2>1, CountedFinite, FS_AddElement
    <2> QED BY <1>4, <2>2 DEF Start, Counting
  <1>5. ASSUME NEW t \in Threads, Leave(t) \/ Finish(t) \/ Return(t) PROVE Counting'
    <2>1. alive' = alive /\ Counted' = Counted
      BY <1>5 DEF Leave, Finish, Return, Goto, Counted, TypeOK
    <2> QED BY <1>0, <2>1
  <1>6. ASSUME NEW t \in Threads, Cleanup(t) PROVE Counting'
    <2>1. t \in Counted /\ Counted' = Counted \ {t}
      BY <1>6 DEF Cleanup, Goto, Counted, Shape, TypeOK
    <2>2. Cardinality(Counted') = Cardinality(Counted) - 1
      BY <2>1, CountedFinite, FS_RemoveElement
    <2> QED BY <1>6, <2>2 DEF Cleanup, Counting
  <1>7. ASSUME NEW t \in Threads, KillSnapshot(t) \/ KillDone(t) \/ ExecImage(t) PROVE Counting'
    <2>1. alive' = alive /\ Counted' = Counted
      BY <1>7 DEF KillSnapshot, KillDone, ExecImage, Goto, Counted, Shape, TypeOK
    <2> QED BY <1>0, <2>1
  <1>8. ASSUME NEW t \in Threads, KillKick(t) \/ StopThreads(t) \/ KickMain(t) PROVE Counting'
    <2>1. alive' = alive /\ Counted' = Counted
      BY <1>8 DEF KillKick, StopThreads, KickMain, Kicked, Counted, TypeOK
    <2> QED BY <1>0, <2>1
  <1>9. ASSUME NEW t \in Threads, GroupExit(t) \/ StopMain(t) PROVE Counting'
    <2>1. alive' = alive /\ Counted' = Counted
      BY <1>9 DEF GroupExit, StopMain, Goto, Counted, TypeOK
    <2> QED BY <1>0, <2>1
  <1>10. ASSUME MainLeaves \/ JoinSwap \/ JoinRound \/ JoinStop PROVE Counting'
    <2>1. alive' = alive /\ Counted' = Counted
      BY <1>10 DEF MainLeaves, JoinSwap, JoinRound, JoinStop, Kill, Kicked, Goto, Counted, TypeOK
    <2> QED BY <1>0, <2>1
  <1>11. ASSUME JoinKick PROVE Counting'
    <2>1. Current(Main) \in Workers
      BY <1>11, CurrentHeld DEF JoinKick
    <2>2. alive' = alive /\ Counted' = Counted
      BY <1>11, <2>1 DEF JoinKick, Counted, TypeOK
    <2> QED BY <1>0, <2>2
  <1> QED
    BY <1>1, <1>2, <1>3, <1>4, <1>5, <1>6, <1>7, <1>8, <1>9, <1>10, <1>11 DEF Next, Step, MainStep

LEMMA SpentStep == ASSUME Inv, Next PROVE Spent'
  <1> USE ThreadFacts DEF Inv, TypeOK, Spent
  <1>1. ASSUME NEW t \in Threads, Guest(t) PROVE Spent'
    BY <1>1 DEF Guest, Wait, Clone, Exit, Execve, ExitGroup, FatalSignal, Begins, Goto, Kill
  <1>2. ASSUME NEW t \in Threads,
               EnterWait(t) \/ Reap(t) \/ ReapDone(t) \/ StartFails(t) \/ Publish(t) \/ JoinRefused(t)
        PROVE  Spent'
    BY <1>2 DEF EnterWait, Reap, ReapDone, StartFails, Publish, JoinRefused, Goto
  <1>3. ASSUME NEW t \in Threads, Join(t) PROVE Spent'
    BY <1>3 DEF Join
  <1>4. ASSUME NEW t \in Threads, NEW w \in Workers, Start(t, w) PROVE Spent'
    BY <1>4 DEF Start
  <1>5. ASSUME NEW t \in Threads, Leave(t) \/ Cleanup(t) \/ Return(t) PROVE Spent'
    BY <1>5 DEF Leave, Cleanup, Return, Goto
  <1>6. ASSUME NEW t \in Threads, Finish(t) PROVE Spent'
    BY <1>6 DEF Finish, Goto, Shape
  <1>7. ASSUME NEW t \in Threads, KillSnapshot(t) \/ KillDone(t) \/ ExecImage(t) PROVE Spent'
    BY <1>7 DEF KillSnapshot, KillDone, ExecImage, Goto
  <1>8. ASSUME NEW t \in Threads, KillKick(t) \/ StopThreads(t) \/ KickMain(t) PROVE Spent'
    BY <1>8 DEF KillKick, StopThreads, KickMain, Kicked
  <1>9. ASSUME NEW t \in Threads, GroupExit(t) \/ StopMain(t) PROVE Spent'
    BY <1>9 DEF GroupExit, StopMain, Goto
  <1>10. ASSUME MainLeaves \/ JoinSwap \/ JoinRound \/ JoinStop \/ JoinKick PROVE Spent'
    BY <1>10 DEF MainLeaves, JoinSwap, JoinRound, JoinStop, JoinKick, Kill, Kicked, Goto
  <1> QED
    BY <1>1, <1>2, <1>3, <1>4, <1>5, <1>6, <1>7, <1>8, <1>9, <1>10 DEF Next, Step, MainStep

LEMMA InvStep == Inv /\ [Next]_vars => Inv'
  <1> SUFFICES ASSUME Inv, [Next]_vars PROVE Inv' OBVIOUS
  <1>1. CASE Next
    BY <1>1, ShapeStep, ListsStep, CountStep, SpentStep DEF Inv
  <1>2. CASE UNCHANGED vars
    BY <1>2 DEF vars, Inv, TypeOK, Shape, Lists, Owns, Counting, Counted, Spent
  <1> QED BY <1>1, <1>2

-----------------------------------------------------------------------------
(* Results. *)

LEMMA Invariance == Spec => []Inv
  BY InitInv, InvStep, PTL DEF Spec

\* The variables of the thread group keep their types; alive_threads_ does
\* not go below 0.
THEOREM GroupTypes == Spec => []TypeOK
  <1>1. Inv => TypeOK BY DEF Inv
  <1> QED BY <1>1, Invariance, PTL

\* Every std::thread that runs or is not joined is in exactly one of
\* spawn_thread's local, threads_ and the lists of kill_other_threads,
\* reap_finished_threads and join_threads: none is joined twice or dropped.
THEOREM HandlesOwned == Spec => []OneOwner
  <1>1. ASSUME Inv PROVE OneOwner
    <2> SUFFICES ASSUME NEW w \in Workers
                 PROVE /\ host[w] \in {"new", "joined"} => w \notin threads /\ Owners(w) = {}
                       /\ host[w] \in {"live", "over"} =>
                            \/ w \in threads /\ Owners(w) = {}
                            \/ w \notin threads /\ \E t \in Threads : Owners(w) = {t}
      BY DEF OneOwner
    <2>1. \A t \in Threads : t \in Owners(w) <=> Owns(t, w)
      BY DEF Owners, Owns
    <2>2. Owners(w) \subseteq Threads BY DEF Owners
    <2>3. ASSUME \A t \in Threads : ~Owns(t, w) PROVE Owners(w) = {}
      BY <2>1, <2>2, <2>3
    <2>4. ASSUME NEW t \in Threads, Owns(t, w) PROVE Owners(w) = {t}
      BY <1>1, <2>1, <2>2, <2>4 DEF Inv, Lists
    <2> QED BY <1>1, <2>3, <2>4 DEF Inv, Lists
  <1> QED BY <1>1, Invariance, PTL

\* When alive_threads_ is 0, which has_only_calling_thread and the futex
\* calls rely on, no worker runs guest code or writes guest memory on its way
\* out, published or not.
THEOREM CountSound == Spec => []AliveCounts
  <1>1. ASSUME Inv PROVE AliveCounts
    <2>1. alive = 0 => Counted = {}
      BY <1>1, CountedFinite, FS_EmptySet DEF Inv, Counting
    <2> QED BY <2>1 DEF AliveCounts, Counted
  <1> QED BY <1>1, Invariance, PTL

-----------------------------------------------------------------------------
(* The end of run(), when only the main thread calls execve. *)

MainExecs == Execers \subseteq {Main}

JoinInv == Inv /\ Reaping /\ Rooted /\ NoOrphan

LEMMA ReapingStep == ASSUME MainExecs, Inv, Reaping, Next PROVE Reaping'
  <1> USE ThreadFacts DEF Inv, TypeOK, Reaping
  <1>1. ASSUME NEW t \in Threads, Guest(t) PROVE Reaping'
    <2>1. CASE Wait(t) \/ Clone(t) \/ FatalSignal(t) \/ Exit(t)
      BY <2>1 DEF Wait, Clone, FatalSignal, Exit, Begins, Goto
    <2>2. CASE Execve(t)
      BY <2>2 DEF Execve, Kill, MainExecs
    <2>3. CASE ExitGroup(t)
      BY <2>3 DEF ExitGroup, Kill
    <2> QED BY <1>1, <2>1, <2>2, <2>3 DEF Guest
  <1>2. ASSUME NEW t \in Threads,
               EnterWait(t) \/ Reap(t) \/ ReapDone(t) \/ StartFails(t) \/ Publish(t) \/ JoinRefused(t)
        PROVE  Reaping'
    BY <1>2 DEF EnterWait, Reap, ReapDone, StartFails, Publish, JoinRefused, Goto
  <1>3. ASSUME NEW t \in Threads, Join(t) PROVE Reaping'
    BY <1>3 DEF Join
  <1>4. ASSUME NEW t \in Threads, NEW w \in Workers, Start(t, w) PROVE Reaping'
    BY <1>4 DEF Start
  <1>5. ASSUME NEW t \in Threads, Leave(t) \/ Cleanup(t) \/ Finish(t) \/ Return(t) PROVE Reaping'
    BY <1>5 DEF Leave, Cleanup, Finish, Return, Goto
  <1>6. ASSUME NEW t \in Threads, KillSnapshot(t) \/ KillDone(t) \/ ExecImage(t) PROVE Reaping'
    BY <1>6 DEF KillSnapshot, KillDone, ExecImage, Goto
  <1>7. ASSUME NEW t \in Threads, KillKick(t) \/ StopThreads(t) \/ KickMain(t) PROVE Reaping'
    BY <1>7 DEF KillKick, StopThreads, KickMain, Kicked
  <1>8. ASSUME NEW t \in Threads, GroupExit(t) \/ StopMain(t) PROVE Reaping'
    BY <1>8 DEF GroupExit, StopMain, Goto
  <1>9. ASSUME MainLeaves \/ JoinSwap \/ JoinRound \/ JoinStop \/ JoinKick PROVE Reaping'
    BY <1>9 DEF MainLeaves, JoinSwap, JoinRound, JoinStop, JoinKick, Kill, Kicked, Goto
  <1> QED
    BY <1>1, <1>2, <1>3, <1>4, <1>5, <1>6, <1>7, <1>8, <1>9 DEF Next, Step, MainStep

\* A new edge leads to a worker that spawns nobody, so it closes no cycle.
LEMMA RootedStep == ASSUME Inv, Rooted, Next PROVE Rooted'
  <1> USE ThreadFacts DEF Inv
  <1>0. ASSUME UNCHANGED child PROVE Rooted'
    BY <1>0 DEF Rooted
  <1>1. ASSUME NEW t \in Threads, NEW w \in Workers, Start(t, w) PROVE Rooted'
    <2> SUFFICES ASSUME NEW S \in SUBSET Workers, S # {},
                        \A x \in S : \E u \in S : child'[u] = x
                 PROVE  FALSE
      BY DEF Rooted
    <2> DEFINE R == S \ {w}
    <2>1. child' = [child EXCEPT ![t] = w] /\ child[w] = None /\ child[t] = None /\ t # w
      BY <1>1 DEF Start, Shape, TypeOK
    <2>2. child'[w] = None
      BY <2>1 DEF TypeOK
    <2>3. R \in SUBSET Workers /\ R # {}
      BY <2>2
    <2>4. ASSUME NEW x \in R PROVE \E u \in R : child[u] = x
      <3>1. PICK u \in S : child'[u] = x BY <2>4
      <3>2. u # w BY <2>2, <3>1
      <3>3. u # t BY <2>1, <3>1 DEF TypeOK
      <3> QED BY <2>1, <3>1, <3>2, <3>3 DEF TypeOK
    <2> HIDE DEF R
    <2> QED BY <2>3, <2>4 DEF Rooted
  <1>2. ASSUME NEW t \in Threads, Publish(t) PROVE Rooted'
    <2> SUFFICES ASSUME NEW S \in SUBSET Workers, S # {}
                 PROVE  \E w \in S : \A u \in S : child'[u] # w
      BY DEF Rooted
    <2>1. PICK w \in S : \A u \in S : child[u] # w
      BY DEF Rooted
    <2>2. \A u \in S : child'[u] # w
      BY <1>2, <2>1 DEF Publish, TypeOK
    <2> QED BY <2>2
  <1>3. ASSUME NEW t \in Threads, Guest(t) PROVE Rooted'
    BY <1>0, <1>3 DEF Guest, Wait, Clone, Exit, Execve, ExitGroup, FatalSignal
  <1>4. ASSUME NEW t \in Threads,
               \/ EnterWait(t) \/ Reap(t) \/ Join(t) \/ JoinRefused(t) \/ ReapDone(t) \/ StartFails(t)
               \/ Leave(t) \/ Cleanup(t) \/ Finish(t) \/ Return(t)
        PROVE  Rooted'
    BY <1>0, <1>4 DEF EnterWait, Reap, Join, JoinRefused, ReapDone, StartFails, Leave, Cleanup,
                      Finish, Return
  <1>5. ASSUME NEW t \in Threads,
               \/ KillSnapshot(t) \/ KillKick(t) \/ KillDone(t) \/ ExecImage(t)
               \/ GroupExit(t) \/ StopMain(t) \/ StopThreads(t) \/ KickMain(t)
        PROVE  Rooted'
    BY <1>0, <1>5 DEF KillSnapshot, KillKick, KillDone, ExecImage, GroupExit, StopMain, StopThreads,
                      KickMain
  <1>6. ASSUME MainStep PROVE Rooted'
    BY <1>0, <1>6 DEF MainStep, MainLeaves, JoinSwap, JoinStop, JoinKick, JoinRound
  <1> QED BY <1>1, <1>2, <1>3, <1>4, <1>5, <1>6 DEF Next, Step

\* With threads_ and the main thread's list empty nobody is left: a worker's
\* owner would be a worker that runs, owned in turn by one that spawns it.
LEMMA NobodyLeft ==
    ASSUME Inv, Reaping, Rooted, threads = {}, at[Main] = "joinall"
    PROVE  \A w \in Workers : host[w] \in {"new", "joined"}
  <1> USE ThreadFacts DEF Inv
  <1>1. held[Main] = {} /\ child[Main] = None
    BY DEF Shape
  <1>2. \A t \in Workers : at[t] \in {"publish", "reapjoin"} => \E u \in Workers : child[u] = t
    <2> SUFFICES ASSUME NEW t \in Workers, at[t] \in {"publish", "reapjoin"}
                 PROVE  \E u \in Workers : child[u] = t
      OBVIOUS
    <2>1. host[t] = "live" /\ t \notin finished
      BY DEF Shape, Spent
    <2>2. PICK u \in Threads : Owns(u, t)
      BY <2>1 DEF Lists
    <2>3. u \in Workers
      BY <1>1, <2>2 DEF Owns
    <2>4. t \notin held[u]
      BY <2>1, <2>3 DEF Reaping
    <2> QED BY <2>2, <2>3, <2>4 DEF Owns
  <1>3. \A u \in Workers : child[u] = None
    <2> DEFINE S == {w \in Workers : \E t \in Workers : child[t] = w}
    <2>1. \A w \in S : \E t \in S : child[t] = w
      <3> SUFFICES ASSUME NEW w \in S PROVE \E t \in S : child[t] = w OBVIOUS
      <3>1. PICK t \in Workers : child[t] = w OBVIOUS
      <3>2. at[t] = "publish" BY <3>1 DEF Shape
      <3>3. t \in S BY <1>2, <3>2
      <3> QED BY <3>1, <3>3
    <2>2. S \in SUBSET Workers OBVIOUS
    <2>3. S = {}
      <3> HIDE DEF S
      <3> QED BY <2>1, <2>2 DEF Rooted
    <2> QED BY <2>3 DEF TypeOK
  <1>4. \A u \in Workers : held[u] = {}
    BY <1>2, <1>3 DEF Shape, Reaping, TypeOK
  <1>5. \A t \in Threads, w \in Workers : ~Owns(t, w)
    BY <1>1, <1>3, <1>4 DEF Owns
  <1> QED BY <1>5 DEF Lists, TypeOK

LEMMA EndStep == ASSUME JoinInv, Next PROVE NoOrphan'
  <1> USE ThreadFacts DEF JoinInv, Inv
  <1>1. ASSUME at[Main] # "ended", at'[Main] = "ended" PROVE NoOrphan'
    <2>1. JoinSwap /\ threads = {}
      <3>1. ASSUME NEW t \in Threads, Guest(t) PROVE FALSE
        BY <1>1, <3>1 DEF Guest, Wait, Clone, Exit, Execve, ExitGroup, FatalSignal, Begins, Goto, Kill, TypeOK
      <3>2. ASSUME NEW t \in Threads,
                   EnterWait(t) \/ Reap(t) \/ ReapDone(t) \/ StartFails(t) \/ Publish(t) \/ JoinRefused(t)
            PROVE  FALSE
        BY <1>1, <3>2 DEF EnterWait, Reap, ReapDone, StartFails, Publish, JoinRefused, Goto, TypeOK
      <3>3. ASSUME NEW t \in Threads, Join(t) PROVE FALSE
        BY <1>1, <3>3 DEF Join
      <3>4. ASSUME NEW t \in Threads, NEW w \in Workers, Start(t, w) PROVE FALSE
        BY <1>1, <3>4 DEF Start, TypeOK
      <3>5. ASSUME NEW t \in Threads, Leave(t) \/ Cleanup(t) \/ Finish(t) \/ Return(t) PROVE FALSE
        BY <1>1, <3>5 DEF Leave, Cleanup, Finish, Return, Goto, TypeOK
      <3>6. ASSUME NEW t \in Threads, KillSnapshot(t) \/ KillDone(t) \/ ExecImage(t) PROVE FALSE
        BY <1>1, <3>6 DEF KillSnapshot, KillDone, ExecImage, Goto, TypeOK
      <3>7. ASSUME NEW t \in Threads, KillKick(t) \/ StopThreads(t) \/ KickMain(t) PROVE FALSE
        BY <1>1, <3>7 DEF KillKick, StopThreads, KickMain, Kicked
      <3>8. ASSUME NEW t \in Threads, GroupExit(t) \/ StopMain(t) PROVE FALSE
        BY <1>1, <3>8 DEF GroupExit, StopMain, Goto, TypeOK
      <3>9. ASSUME MainLeaves \/ JoinRound \/ JoinStop PROVE FALSE
        BY <1>1, <3>9 DEF MainLeaves, JoinRound, JoinStop, Kill, Goto, TypeOK
      <3>10. ASSUME JoinKick PROVE FALSE
        BY <1>1, <3>10 DEF JoinKick, TypeOK
      <3>11. JoinSwap
        BY <3>1, <3>2, <3>3, <3>4, <3>5, <3>6, <3>7, <3>8, <3>9, <3>10 DEF Next, Step, MainStep
      <3> QED BY <1>1, <3>11 DEF JoinSwap, Kicked
    <2>2. \A w \in Workers : host[w] \in {"new", "joined"}
      BY <2>1, NobodyLeft DEF JoinSwap
    <2> QED BY <2>1, <2>2 DEF JoinSwap, NoOrphan
  <1>2. ASSUME at[Main] = "ended" PROVE NoOrphan'
    <2>1. \A w \in Workers : host[w] \in {"new", "joined"} /\ at[w] = "none"
      BY <1>2 DEF NoOrphan, Shape, TypeOK
    <2>2. \A t \in Threads : at[t] \in {"none", "ended"} /\ held[t] = {}
      BY <1>2, <2>1 DEF Shape
    <2>3. host' = host
      <3>1. ASSUME NEW t \in Threads, Guest(t) PROVE FALSE
        BY <2>2, <3>1 DEF Guest, Wait, Clone, Exit, Execve, ExitGroup, FatalSignal, Begins, Goto
      <3>2. ASSUME NEW t \in Threads, Step(t) PROVE FALSE
        BY <2>2, <3>2 DEF Step, EnterWait, Reap, ReapDone, StartFails, Publish, JoinRefused, Join, Joining,
              Start, Leave, Cleanup, Finish, Return, KillSnapshot, KillKick, KillDone, ExecImage, GroupExit,
              StopMain, StopThreads, KickMain, Goto
      <3>3. ASSUME MainStep PROVE FALSE
        BY <2>2, <3>3 DEF MainStep, MainLeaves, JoinSwap, JoinStop, JoinKick, JoinRound, Goto
      <3> QED BY <3>1, <3>2, <3>3 DEF Next
    <2> QED BY <2>1, <2>3 DEF NoOrphan
  <1> QED BY <1>1, <1>2 DEF NoOrphan

\* When no worker calls execve, run() returns with every host thread that
\* clone made joined: the loop of join_threads ends only when threads_ was
\* empty, and then nobody is being spawned or reaped by another worker.
THEOREM RunJoinsAll == ASSUME MainExecs PROVE Spec => []NoOrphan
  <1>1. Init => JoinInv
    BY InitInv DEF JoinInv
  <1>2. JoinInv /\ [Next]_vars => JoinInv'
    <2> SUFFICES ASSUME JoinInv, [Next]_vars PROVE JoinInv' OBVIOUS
    <2>1. CASE Next
      BY <2>1, InvStep, ReapingStep, RootedStep, EndStep DEF JoinInv
    <2>2. CASE UNCHANGED vars
      BY <2>2, InvStep DEF vars, JoinInv, Reaping, Rooted, NoOrphan
    <2> QED BY <2>1, <2>2
  <1>3. JoinInv => NoOrphan
    BY DEF JoinInv
  <1> QED BY <1>1, <1>2, <1>3, PTL DEF Spec

-----------------------------------------------------------------------------
(* fork_guest's locks, which are apart from the thread group: Clean and    *)
(* LetsGo hold for every set of locks, every order of try_all and whatever *)
(* the other threads nest.                                                 *)

\* What try_all has, and that it is before the fallback.
Trying ==
    /\ pc = "try" => /\ ~fell /\ i \in 0 .. Len(Order)
                     /\ \A k \in 1 .. i : holder[Order[k]] = Forker
    /\ pc = "pause" => ~fell
    /\ pc = "fallback" => fell

\* The child owns all it was to take, then nothing another thread holds.
Owned ==
    /\ pc = "settle" /\ ~fell => \A l \in Taken : holder[l] = Forker
    /\ pc \in {"need", "child"} /\ ~fell => \A l \in Taken : holder[l] \in {Free, Forker}

\* What the child still holds it is about to let go of.
Keeping ==
    pc = "need" => \A l \in Locks : holder[l] = Forker =>
                      \E k \in i + 1 .. Len(Needs) : Needs[k] = l

ForkInv == LockTypeOK /\ Trying /\ Owned /\ Keeping /\ LetsGo

\* What try_all and the child take are locks.
LEMMA TakenLocks ==
    Taken \subseteq Locks /\ \A k \in 1 .. Len(Order) : Order[k] \in Locks
  BY LockAssumption DEF Taken

LEMMA NeedsLocks ==
    \A k \in 1 .. Len(Needs) : Needs[k] \in Locks
  BY LockAssumption

LEMMA Numbers ==
    /\ Len(Order) \in Nat /\ Len(Needs) \in Nat /\ Always \in Nat
    /\ DOMAIN Order = 1 .. Len(Order) /\ DOMAIN Needs = 1 .. Len(Needs)
    /\ Forker # Free
  BY LockAssumption

\* Nothing is held at first.
LEMMA ForkInitial == ASSUME LockInit PROVE ForkInv
  <1>1. LockTypeOK
    <2>1. 0 \in 0 .. (Len(Order) + Len(Needs)) BY Numbers
    <2>2. nest \in [Others -> Seq(Locks)] BY DEF LockInit
    <2> QED BY <2>1, <2>2 DEF LockInit, LockTypeOK
  <1>2. Trying /\ Owned /\ Keeping /\ LetsGo
    BY Numbers DEF LockInit, Trying, Owned, Keeping, LetsGo
  <1> QED BY <1>1, <1>2 DEF ForkInv

\* Another thread takes only free locks and lets go only of its own.
LEMMA OthersKeep ==
    ASSUME ForkInv, NEW o \in Others,
           Acquire(o) \/ Unnest(o) \/ \E n \in Nests : Begin(o, n)
    PROVE  ForkInv'
  <1> USE DEF ForkInv
  <1>0. o # Forker /\ o # Free /\ pc' = pc /\ i' = i /\ fell' = fell /\ late' = late /\ ~Child
    BY LockAssumption DEF Acquire, Unnest, Begin
  <1>1. holder' \in [Locks -> Others \cup {Forker, Free}]
    BY DEF Acquire, Unnest, Begin, Drop, LockTypeOK
  <1>2. \A l \in Locks : holder[l] = Forker <=> holder'[l] = Forker
    <2>1. CASE Acquire(o)
      BY <2>1, <1>0, Numbers DEF Acquire, LockTypeOK
    <2>2. CASE Unnest(o)
      BY <2>2, <1>0, Numbers DEF Unnest, Drop, LockTypeOK
    <2>3. CASE \E n \in Nests : Begin(o, n)
      BY <2>3 DEF Begin
    <2> QED BY <2>1, <2>2, <2>3
  <1>3. nest' \in [Others -> Seq(Locks)] /\ depth' \in [Others -> Nat]
    <2>1. CASE Acquire(o)
      BY <2>1 DEF Acquire, LockTypeOK
    <2>2. CASE Unnest(o)
      BY <2>2 DEF Unnest, LockTypeOK
    <2>3. CASE \E n \in Nests : Begin(o, n)
      BY <2>3, LockAssumption DEF Begin, LockTypeOK
    <2> QED BY <2>1, <2>2, <2>3
  <1>4. LockTypeOK'
    BY <1>0, <1>1, <1>3 DEF LockTypeOK
  <1>5. Trying'
    BY <1>0, <1>2, TakenLocks, Numbers DEF Trying
  <1>6. Owned' /\ Keeping'
    BY <1>0 DEF Owned, Keeping, Child
  <1>7. LetsGo'
    BY <1>0, <1>2 DEF LetsGo
  <1> QED BY <1>4, <1>5, <1>6, <1>7

\* fork_guest, step by step.
LEMMA ForkKeeps ==
    ASSUME ForkInv, Fork
    PROVE  ForkInv'
  <1> USE DEF ForkInv
  <1> USE Numbers
  <1>1. CASE Call
    <2>1. 0 \in 0 .. (Len(Order) + Len(Needs)) OBVIOUS
    <2>2. LockTypeOK' BY <1>1, <2>1 DEF Call, LockTypeOK
    <2> QED BY <1>1, <2>2 DEF Call, Trying, Owned, Keeping, LetsGo
  <1>2. CASE Late
    <2>1. LockTypeOK' BY <1>2 DEF Late, LockTypeOK
    <2> QED BY <1>2, <2>1 DEF Late, Trying, Owned, Keeping, LetsGo
  <1>3. CASE TryNext
    <2> DEFINE l == Order[i + 1]
    <2>0. /\ l \in Locks /\ i \in Nat /\ i + 1 \in 1 .. Len(Order)
          /\ pc = "try" /\ pc' = "try" /\ i' = i + 1 /\ fell' = fell
          /\ holder' = [holder EXCEPT ![l] = Forker]
      BY <1>3, TakenLocks DEF TryNext, Hold, LockTypeOK
    <2>1. LockTypeOK'
      BY <1>3, <2>0 DEF TryNext, LockTypeOK
    <2>2. \A k \in 1 .. i + 1 : holder'[Order[k]] = Forker
      <3> SUFFICES ASSUME NEW k \in 1 .. i + 1 PROVE holder'[Order[k]] = Forker OBVIOUS
      <3>1. Order[k] \in Locks BY <2>0, TakenLocks
      <3>2. CASE k = i + 1 BY <3>2, <2>0 DEF LockTypeOK
      <3>3. CASE k # i + 1 BY <3>3, <3>1, <2>0 DEF Trying, LockTypeOK
      <3> QED BY <3>2, <3>3
    <2>3. Trying'
      BY <2>0, <2>2 DEF Trying
    <2>4. Owned' /\ Keeping' /\ LetsGo'
      BY <2>0 DEF Owned, Keeping, LetsGo
    <2> QED BY <2>1, <2>3, <2>4
  <1>4. CASE TryFails
    <2>1. LockTypeOK' BY <1>4 DEF TryFails, Drop, LockTypeOK
    <2> QED BY <1>4, <2>1 DEF TryFails, Drop, Trying, Owned, Keeping, LetsGo
  <1>5. CASE Retry
    <2>1. LockTypeOK' BY <1>5 DEF Retry, LockTypeOK
    <2> QED BY <1>5, <2>1 DEF Retry, Trying, Owned, Keeping, LetsGo
  <1>6. CASE GiveUp
    <2>1. LockTypeOK' BY <1>6 DEF GiveUp, LockTypeOK
    <2> QED BY <1>6, <2>1 DEF GiveUp, Trying, Owned, Keeping, LetsGo
  <1>7. CASE FallbackNext
    <2>0. i + 1 \in 1 .. Always /\ Order[i + 1] \in Locks
      BY <1>7, LockAssumption, TakenLocks DEF FallbackNext, LockTypeOK
    <2>1. LockTypeOK' BY <1>7, <2>0 DEF FallbackNext, Hold, LockTypeOK
    <2> QED BY <1>7, <2>1 DEF FallbackNext, Trying, Owned, Keeping, LetsGo
  <1>8. CASE ForkParent
    <2>1. LockTypeOK' BY <1>8, LockAssumption DEF ForkParent, Quiesced, Drop, LockTypeOK
    <2> QED BY <1>8, <2>1 DEF ForkParent, Drop, Trying, Owned, Keeping, LetsGo
  <1>9. CASE ForkChild
    <2>1. LockTypeOK' BY <1>9, LockAssumption DEF ForkChild, Quiesced, LockTypeOK
    <2>2. ~fell => \A l \in Taken : holder[l] = Forker
      BY <1>9 DEF ForkChild, Quiesced, Trying, Taken
    <2>3. Trying' /\ Owned' /\ Keeping' /\ LetsGo'
      BY <1>9, <2>2 DEF ForkChild, Trying, Owned, Keeping, LetsGo, Taken
    <2> QED BY <2>1, <2>3
  <1>10. CASE Settle
    <2>1. LockTypeOK' BY <1>10 DEF Settle, LockTypeOK
    <2>2. Trying' /\ LetsGo' BY <1>10 DEF Settle, Trying, LetsGo
    <2>3. Owned' BY <1>10, TakenLocks DEF Settle, Owned
    <2>4. Keeping'
      BY <1>10, LockAssumption DEF Settle, Keeping
    <2> QED BY <2>1, <2>2, <2>3, <2>4
  <1>11. CASE Need
    <2> DEFINE l == Needs[i + 1]
    <2>0. /\ l \in Locks /\ i \in Nat /\ i + 1 \in 1 .. Len(Needs)
          /\ pc = "need" /\ pc' = "need" /\ i' = i + 1 /\ fell' = fell
          /\ holder' = [holder EXCEPT ![l] = Free]
      BY <1>11, NeedsLocks DEF Need, LockTypeOK
    <2>1. LockTypeOK' BY <1>11, <2>0 DEF Need, LockTypeOK
    <2>2. Trying' /\ LetsGo' BY <2>0 DEF Trying, LetsGo
    <2>3. Owned' BY <2>0, TakenLocks DEF Owned, LockTypeOK
    <2>4. Keeping'
      <3> SUFFICES ASSUME NEW m \in Locks, holder'[m] = Forker
                   PROVE  \E k \in i + 2 .. Len(Needs) : Needs[k] = m
        BY <2>0 DEF Keeping
      <3>1. m # l /\ holder[m] = Forker BY <2>0 DEF LockTypeOK
      <3>2. PICK k \in i + 1 .. Len(Needs) : Needs[k] = m BY <3>1, <2>0 DEF Keeping
      <3>3. k # i + 1 BY <3>1, <3>2
      <3> QED BY <3>2, <3>3, <2>0
    <2> QED BY <2>1, <2>2, <2>3, <2>4
  <1>12. CASE Returns
    <2>1. LockTypeOK' BY <1>12, LockAssumption DEF Returns, LockTypeOK
    <2>2. LetsGo' BY <1>12 DEF Returns, Keeping, LetsGo
    <2>3. Trying' /\ Owned' /\ Keeping' BY <1>12 DEF Returns, Trying, Owned, Keeping
    <2> QED BY <2>1, <2>2, <2>3
  <1> QED
    BY <1>1, <1>2, <1>3, <1>4, <1>5, <1>6, <1>7, <1>8, <1>9, <1>10, <1>11, <1>12 DEF Fork

\* The invariant is inductive.
LEMMA ForkConsecution ==
    ASSUME ForkInv, [LockNext]_lockvars PROVE ForkInv'
  <1>1. CASE Fork BY <1>1, ForkKeeps
  <1>2. CASE \E o \in Others : Acquire(o) \/ Unnest(o) \/ \E n \in Nests : Begin(o, n)
    BY <1>2, OthersKeep
  <1>3. CASE UNCHANGED lockvars
    BY <1>3 DEF lockvars, ForkInv, LockTypeOK, Trying, Owned, Keeping, LetsGo, Taken
  <1> QED BY <1>1, <1>2, <1>3 DEF LockNext

\* The invariant of fork_guest's locking.
LEMMA ForkInvariance == LockSpec => []ForkInv
  <1>1. LockInit => ForkInv BY ForkInitial
  <1>2. ForkInv /\ [LockNext]_lockvars => ForkInv' BY ForkConsecution
  <1> QED BY <1>1, <1>2, PTL DEF LockSpec

\* No lock of try_all is inherited from a thread that does not exist, and
\* none is left locked when the child returns to the guest.
THEOREM ChildClean == LockSpec => []Clean
  <1>1. ForkInv => Clean
    BY TakenLocks, Numbers DEF ForkInv, Clean, Owned, LetsGo, Child
  <1> QED BY <1>1, ForkInvariance, PTL

\* fork_guest returns, pauses or hands over to the guest without a lock.
THEOREM NothingHeld == LockSpec => []LetsGo
  <1>1. ForkInv => LetsGo BY DEF ForkInv
  <1> QED BY <1>1, ForkInvariance, PTL

\* The lock table and the loops are well typed: the fallback stops after
\* the locks it always takes.
THEOREM LockTypes == LockSpec => []LockTypeOK
  <1>1. ForkInv => LockTypeOK BY DEF ForkInv
  <1> QED BY <1>1, ForkInvariance, PTL
=============================================================================
