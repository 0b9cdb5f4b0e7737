--------------------------- MODULE SignalsProofs ---------------------------
(***************************************************************************)
(* A signal that was sent stays where its receiver looks, the bounded      *)
(* queues included, and guest code runs under the masks it asked for: for  *)
(* any number of threads, signals and nested handlers.                     *)
(***************************************************************************)
EXTENDS Signals, FiniteSetTheorems, WellFoundedInduction, TLAPS

-----------------------------------------------------------------------------
(* Lowest, and the entries a queue keeps. *)

Less == {ss \in Nat \X Nat : ss[1] < ss[2]}

\* A set of naturals has a least element, and Lowest is it.
LEMMA LowestIs ==
  ASSUME NEW S \in SUBSET Nat, S # {}
  PROVE  Lowest(S) \in S /\ \A r \in S : Lowest(S) <= r
  <1>1. IsWellFoundedOn(Less, Nat)
    BY NatLessThanWellFounded DEF OpToRel, Less
  <1>2. PICK x \in S : \A y \in S : ~(<<y, x>> \in Less)
    BY <1>1, WFMin
  <1>3. \A r \in S : <<r, x>> \in Less <=> r < x
    BY DEF Less
  <1>4. \A r \in S : ~(r < x) /\ r \in Nat /\ x \in Nat
    BY <1>2, <1>3
  <1>5. \A r \in S : x <= r
    BY <1>4
  <1> QED BY <1>5 DEF Lowest

\* The position of rank k.
Nth(P, k) == CHOOSE i \in P : Rank(P, i) = k

\* Ranks grow with the positions, ...
LEMMA RankGrows ==
  ASSUME NEW P \in SUBSET Nat, IsFiniteSet(P), NEW i \in P, NEW j \in P, i < j
  PROVE  Rank(P, i) < Rank(P, j)
  <1> DEFINE A == {x \in P : x <= i}
             B == {x \in P : x <= j}
  <1>1. IsFiniteSet(B)
    BY FS_Subset, B \subseteq P
  <1>2. A \in SUBSET B /\ j \in B /\ j \notin A
    <2>1. i \in Nat /\ j \in Nat /\ \A x \in P : x \in Nat
      OBVIOUS
    <2>2. \A x \in P : x <= i => x <= j
      BY <2>1
    <2>3. ~(j <= i) /\ j <= j
      BY <2>1
    <2> QED BY <2>2, <2>3
  <1>3. IsFiniteSet(A) /\ Cardinality(A) <= Cardinality(B) /\ (Cardinality(B) = Cardinality(A) => B = A)
    BY <1>1, <1>2, FS_Subset
  <1>4. Cardinality(A) \in Nat /\ Cardinality(B) \in Nat
    BY <1>1, <1>3, FS_CardinalityType
  <1>5. A # B
    BY <1>2
  <1> HIDE DEF A, B
  <1>6. Cardinality(A) < Cardinality(B)
    BY <1>3, <1>4, <1>5
  <1> QED BY <1>6 DEF Rank, A, B

\* ... from 1 to how many there are, ...
LEMMA RankRange ==
  ASSUME NEW P \in SUBSET Nat, IsFiniteSet(P), NEW i \in P
  PROVE  Rank(P, i) \in 1..Cardinality(P)
  <1> DEFINE A == {x \in P : x <= i}
  <1>1. A \in SUBSET P /\ {i} \in SUBSET A
    OBVIOUS
  <1>2. IsFiniteSet(A) /\ Cardinality(A) <= Cardinality(P)
    BY <1>1, FS_Subset
  <1>3. Cardinality(A) # 0
    BY <1>1, <1>2, FS_EmptySet
  <1>4. Cardinality(A) \in Nat /\ Cardinality(P) \in Nat
    BY <1>2, FS_CardinalityType
  <1> HIDE DEF A
  <1>5. Cardinality(A) \in 1..Cardinality(P)
    BY <1>2, <1>3, <1>4
  <1> QED BY <1>5 DEF Rank, A

\* ... so that Nth undoes Rank ...
LEMMA NthOfRank ==
  ASSUME NEW P \in SUBSET Nat, IsFiniteSet(P), NEW i \in P
  PROVE  Nth(P, Rank(P, i)) = i
  <1>1. \A j \in P : j # i => Rank(P, j) # Rank(P, i)
    <2> SUFFICES ASSUME NEW j \in P, j # i PROVE Rank(P, j) # Rank(P, i)
      OBVIOUS
    <2>1. \A k \in P : Rank(P, k) \in Nat
      BY RankRange, FS_CardinalityType
    <2>2. j < i \/ i < j
      OBVIOUS
    <2>3. Rank(P, j) < Rank(P, i) \/ Rank(P, i) < Rank(P, j)
      BY <2>2, RankGrows
    <2> QED BY <2>1, <2>3
  <1>2. Nth(P, Rank(P, i)) = CHOOSE j \in P : Rank(P, j) = Rank(P, i)
    BY DEF Nth, Rank
  <1> QED BY <1>1, <1>2

\* ... and Rank undoes Nth: there are no fewer ranks than positions.
LEMMA NthIn ==
  ASSUME NEW P \in SUBSET Nat, IsFiniteSet(P), NEW k \in 1..Cardinality(P)
  PROVE  Nth(P, k) \in P /\ Rank(P, Nth(P, k)) = k
  <1> DEFINE N == 1..Cardinality(P)
             f == [i \in P |-> Rank(P, i)]
  <1>1. Cardinality(P) \in Nat
    BY FS_CardinalityType
  <1>2. f \in Injection(P, N)
    <2>1. f \in [P -> N]
      BY RankRange
    <2>2. \A i, j \in P : f[i] = f[j] => i = j
      BY NthOfRank
    <2> QED BY <2>1, <2>2 DEF Injection, IsInjective
  <1>3. IsFiniteSet(N) /\ Cardinality(N) = Cardinality(P)
    BY <1>1, FS_Interval
  <1>4. f \in Surjection(P, N)
    <2> HIDE DEF N, f
    <2> QED BY <1>2, <1>3, FS_Injection
  <1>5. PICK i \in P : f[i] = k
    BY <1>4 DEF Surjection
  <1>6. Rank(P, i) = k
    BY <1>5
  <1> QED BY <1>6, NthOfRank

\* Keep yields the entries at the positions it is given, and no other.
LEMMA KeepIs ==
  ASSUME NEW E, NEW q \in Seq(E), NEW P \in SUBSET (1..Len(q))
  PROVE  /\ Keep(q, P) \in Seq(E)
         /\ Len(Keep(q, P)) <= Len(q)
         /\ \A k \in DOMAIN Keep(q, P) : \E i \in P : Keep(q, P)[k] = q[i]
         /\ \A i \in P : \E k \in DOMAIN Keep(q, P) : Keep(q, P)[k] = q[i]
  <1>1. IsFiniteSet(1..Len(q)) /\ Cardinality(1..Len(q)) = Len(q)
    <2>1. PICK n \in Nat : n = Len(q)
      OBVIOUS
    <2>2. IsFiniteSet(1..n) /\ Cardinality(1..n) = IF 1 > n THEN 0 ELSE n - 1 + 1
      BY FS_Interval
    <2>3. (IF 1 > n THEN 0 ELSE n - 1 + 1) = n
      OBVIOUS
    <2> QED BY <2>1, <2>2, <2>3
  <1>2. IsFiniteSet(P) /\ Cardinality(P) <= Len(q)
    BY <1>1, FS_Subset
  <1>3. Cardinality(P) \in Nat
    BY <1>2, FS_CardinalityType
  <1>4. P \in SUBSET Nat /\ DOMAIN q = 1..Len(q) /\ \A i \in DOMAIN q : q[i] \in E
    OBVIOUS
  <1>5. \A k \in 1..Cardinality(P) : Nth(P, k) \in P
    BY <1>2, <1>4, NthIn
  <1>6. DOMAIN Keep(q, P) = 1..Cardinality(P) /\ \A k \in 1..Cardinality(P) : Keep(q, P)[k] = q[Nth(P, k)]
    BY DEF Keep, Nth
  <1>7. Keep(q, P) \in [1..Cardinality(P) -> E]
    BY <1>4, <1>5 DEF Keep, Nth
  <1>8. Keep(q, P) \in Seq(E) /\ Len(Keep(q, P)) = Cardinality(P)
    BY <1>3, <1>6, <1>7
  <1>9. \A i \in P : \E k \in 1..Cardinality(P) : Nth(P, k) = i
    BY <1>2, <1>4, RankRange, NthOfRank
  <1>10. \A i \in P : \E k \in DOMAIN Keep(q, P) : Keep(q, P)[k] = q[i]
    BY <1>6, <1>9
  <1>11. \A k \in DOMAIN Keep(q, P) : \E i \in P : Keep(q, P)[k] = q[i]
    BY <1>5, <1>6
  <1> QED BY <1>2, <1>8, <1>10, <1>11

\* A queue, in terms of the signals in it.
Signos(q) == {q[i].signo : i \in DOMAIN q}

LEMMA KeepSignos ==
  ASSUME NEW q \in Seq(Entry), NEW P \in SUBSET (1..Len(q))
  PROVE  Signos(Keep(q, P)) = {q[i].signo : i \in P}
  <1>1. Keep(q, P) \in Seq(Entry)
    BY KeepIs
  <1>2. \A k \in DOMAIN Keep(q, P) : \E i \in P : Keep(q, P)[k] = q[i]
    BY KeepIs
  <1>3. \A i \in P : \E k \in DOMAIN Keep(q, P) : Keep(q, P)[k] = q[i]
    BY KeepIs
  <1> QED BY <1>2, <1>3 DEF Signos

LEMMA SeqPush ==
  ASSUME NEW E, NEW e \in E, NEW s \in Seq(E)
  PROVE  /\ <<e>> \o s \in Seq(E) /\ Len(<<e>> \o s) = Len(s) + 1
         /\ Head(<<e>> \o s) = e /\ Tail(<<e>> \o s) = s
  OBVIOUS

LEMMA SeqPop ==
  ASSUME NEW E, NEW s \in Seq(E), Len(s) # 0
  PROVE  /\ Head(s) \in E /\ Tail(s) \in Seq(E) /\ Len(Tail(s)) = Len(s) - 1
         /\ <<Head(s)>> \o Tail(s) = s
  OBVIOUS

-----------------------------------------------------------------------------
(* The inductive invariant behind the types. *)

\* Inside rt_sigsuspend and rt_sigtimedwait.
Sleeps == {"suspend", "drain", "drained", "enter", "sleep", "woken", "settled",
           "wait", "take", "other", "nap"}

\* view has one mask more than there are frames.
ContextOK ==
    /\ mask \in [Threads -> SUBSET Signals] /\ active \in [Threads -> BOOLEAN]
    /\ frames \in [Threads -> Seq(SUBSET Signals)] /\ view \in [Threads -> Seq(SUBSET Signals)]
    /\ act \in [Signals -> Dispositions] /\ exited \in BOOLEAN
    /\ \A t \in Threads : Len(view[t]) = Len(frames[t]) + 1

PendingOK ==
    /\ queue \in [Threads -> Seq(Entry)] /\ \A t \in Threads : Len(queue[t]) <= Cap
    /\ sigpending \in [Threads -> SUBSET Signals] /\ shared \in SUBSET Signals
    /\ owed \in SUBSET ((Threads \cup {Process}) \X Signals)

CallsOK ==
    /\ saved \in [Threads -> SUBSET Signals] /\ waits \in [Threads -> SUBSET Signals]
    /\ pc \in [Threads -> Points]
    /\ req \in [Threads -> [to : Threads \cup {Process}, signo : Signals \cup {0}, group : BOOLEAN]]
    /\ sent \in 0..MaxSends

\* The system calls that borrow a mask have one to give back; a send under way
\* has a signal.
Placed ==
    \A t \in Threads : /\ pc[t] \in Sleeps => active[t]
                       /\ pc[t] \in {"push", "kick"} => req[t].signo \in Signals

Inv == ContextOK /\ PendingOK /\ CallsOK /\ Placed

-----------------------------------------------------------------------------
(* What the parts of the actions keep. *)

\* Of two threads, only t's mask, frames and view move.
OnlyAt(t) == \A u \in Threads \ {t} : active'[u] = active[u]

\* deliver_signal keeps the context well formed and ends a borrowed mask.
LEMMA HandleContext ==
  ASSUME ContextOK, saved \in [Threads -> SUBSET Signals],
         NEW t \in Threads, NEW s \in Signals, Handle(t, s)
  PROVE  ContextOK' /\ OnlyAt(t)
  <1> DEFINE back == IF active[t] THEN saved[t] ELSE mask[t]
             more == SaMask[s] \cup ({s} \ NoDefer)
  <1>1. back \in SUBSET Signals /\ more \in SUBSET Signals
    BY SignalAssumption DEF ContextOK
  <1>2. exited' \in BOOLEAN
    BY DEF Handle, Kills
  <1>3. CASE act[s] = "handler"
    <2>1. /\ frames' = [frames EXCEPT ![t] = <<back>> \o frames[t]]
          /\ mask' = [mask EXCEPT ![t] = back \cup more] /\ active' = [active EXCEPT ![t] = FALSE]
          /\ view' = [view EXCEPT ![t] = <<Head(view[t]) \cup more>> \o view[t]]
          /\ act' = IF s \in ResetHand THEN [act EXCEPT ![s] = "default"] ELSE act
      BY <1>3 DEF Handle, Context
    <2> HIDE DEF back, more
    <2>2. frames[t] \in Seq(SUBSET Signals) /\ view[t] \in Seq(SUBSET Signals) /\ Len(view[t]) = Len(frames[t]) + 1
      BY DEF ContextOK
    <2>3. <<back>> \o frames[t] \in Seq(SUBSET Signals) /\ Len(<<back>> \o frames[t]) = Len(frames[t]) + 1
      BY <1>1, <2>2, SeqPush
    <2>4. Head(view[t]) \in SUBSET Signals
      BY <2>2
    <2>5. PICK m \in SUBSET Signals : m = Head(view[t]) \cup more
      BY <1>1, <2>4
    <2>6. <<m>> \o view[t] \in Seq(SUBSET Signals) /\ Len(<<m>> \o view[t]) = Len(view[t]) + 1
      BY <2>2, <2>5, SeqPush
    <2>7. act' \in [Signals -> Dispositions]
      BY <2>1 DEF ContextOK, Dispositions
    <2>8. mask' \in [Threads -> SUBSET Signals] /\ active' \in [Threads -> BOOLEAN] /\ OnlyAt(t)
      BY <1>1, <2>1 DEF ContextOK, OnlyAt
    <2>9. frames' \in [Threads -> Seq(SUBSET Signals)]
      BY <2>1, <2>3 DEF ContextOK
    <2>10. view' \in [Threads -> Seq(SUBSET Signals)]
      BY <2>1, <2>5, <2>6 DEF ContextOK
    <2>11. ASSUME NEW u \in Threads PROVE Len(view'[u]) = Len(frames'[u]) + 1
      <3>1. CASE u = t
        <4>1. view'[t] = <<m>> \o view[t] /\ frames'[t] = <<back>> \o frames[t]
          BY <2>1, <2>5 DEF ContextOK
        <4> QED BY <3>1, <4>1, <2>2, <2>3, <2>6
      <3>2. CASE u # t
        BY <3>2, <2>1 DEF ContextOK
      <3> QED BY <3>1, <3>2
    <2> QED BY <1>2, <2>7, <2>8, <2>9, <2>10, <2>11 DEF ContextOK
  <1>4. CASE act[s] # "handler"
    BY <1>2, <1>4 DEF Handle, ContextOK, OnlyAt
  <1> QED BY <1>3, <1>4

\* What deliver_pending_signals delivers is a signal.
LEMMA DeliversSignal ==
  ASSUME PendingOK, NEW t \in Threads, Waiting(t) # {}
  PROVE  LET own == sigpending[t] \ mask[t]
             s == Lowest(IF own # {} THEN own ELSE shared \ mask[t])
         IN  s \in Signals /\ (IF own # {} THEN s \in own ELSE s \in shared \ mask[t])
  <1> DEFINE own == sigpending[t] \ mask[t]
             all == shared \ mask[t]
  <1>1. own \in SUBSET Nat /\ all \in SUBSET Nat /\ own \subseteq Signals /\ all \subseteq Signals
    BY SignalAssumption DEF PendingOK
  <1>2. own # {} \/ all # {}
    BY DEF Waiting
  <1>3. own # {} => Lowest(own) \in own
    BY <1>1, LowestIs
  <1>4. all # {} => Lowest(all) \in all
    BY <1>1, LowestIs
  <1> QED BY <1>1, <1>2, <1>3, <1>4

\* deliver_pending_signals takes one signal from one of the two sets.
LEMMA DeliversOne ==
  ASSUME PendingOK, NEW t \in Threads, DeliverPending(t)
  PROVE  /\ \E s \in Signals :
               /\ Handle(t, s) /\ Settle(t, {s})
               /\ \/ sigpending' = [sigpending EXCEPT ![t] = @ \ {s}] /\ shared' = shared
                  \/ shared' = shared \ {s} /\ sigpending' = sigpending
         /\ UNCHANGED <<queue, saved, req, waits, sent>>
  <1> DEFINE own == sigpending[t] \ mask[t]
             s == Lowest(IF own # {} THEN own ELSE shared \ mask[t])
  <1>1. Waiting(t) # {} /\ Handle(t, s) /\ Settle(t, {s}) /\ UNCHANGED <<queue, saved, req, waits, sent>>
    BY DEF DeliverPending
  <1>2. \/ sigpending' = [sigpending EXCEPT ![t] = @ \ {s}] /\ shared' = shared
        \/ shared' = shared \ {s} /\ sigpending' = sigpending
    BY DEF DeliverPending
  <1>3. s \in Signals
    BY <1>1, DeliversSignal
  <1> HIDE DEF s
  <1> QED BY <1>1, <1>2, <1>3

Taken(t, out) ==
    /\ queue' = [queue EXCEPT ![t] = Keep(queue[t], (1..Len(queue[t])) \ out)]
    /\ out \in SUBSET (1..Len(queue[t]))

\* drain_pending_signals takes some entries out of the queue, settles all of
\* them, and either hands one over that runs a handler or kills, or goes on.
LEMMA DrainsSome ==
  ASSUME PendingOK, NEW t \in Threads, NEW from, NEW to, DrainQueue(t, from, to)
  PROVE  /\ \E out : Taken(t, out) /\ Settle(t, {queue[t][i].signo : i \in out})
         /\ \/ Goto(t, from, to) /\ UNCHANGED context
            \/ Goto(t, from, "run")
               /\ \E s \in Signals : Handle(t, s) /\ (act[s] = "handler" \/ Kills(s))
         /\ UNCHANGED <<sigpending, shared, saved, req, waits, sent>>
  <1> DEFINE q == queue[t]
             Free(i) == q[i].signo \notin mask[t]
             stops == {i \in 1..Len(q) : Free(i) /\ (act[q[i].signo] = "handler" \/ Kills(q[i].signo))}
             last == IF stops = {} THEN Len(q) ELSE Lowest(stops)
             taken == {i \in 1..last : Free(i)}
  <1>1. /\ queue' = [queue EXCEPT ![t] = Keep(q, (1..Len(q)) \ taken)]
        /\ Settle(t, {q[i].signo : i \in taken})
        /\ IF stops = {} THEN Goto(t, from, to) /\ UNCHANGED context
                         ELSE Goto(t, from, "run") /\ Handle(t, q[last].signo)
        /\ UNCHANGED <<sigpending, shared, saved, req, waits, sent>>
    BY DEF DrainQueue
  <1>2. q \in Seq(Entry) /\ Len(q) \in Nat /\ \A i \in 1..Len(q) : q[i].signo \in Signals
    <2>1. q \in Seq(Entry)
      BY DEF PendingOK
    <2>2. \A i \in 1..Len(q) : q[i] \in Entry
      BY <2>1
    <2> QED BY <2>1, <2>2 DEF Entry
  <1>3. stops \in SUBSET (1..Len(q)) /\ stops \in SUBSET Nat
    BY <1>2
  <1>4. stops # {} => last \in 1..Len(q)
    <2> HIDE DEF stops
    <2> QED BY <1>3, LowestIs
  <1>5. taken \in SUBSET (1..Len(q))
    <2> HIDE DEF stops
    <2>1. last \in Nat /\ last <= Len(q)
      BY <1>2, <1>4
    <2> HIDE DEF last
    <2> QED BY <1>2, <2>1
  <1>7. stops # {} => act[q[last].signo] = "handler" \/ Kills(q[last].signo)
    <2>1. \A i \in stops : act[q[i].signo] = "handler" \/ Kills(q[i].signo)
      BY DEF Kills
    <2>2. stops # {} => last \in stops
      <3> HIDE DEF stops
      <3> QED BY <1>3, LowestIs
    <2> QED BY <2>1, <2>2
  <1> HIDE DEF taken, last, stops
  <1>6. Taken(t, taken) /\ Settle(t, {queue[t][i].signo : i \in taken})
    BY <1>1, <1>5 DEF Taken
  <1>8. stops # {} => q[last].signo \in Signals
    BY <1>2, <1>4
  <1> QED BY <1>1, <1>6, <1>7, <1>8

\* The loop of rt_sigtimedwait over pop_pending takes some entries out of the
\* queue, folds those outside the set into sigpending, and settles the rest.
LEMMA WaitTakesSome ==
  ASSUME PendingOK, NEW t \in Threads, WaitQueue(t)
  PROVE  /\ \E out, S :
               /\ Taken(t, out)
               /\ sigpending' = [sigpending EXCEPT ![t] =
                                   @ \cup ({queue[t][i].signo : i \in out} \ waits[t])]
               /\ \A i \in out : queue[t][i].signo \in waits[t] => queue[t][i].signo \in S
               /\ Settle(t, S)
         /\ \/ Goto(t, "wait", "run") /\ Restore(t)
            \/ Goto(t, "wait", "take") /\ UNCHANGED context
         /\ UNCHANGED <<shared, saved, req, waits, sent>>
  <1> DEFINE q == queue[t]
             W == waits[t]
             hits == {i \in 1..Len(q) : q[i].signo \in W}
             last == IF hits = {} THEN Len(q) ELSE Lowest(hits)
             taken == {i \in 1..last : q[i].signo \in W \/ q[i].signo \notin mask[t]}
             S == IF hits = {} THEN {} ELSE {q[last].signo}
  <1>1. /\ queue' = [queue EXCEPT ![t] = Keep(q, (1..Len(q)) \ taken)]
        /\ sigpending' = [sigpending EXCEPT ![t] = @ \cup ({q[i].signo : i \in taken} \ W)]
        /\ IF hits # {} THEN Returns(t, "wait", q[last].signo)
                        ELSE Goto(t, "wait", "take") /\ UNCHANGED <<context, owed>>
        /\ UNCHANGED <<shared, saved, req, waits, sent>>
    BY DEF WaitQueue
  <1>2. q \in Seq(Entry) /\ Len(q) \in Nat
    <2>1. q \in Seq(Entry)
      BY DEF PendingOK
    <2> QED BY <2>1
  <1>3. hits \in SUBSET (1..Len(q)) /\ hits \in SUBSET Nat
    BY <1>2
  <1>4. hits # {} => last \in hits /\ \A i \in hits : last <= i
    <2> HIDE DEF hits
    <2> QED BY <1>3, LowestIs
  <1>5. last \in Nat /\ last <= Len(q)
    <2>1. CASE hits = {}
      BY <2>1, <1>2
    <2>2. CASE hits # {}
      <3>1. last \in 1..Len(q)
        BY <2>2, <1>3, <1>4
      <3> HIDE DEF last
      <3> QED BY <3>1, <1>2
    <2> QED BY <2>1, <2>2
  <1>6. taken \in SUBSET (1..Len(q))
    <2> HIDE DEF last
    <2> QED BY <1>2, <1>5
  <1>7. \A i \in taken : q[i].signo \in W => q[i].signo \in S
    <2> SUFFICES ASSUME NEW i \in taken, q[i].signo \in W PROVE q[i].signo \in S
      OBVIOUS
    <2>1. i \in hits
      BY <1>6
    <2>2. i <= last /\ i \in Nat
      <3> HIDE DEF last
      <3> QED BY <1>5
    <2>3. last <= i
      BY <2>1, <1>4
    <2>4. i = last
      <3> HIDE DEF last
      <3> QED BY <2>2, <2>3, <1>5
    <2> QED BY <2>1, <2>4
  <1>8. Settle(t, S)
    <2>1. CASE hits = {}
      BY <2>1, <1>1 DEF Settle
    <2>2. CASE hits # {}
      <3>1. Settle(t, {q[last].signo})
        BY <2>2, <1>1 DEF Returns
      <3> QED BY <2>2, <3>1
    <2> QED BY <2>1, <2>2
  <1> HIDE DEF taken, last, hits, S
  <1>9. Taken(t, taken)
    BY <1>1, <1>6 DEF Taken
  <1>10. \/ Goto(t, "wait", "run") /\ Restore(t)
         \/ Goto(t, "wait", "take") /\ UNCHANGED context
    BY <1>1 DEF Returns
  <1> QED BY <1>1, <1>7, <1>8, <1>9, <1>10

-----------------------------------------------------------------------------
(* Types. *)

\* Taking entries out keeps a queue within its array.
LEMMA TakenTypes ==
  ASSUME PendingOK, NEW t \in Threads, NEW out, Taken(t, out)
  PROVE  queue' \in [Threads -> Seq(Entry)] /\ \A u \in Threads : Len(queue'[u]) <= Cap
  <1> DEFINE P == (1..Len(queue[t])) \ out
  <1>1. queue[t] \in Seq(Entry) /\ P \in SUBSET (1..Len(queue[t])) /\ Len(queue[t]) <= Cap
    BY DEF PendingOK
  <1> HIDE DEF P
  <1>2. PICK x : x = Keep(queue[t], P)
    OBVIOUS
  <1>3. x \in Seq(Entry) /\ Len(x) <= Len(queue[t])
    BY <1>1, <1>2, KeepIs
  <1>4. queue' = [queue EXCEPT ![t] = x]
    BY <1>2 DEF Taken, P
  <1>5. Cap \in Nat /\ Len(x) \in Nat /\ Len(queue[t]) \in Nat
    BY <1>1, <1>3, SignalAssumption
  <1>6. Len(x) <= Cap
    BY <1>1, <1>3, <1>5
  <1> QED BY <1>3, <1>4, <1>6 DEF PendingOK

\* Settling signals leaves fewer owed.
LEMMA SettleTypes ==
  ASSUME PendingOK, NEW t, NEW S, Settle(t, S)
  PROVE  owed' \in SUBSET ((Threads \cup {Process}) \X Signals)
  BY DEF PendingOK, Settle

LEMMA DeliverTypes ==
  ASSUME ContextOK, PendingOK, saved \in [Threads -> SUBSET Signals],
         NEW t \in Threads, DeliverPending(t)
  PROVE  ContextOK' /\ PendingOK' /\ OnlyAt(t) /\ UNCHANGED <<saved, req, waits, sent>>
  <1>1. PICK s \in Signals :
           /\ Handle(t, s) /\ Settle(t, {s})
           /\ \/ sigpending' = [sigpending EXCEPT ![t] = @ \ {s}] /\ shared' = shared
              \/ shared' = shared \ {s} /\ sigpending' = sigpending
    BY DeliversOne
  <1>2. UNCHANGED <<queue, saved, req, waits, sent>>
    BY DeliversOne
  <1>3. ContextOK' /\ OnlyAt(t)
    BY <1>1, HandleContext
  <1>4. owed' \in SUBSET ((Threads \cup {Process}) \X Signals)
    BY <1>1, SettleTypes
  <1>5. sigpending' \in [Threads -> SUBSET Signals] /\ shared' \in SUBSET Signals
    BY <1>1 DEF PendingOK
  <1> QED BY <1>2, <1>3, <1>4, <1>5 DEF PendingOK

LEMMA DrainTypes ==
  ASSUME ContextOK, PendingOK, saved \in [Threads -> SUBSET Signals],
         NEW t \in Threads, NEW from, NEW to, DrainQueue(t, from, to)
  PROVE  /\ ContextOK' /\ PendingOK' /\ OnlyAt(t) /\ UNCHANGED <<saved, req, waits, sent>>
         /\ Goto(t, from, "run") \/ (Goto(t, from, to) /\ UNCHANGED context)
  <1>1. PICK out : Taken(t, out) /\ Settle(t, {queue[t][i].signo : i \in out})
    BY DrainsSome
  <1>2. /\ \/ Goto(t, from, to) /\ UNCHANGED context
           \/ Goto(t, from, "run")
              /\ \E s \in Signals : Handle(t, s) /\ (act[s] = "handler" \/ Kills(s))
        /\ UNCHANGED <<sigpending, shared, saved, req, waits, sent>>
    BY DrainsSome
  <1>3. ContextOK' /\ OnlyAt(t)
    <2>1. CASE UNCHANGED context
      BY <2>1 DEF context, ContextOK, OnlyAt
    <2>2. CASE \E s \in Signals : Handle(t, s)
      BY <2>2, HandleContext
    <2> QED BY <1>2, <2>1, <2>2
  <1>4. owed' \in SUBSET ((Threads \cup {Process}) \X Signals)
    BY <1>1, SettleTypes
  <1>5. queue' \in [Threads -> Seq(Entry)] /\ \A u \in Threads : Len(queue'[u]) <= Cap
    BY <1>1, TakenTypes
  <1>6. PendingOK'
    BY <1>2, <1>4, <1>5 DEF PendingOK
  <1> QED BY <1>2, <1>3, <1>6

Requests == [to : Threads \cup {Process}, signo : Signals \cup {0}, group : BOOLEAN]

\* A thread that moves, and changes no other's request or borrowed mask.
LEMMA MoveTypes ==
  ASSUME CallsOK, Placed, NEW t \in Threads, NEW from, NEW to, Goto(t, from, to), OnlyAt(t),
         to \in Points, to \in Sleeps => active'[t],
         to \in {"push", "kick"} => req'[t].signo \in Signals,
         saved' \in [Threads -> SUBSET Signals], waits' \in [Threads -> SUBSET Signals],
         req' \in [Threads -> Requests], \A u \in Threads \ {t} : req'[u] = req[u],
         sent' \in 0..MaxSends
  PROVE  CallsOK' /\ Placed'
  <1>1. pc' = [pc EXCEPT ![t] = to] /\ pc \in [Threads -> Points]
    BY DEF Goto, CallsOK
  <1>2. pc' \in [Threads -> Points]
    BY <1>1
  <1>3. CallsOK'
    BY <1>2 DEF CallsOK, Requests
  <1>4. ASSUME NEW u \in Threads
        PROVE  /\ pc'[u] \in Sleeps => active'[u]
               /\ pc'[u] \in {"push", "kick"} => req'[u].signo \in Signals
    <2>1. CASE u = t
      BY <2>1, <1>1
    <2>2. CASE u # t
      <3>1. pc'[u] = pc[u] /\ active'[u] = active[u] /\ req'[u] = req[u]
        BY <2>2, <1>1 DEF OnlyAt
      <3> QED BY <3>1 DEF Placed
    <2> QED BY <2>1, <2>2
  <1> QED BY <1>3, <1>4 DEF Placed

\* The same when only the place of the thread changes.
LEMMA StepTypes ==
  ASSUME CallsOK, Placed, NEW t \in Threads, NEW from, NEW to, Goto(t, from, to), OnlyAt(t),
         to \in Points \ {"push", "kick"}, to \in Sleeps => active'[t],
         UNCHANGED <<saved, req, waits, sent>>
  PROVE  CallsOK' /\ Placed'
  <1>1. /\ saved' \in [Threads -> SUBSET Signals] /\ waits' \in [Threads -> SUBSET Signals]
        /\ req' \in [Threads -> Requests] /\ sent' \in 0..MaxSends
    BY DEF CallsOK, Requests
  <1> QED BY <1>1, MoveTypes

\* The steps of a thread that deliver or take what is pending.
LEMMA DrainSteps ==
  ASSUME Inv, NEW t \in Threads,
         Drain(t) \/ Drained(t) \/ Resume(t) \/ Unblock(t) \/ SuspendPending(t) \/ SuspendDrain(t)
           \/ SuspendDrained(t) \/ Sleep(t) \/ Woken(t) \/ SuspendEnds(t) \/ WaitOther(t) \/ Nap(t)
  PROVE  Inv'
  <1> USE DEF Inv
  <1>s. saved \in [Threads -> SUBSET Signals]
    BY DEF CallsOK
  \* deliver_pending_signals, and on to the handler
  <1>d. ASSUME NEW from, DeliverPending(t), Goto(t, from, "run") PROVE Inv'
    <2>1. ContextOK' /\ PendingOK' /\ OnlyAt(t) /\ UNCHANGED <<saved, req, waits, sent>>
      BY <1>d, <1>s, DeliverTypes
    <2>2. "run" \in Points \ {"push", "kick"} /\ "run" \notin Sleeps
      BY DEF Points, Sleeps
    <2>3. CallsOK' /\ Placed'
      BY <1>d, <2>1, <2>2, StepTypes
    <2> QED BY <2>1, <2>3
  \* nothing happens but the move
  <1>m. ASSUME NEW from, NEW to, Goto(t, from, to), to \in Points \ {"push", "kick"},
               to \in Sleeps => from \in Sleeps,
               UNCHANGED <<context, pending, saved, req, waits, sent>>
        PROVE  Inv'
    <2>1. ContextOK' /\ PendingOK' /\ OnlyAt(t)
      BY <1>m DEF context, pending, ContextOK, PendingOK, OnlyAt
    <2>2. to \in Sleeps => active'[t]
      BY <1>m DEF Placed, Goto, context
    <2>3. CallsOK' /\ Placed'
      BY <1>m, <2>1, <2>2, StepTypes
    <2> QED BY <2>1, <2>3
  \* a mask is given back
  <1>r. ASSUME NEW from, Goto(t, from, "run"), Restore(t), UNCHANGED <<pending, saved, req, waits, sent>>
        PROVE  Inv'
    <2>1. ContextOK' /\ PendingOK' /\ OnlyAt(t)
      BY <1>r, <1>s DEF pending, ContextOK, PendingOK, OnlyAt, Restore, Context
    <2>2. "run" \in Points \ {"push", "kick"} /\ "run" \notin Sleeps
      BY DEF Points, Sleeps
    <2>3. CallsOK' /\ Placed'
      BY <1>r, <2>1, <2>2, StepTypes
    <2> QED BY <2>1, <2>3
  \* drain_pending_signals over the queue
  <1>q. ASSUME NEW from, NEW to, DrainQueue(t, from, to), to \in Points \ {"push", "kick"},
               to \in Sleeps => from \in Sleeps
        PROVE  Inv'
    <2>1. /\ ContextOK' /\ PendingOK' /\ OnlyAt(t) /\ UNCHANGED <<saved, req, waits, sent>>
          /\ Goto(t, from, "run") \/ (Goto(t, from, to) /\ UNCHANGED context)
      BY <1>q, <1>s, DrainTypes
    <2>2. "run" \in Points \ {"push", "kick"} /\ "run" \notin Sleeps
      BY DEF Points, Sleeps
    <2>3. CASE Goto(t, from, "run")
      <3>1. CallsOK' /\ Placed'
        BY <2>1, <2>2, <2>3, StepTypes
      <3> QED BY <2>1, <3>1
    <2>4. CASE Goto(t, from, to) /\ UNCHANGED context
      <3>1. to \in Sleeps => active'[t]
        BY <1>q, <2>4 DEF Placed, Goto, context
      <3>2. CallsOK' /\ Placed'
        BY <1>q, <2>1, <2>4, <3>1, StepTypes
      <3> QED BY <2>1, <3>2
    <2> QED BY <2>1, <2>3, <2>4
  <1>p. /\ {"run", "shared", "call", "drain", "drained", "enter", "sleep", "settled", "wait", "nap"}
             \subseteq Points \ {"push", "kick"}
        /\ {"run", "shared", "call"} \cap Sleeps = {}
        /\ {"suspend", "drain", "drained", "enter", "woken", "other", "nap"} \subseteq Sleeps
    BY DEF Points, Sleeps
  <1>1. CASE Drain(t)
    BY <1>1, <1>q, <1>p DEF Drain
  <1>2. CASE Drained(t)
    BY <1>2, <1>d, <1>m, <1>p DEF Drained, DrainShared, NoneShared
  <1>3. CASE Resume(t)
    BY <1>3, <1>m, <1>p DEF Resume
  <1>4. CASE Unblock(t)
    BY <1>4, <1>d, <1>m, <1>p DEF Unblock, NothingPending
  <1>5. CASE SuspendPending(t)
    BY <1>5, <1>d, <1>m, <1>p DEF SuspendPending, NothingPending
  <1>6. CASE SuspendDrain(t)
    BY <1>6, <1>q, <1>p DEF SuspendDrain
  <1>7. CASE SuspendDrained(t)
    BY <1>7, <1>d, <1>m, <1>p DEF SuspendDrained, DrainShared, NoneShared
  <1>8. CASE Sleep(t)
    BY <1>8, <1>m, <1>p DEF Sleep
  <1>9. CASE Woken(t)
    BY <1>9, <1>q, <1>p DEF Woken
  <1>10. CASE SuspendEnds(t)
    BY <1>10, <1>d, <1>r DEF SuspendEnds, DrainShared, NoneShared
  <1>11. CASE WaitOther(t)
    BY <1>11, <1>d, <1>m, <1>p DEF WaitOther, NothingPending
  <1>12. CASE Nap(t)
    BY <1>12, <1>m, <1>p DEF Nap
  <1> QED BY <1>1, <1>2, <1>3, <1>4, <1>5, <1>6, <1>7, <1>8, <1>9, <1>10, <1>11, <1>12

\* rt_sigtimedwait's looks at the queue and at the sets.
LEMMA TakeSteps ==
  ASSUME Inv, NEW t \in Threads, WaitQueue(t) \/ WaitTake(t)
  PROVE  Inv'
  <1> USE DEF Inv
  <1>p. /\ {"run", "take", "other"} \subseteq Points \ {"push", "kick"}
        /\ "run" \notin Sleeps /\ "wait" \in Sleeps /\ "take" \in Sleeps
    BY DEF Points, Sleeps
  <1>s. saved \in [Threads -> SUBSET Signals] /\ waits \in [Threads -> SUBSET Signals]
    BY DEF CallsOK
  <1>1. CASE WaitQueue(t)
    <2>1. PICK out, S :
             /\ Taken(t, out)
             /\ sigpending' = [sigpending EXCEPT ![t] = @ \cup ({queue[t][i].signo : i \in out} \ waits[t])]
             /\ Settle(t, S)
      BY <1>1, WaitTakesSome
    <2>2. /\ \/ Goto(t, "wait", "run") /\ Restore(t)
             \/ Goto(t, "wait", "take") /\ UNCHANGED context
          /\ UNCHANGED <<shared, saved, req, waits, sent>>
      BY <1>1, WaitTakesSome
    <2>3. ContextOK' /\ OnlyAt(t)
      BY <2>2, <1>s DEF context, ContextOK, OnlyAt, Restore, Context
    <2>4. owed' \in SUBSET ((Threads \cup {Process}) \X Signals)
      BY <2>1, SettleTypes
    <2>5. queue' \in [Threads -> Seq(Entry)] /\ \A u \in Threads : Len(queue'[u]) <= Cap
      BY <2>1, TakenTypes
    <2>6. {queue[t][i].signo : i \in out} \subseteq Signals
      <3>1. queue[t] \in Seq(Entry) /\ out \subseteq 1..Len(queue[t])
        BY <2>1 DEF PendingOK, Taken
      <3>2. \A i \in out : queue[t][i] \in Entry
        BY <3>1
      <3> QED BY <3>2 DEF Entry
    <2>7. sigpending' \in [Threads -> SUBSET Signals]
      BY <2>1, <2>6 DEF PendingOK
    <2>8. PendingOK'
      BY <2>2, <2>4, <2>5, <2>7 DEF PendingOK
    <2>9. CallsOK' /\ Placed'
      <3>1. CASE Goto(t, "wait", "run")
        BY <3>1, <2>2, <2>3, <1>p, StepTypes
      <3>2. CASE Goto(t, "wait", "take") /\ UNCHANGED context
        <4>1. active'[t]
          BY <3>2, <1>p DEF context, Placed, Goto
        <4> QED BY <3>2, <4>1, <2>2, <2>3, <1>p, StepTypes
      <3> QED BY <2>2, <3>1, <3>2
    <2> QED BY <2>3, <2>8, <2>9
  <1>2. CASE WaitTake(t)
    <2> DEFINE own == sigpending[t] \cap waits[t]
               all == shared \cap waits[t]
    <2>1. own \in SUBSET Nat /\ all \in SUBSET Nat
      BY <1>s, SignalAssumption DEF PendingOK
    <2>2. UNCHANGED <<queue, saved, req, waits, sent>>
      BY <1>2 DEF WaitTake
    <2>3. sigpending' \in [Threads -> SUBSET Signals] /\ shared' \in SUBSET Signals
      BY <1>2 DEF WaitTake, PendingOK
    <2>4. owed' \in SUBSET ((Threads \cup {Process}) \X Signals)
      BY <1>2 DEF WaitTake, Returns, Settle, PendingOK
    <2>5. \/ Goto(t, "take", "run") /\ Restore(t)
          \/ Goto(t, "take", "other") /\ UNCHANGED context
      BY <1>2 DEF WaitTake, Returns
    <2>6. ContextOK' /\ OnlyAt(t)
      BY <2>5, <1>s DEF context, ContextOK, OnlyAt, Restore, Context
    <2>7. PendingOK'
      BY <2>2, <2>3, <2>4 DEF PendingOK
    <2>8. CallsOK' /\ Placed'
      <3>1. CASE Goto(t, "take", "run")
        BY <3>1, <2>2, <2>6, <1>p, StepTypes
      <3>2. CASE Goto(t, "take", "other") /\ UNCHANGED context
        <4>1. active'[t]
          BY <3>2, <1>p DEF context, Placed, Goto
        <4> QED BY <3>2, <4>1, <2>2, <2>6, <1>p, StepTypes
      <3> QED BY <2>5, <3>1, <3>2
    <2> QED BY <2>6, <2>7, <2>8
  <1> QED BY <1>1, <1>2

\* The sender's steps.
LEMMA SendSteps ==
  ASSUME Inv, NEW t \in Threads, Share(t) \/ KillsTarget(t) \/ Push(t) \/ Kick(t)
  PROVE  Inv'
  <1> USE DEF Inv
  <1>p. /\ {"run", "woken"} \subseteq Points \ {"push", "kick"} /\ "kick" \in Points
        /\ "run" \notin Sleeps /\ "kick" \notin Sleeps /\ "sleep" \in Sleeps /\ "woken" \in Sleeps
    BY DEF Points, Sleeps
  <1>0. [req EXCEPT ![t] = NoRequest] \in [Threads -> Requests]
    BY DEF CallsOK, Requests, NoRequest
  <1>c. /\ saved \in [Threads -> SUBSET Signals] /\ waits \in [Threads -> SUBSET Signals]
        /\ req \in [Threads -> Requests] /\ sent \in 0..MaxSends
    BY DEF CallsOK, Requests
  <1>s. req[t].to \in Threads \cup {Process} /\ req[t].group \in BOOLEAN
    BY <1>c DEF Requests
  <1>1. CASE Share(t)
    <2>1. req[t].signo \in Signals
      BY <1>1 DEF Share, Goto, Placed
    <2>2. ContextOK' /\ OnlyAt(t)
      BY <1>1 DEF Share, context, ContextOK, OnlyAt
    <2>3. PendingOK'
      BY <1>1, <2>1 DEF Share, PendingOK
    <2>4. Goto(t, "push", "run") /\ req' = [req EXCEPT ![t] = NoRequest] /\ UNCHANGED <<saved, waits, sent>>
      BY <1>1 DEF Share, Sent
    <2>5. req' \in [Threads -> Requests] /\ \A u \in Threads \ {t} : req'[u] = req[u]
      BY <2>4, <1>0, <1>c
    <2>6. CallsOK' /\ Placed'
      BY <2>2, <2>4, <2>5, <1>p, <1>c, MoveTypes
    <2> QED BY <2>2, <2>3, <2>6
  <1>2. CASE KillsTarget(t)
    <2>1. ContextOK' /\ OnlyAt(t)
      BY <1>2 DEF KillsTarget, ContextOK, OnlyAt
    <2>2. PendingOK'
      BY <1>2 DEF KillsTarget, pending, PendingOK
    <2>3. Goto(t, "push", "run") /\ req' = [req EXCEPT ![t] = NoRequest] /\ UNCHANGED <<saved, waits, sent>>
      BY <1>2 DEF KillsTarget, Sent
    <2>4. req' \in [Threads -> Requests] /\ \A u \in Threads \ {t} : req'[u] = req[u]
      BY <2>3, <1>0, <1>c
    <2>5. CallsOK' /\ Placed'
      BY <2>1, <2>3, <2>4, <1>p, <1>c, MoveTypes
    <2> QED BY <2>1, <2>2, <2>5
  <1>3. CASE Push(t)
    <2> DEFINE u == req[t].to
               e == [signo |-> req[t].signo, group |-> req[t].group]
    <2>1. req[t].signo \in Signals /\ u \in Threads
      BY <1>3, <1>s DEF Push, Goto, Placed
    <2>2. ContextOK' /\ OnlyAt(t)
      BY <1>3 DEF Push, context, ContextOK, OnlyAt
    <2>3. owed' \in SUBSET ((Threads \cup {Process}) \X Signals)
      BY <1>3, <2>1 DEF Push, PendingOK
    <2>4. shared' \in SUBSET Signals
      BY <1>3 DEF Push, PendingOK
    <2>5. e \in Entry
      BY <2>1, <1>s DEF Entry
    <2>6. PendingOK'
      <3>1. CASE Len(queue[u]) < Cap
        <4>1. queue' = [queue EXCEPT ![u] = Append(queue[u], e)] /\ UNCHANGED sigpending
          BY <1>3, <3>1 DEF Push
        <4> HIDE DEF u, e
        <4>2. queue[u] \in Seq(Entry)
          BY <2>1 DEF PendingOK
        <4>3. Append(queue[u], e) \in Seq(Entry) /\ Len(Append(queue[u], e)) <= Cap
          BY <4>2, <2>5, <3>1, SignalAssumption
        <4>4. queue' \in [Threads -> Seq(Entry)] /\ \A v \in Threads : Len(queue'[v]) <= Cap
          BY <4>1, <4>3 DEF PendingOK
        <4> QED BY <2>3, <2>4, <4>1, <4>4 DEF PendingOK
      <3>2. CASE ~(Len(queue[u]) < Cap)
        <4>1. sigpending' = [sigpending EXCEPT ![u] = @ \cup {req[t].signo}] /\ UNCHANGED queue
          BY <1>3, <3>2 DEF Push
        <4> QED BY <2>1, <2>3, <2>4, <4>1 DEF PendingOK
      <3> QED BY <3>1, <3>2
    <2>8. Goto(t, "push", "kick") /\ UNCHANGED <<saved, req, waits, sent>>
      BY <1>3 DEF Push
    <2>9. CallsOK' /\ Placed'
      BY <2>1, <2>2, <2>8, <1>p, <1>c, MoveTypes
    <2> QED BY <2>2, <2>6, <2>9
  <1>4. CASE Kick(t)
    <2>1. ContextOK' /\ PendingOK' /\ active' = active
      BY <1>4 DEF Kick, context, pending, ContextOK, PendingOK
    <2>2. req' = [req EXCEPT ![t] = NoRequest] /\ UNCHANGED <<saved, waits, sent>>
      BY <1>4 DEF Kick, Sent
    <2>4. \A v \in Threads : pc'[v] = "run" \/ pc'[v] = pc[v] \/ (pc'[v] = "woken" /\ pc[v] = "sleep")
      BY <1>4 DEF Kick
    <2>5. pc' \in [Threads -> Points]
      <3>1. DOMAIN pc' = Threads /\ pc' = [v \in DOMAIN pc' |-> pc'[v]]
        BY <1>4 DEF Kick
      <3> QED BY <3>1, <2>4, <1>p DEF CallsOK
    <2>6. req' \in [Threads -> Requests]
      BY <2>2, <1>0
    <2>7. CallsOK'
      BY <2>2, <2>5, <2>6 DEF CallsOK, Requests
    <2>8. pc'[t] = "run"
      BY <1>4 DEF Kick
    <2>9. ASSUME NEW v \in Threads
          PROVE  /\ pc'[v] \in Sleeps => active'[v]
                 /\ pc'[v] \in {"push", "kick"} => req'[v].signo \in Signals
      <3>1. CASE v = t
        BY <3>1, <2>8, <1>p
      <3>2. CASE v # t
        <4>1. req'[v] = req[v]
          BY <3>2, <2>2, <1>c
        <4> QED BY <4>1, <2>1, <2>4, <1>p DEF Placed
      <3> QED BY <3>1, <3>2
    <2> QED BY <2>1, <2>7, <2>9 DEF Placed
  <1> QED BY <1>1, <1>2, <1>3, <1>4

\* kill and tgkill: to the sender itself, or a request.
LEMMA SelfTypes ==
  ASSUME Inv, NEW t \in Threads, NEW s \in Signals, NEW owner \in {t, Process}, Self(t, s, owner)
  PROVE  Inv'
  <1> USE DEF Inv
  <1>1. Goto(t, "call", "run") /\ sent' \in 0..MaxSends /\ UNCHANGED <<queue, shared, saved, req, waits>>
    BY SignalAssumption DEF Self, Sends, CallsOK
  <1>2. /\ saved \in [Threads -> SUBSET Signals] /\ waits \in [Threads -> SUBSET Signals]
        /\ req \in [Threads -> Requests] /\ "run" \in Points /\ "run" \notin Sleeps
    BY DEF CallsOK, Requests, Points, Sleeps
  <1>3. ContextOK' /\ PendingOK' /\ OnlyAt(t)
    <2>1. CASE s \in mask[t]
      <3>1. /\ sigpending' = [sigpending EXCEPT ![t] = @ \cup {s}]
            /\ owed' = owed \cup {<<owner, s>>}
            /\ UNCHANGED context
        BY <2>1 DEF Self
      <3>2. PendingOK'
        BY <1>1, <3>1 DEF PendingOK
      <3> QED BY <3>1, <3>2 DEF context, ContextOK, OnlyAt
    <2>2. CASE s \notin mask[t]
      <3>1. Handle(t, s) /\ Settle(t, {s}) /\ UNCHANGED sigpending
        BY <2>2 DEF Self
      <3>2. ContextOK' /\ OnlyAt(t)
        BY <1>2, <3>1, HandleContext
      <3>3. owed' \in SUBSET ((Threads \cup {Process}) \X Signals)
        BY <3>1, SettleTypes
      <3>4. PendingOK'
        BY <1>1, <3>1, <3>3 DEF PendingOK
      <3> QED BY <3>2, <3>4
    <2> QED BY <2>1, <2>2
  <1>4. CallsOK' /\ Placed'
    BY <1>1, <1>2, <1>3, MoveTypes
  <1> QED BY <1>3, <1>4

LEMMA AsksTypes ==
  ASSUME Inv, NEW t \in Threads, NEW u \in Threads \cup {Process}, NEW s \in Signals,
         NEW group \in BOOLEAN, Asks(t, u, s, group)
  PROVE  Inv'
  <1> USE DEF Inv
  <1>1. Goto(t, "call", "push") /\ sent' \in 0..MaxSends /\ UNCHANGED <<context, pending, saved, waits>>
    BY SignalAssumption DEF Asks, Sends, CallsOK
  <1>2. /\ saved \in [Threads -> SUBSET Signals] /\ waits \in [Threads -> SUBSET Signals]
        /\ req \in [Threads -> Requests] /\ "push" \in Points /\ "push" \notin Sleeps
    BY DEF CallsOK, Requests, Points, Sleeps
  <1>3. ContextOK' /\ PendingOK' /\ OnlyAt(t)
    BY <1>1 DEF context, pending, ContextOK, PendingOK, OnlyAt
  <1>4. [to |-> u, signo |-> s, group |-> group] \in Requests
    BY DEF Requests
  <1>5. req' = [req EXCEPT ![t] = [to |-> u, signo |-> s, group |-> group]]
    BY DEF Asks
  <1>6. /\ req' \in [Threads -> Requests] /\ req'[t].signo \in Signals
        /\ \A v \in Threads \ {t} : req'[v] = req[v]
    BY <1>2, <1>4, <1>5
  <1>7. CallsOK' /\ Placed'
    BY <1>1, <1>2, <1>3, <1>6, MoveTypes
  <1> QED BY <1>3, <1>7

\* The first thread of Order that does not block the signal, or the process.
LEMMA TargetTypes ==
  ASSUME NEW t \in Threads, NEW s \in Signals
  PROVE  Target(t, s) \in Threads \cup {Process}
  <1> DEFINE free == {i \in DOMAIN Order : Order[i] # t /\ s \notin mask[Order[i]]}
  <1>1. free \in SUBSET Nat /\ \A i \in DOMAIN Order : Order[i] \in Threads
    BY SignalAssumption
  <1>2. free # {} => Lowest(free) \in free
    <2> HIDE DEF free
    <2> QED BY <1>1, LowestIs
  <1> QED BY <1>1, <1>2 DEF Target

LEMMA GuestSends ==
  ASSUME Inv, NEW t \in Threads, NEW s \in Signals,
         TgkillSelf(t, s) \/ KillSelf(t, s) \/ Kill(t, s) \/ \E u \in Threads : Tgkill(t, u, s)
  PROVE  Inv'
  <1>1. CASE TgkillSelf(t, s)
    BY <1>1, SelfTypes DEF TgkillSelf
  <1>2. CASE KillSelf(t, s)
    BY <1>2, SelfTypes DEF KillSelf
  <1>3. CASE Kill(t, s)
    BY <1>3, TargetTypes, AsksTypes DEF Kill
  <1>4. CASE \E u \in Threads : Tgkill(t, u, s)
    BY <1>4, AsksTypes DEF Tgkill
  <1> QED BY <1>1, <1>2, <1>3, <1>4

\* Faults, masks and dispositions.
LEMMA GuestMasks ==
  ASSUME Inv, NEW t \in Threads,
         \/ \E s \in Faults : Fault(t, s)
         \/ \E m \in Masks[t] : SetMask(t, m)
         \/ Sigreturn(t)
         \/ \E a \in Actions : Sigaction(t, a[1], a[2])
  PROVE  Inv'
  <1> USE DEF Inv
  <1>c. /\ saved \in [Threads -> SUBSET Signals] /\ waits \in [Threads -> SUBSET Signals]
        /\ req \in [Threads -> Requests]
    BY DEF CallsOK, Requests
  <1>p. {"run", "unblock"} \subseteq Points \ {"push", "kick"} /\ {"run", "unblock"} \cap Sleeps = {}
    BY DEF Points, Sleeps
  <1>v. \A u \in Threads : /\ frames[u] \in Seq(SUBSET Signals) /\ view[u] \in Seq(SUBSET Signals)
                           /\ Len(view[u]) = Len(frames[u]) + 1
    BY DEF ContextOK
  <1>1. ASSUME NEW s \in Faults, Fault(t, s) PROVE Inv'
    <2>1. s \in Signals
      BY SignalAssumption
    <2>2. Goto(t, "run", "run") /\ sent' \in 0..MaxSends /\ UNCHANGED <<pending, saved, req, waits>>
      BY <1>1, SignalAssumption DEF Fault, Sends, CallsOK
    <2>3. ContextOK' /\ OnlyAt(t)
      <3>1. CASE s \in mask[t] \/ act[s] = "ignore"
        <4>1. /\ act' = [act EXCEPT ![s] = "default"] /\ mask' = [mask EXCEPT ![t] = @ \ {s}]
              /\ exited' = TRUE /\ UNCHANGED <<frames, active, view>>
          BY <1>1, <3>1 DEF Fault
        <4> QED BY <4>1 DEF ContextOK, OnlyAt, Dispositions
      <3>2. CASE ~(s \in mask[t] \/ act[s] = "ignore")
        BY <1>1, <1>c, <2>1, <3>2, HandleContext DEF Fault
      <3> QED BY <3>1, <3>2
    <2>4. PendingOK'
      BY <2>2 DEF pending, PendingOK
    <2>5. CallsOK' /\ Placed'
      BY <1>c, <1>p, <2>2, <2>3, MoveTypes
    <2> QED BY <2>3, <2>4, <2>5
  <1>2. ASSUME NEW m \in Masks[t], SetMask(t, m) PROVE Inv'
    <2>1. m \in SUBSET Signals
      BY SignalAssumption
    <2>2. /\ Goto(t, "call", "unblock") /\ mask' = [mask EXCEPT ![t] = m]
          /\ view' = [view EXCEPT ![t] = <<m>> \o Tail(view[t])]
          /\ UNCHANGED <<frames, active, act, exited, pending, saved, req, waits, sent>>
      BY <1>2 DEF SetMask
    <2>3. Tail(view[t]) \in Seq(SUBSET Signals) /\ Len(Tail(view[t])) = Len(view[t]) - 1
      BY <1>v, SeqPop
    <2>4. /\ <<m>> \o Tail(view[t]) \in Seq(SUBSET Signals)
          /\ Len(<<m>> \o Tail(view[t])) = Len(view[t])
      BY <1>v, <2>1, <2>3, SeqPush
    <2>5. view' \in [Threads -> Seq(SUBSET Signals)]
      BY <2>2, <2>4 DEF ContextOK
    <2>6. \A u \in Threads : Len(view'[u]) = Len(frames'[u]) + 1
      BY <1>v, <2>2, <2>4 DEF ContextOK
    <2>7. ContextOK' /\ OnlyAt(t)
      BY <2>1, <2>2, <2>5, <2>6 DEF ContextOK, OnlyAt
    <2>8. PendingOK'
      BY <2>2 DEF pending, PendingOK
    <2>9. CallsOK' /\ Placed'
      BY <1>p, <2>2, <2>7, StepTypes
    <2> QED BY <2>7, <2>8, <2>9
  <1>3. CASE Sigreturn(t)
    <2>1. /\ frames[t] # <<>> /\ Goto(t, "call", "unblock")
          /\ mask' = [mask EXCEPT ![t] = Head(frames[t])]
          /\ frames' = [frames EXCEPT ![t] = Tail(frames[t])] /\ view' = [view EXCEPT ![t] = Tail(view[t])]
          /\ UNCHANGED <<active, act, exited, pending, saved, req, waits, sent>>
      BY <1>3 DEF Sigreturn
    <2>2. Len(frames[t]) # 0 /\ Len(view[t]) # 0
      BY <1>v, <2>1
    <2>3. /\ Head(frames[t]) \in SUBSET Signals /\ Tail(frames[t]) \in Seq(SUBSET Signals)
          /\ Len(Tail(frames[t])) = Len(frames[t]) - 1
      BY <1>v, <2>2, SeqPop
    <2>4. Tail(view[t]) \in Seq(SUBSET Signals) /\ Len(Tail(view[t])) = Len(view[t]) - 1
      BY <1>v, <2>2, SeqPop
    <2>5. view' \in [Threads -> Seq(SUBSET Signals)] /\ frames' \in [Threads -> Seq(SUBSET Signals)]
      BY <2>1, <2>3, <2>4 DEF ContextOK
    <2>6. ASSUME NEW u \in Threads PROVE Len(view'[u]) = Len(frames'[u]) + 1
      <3>1. CASE u = t
        <4>1. view'[t] = Tail(view[t]) /\ frames'[t] = Tail(frames[t])
          BY <2>1 DEF ContextOK
        <4>2. Len(frames[t]) \in Nat
          BY <1>v
        <4> QED BY <3>1, <4>1, <4>2, <1>v, <2>3, <2>4
      <3>2. CASE u # t
        BY <3>2, <1>v, <2>1 DEF ContextOK
      <3> QED BY <3>1, <3>2
    <2>7. ContextOK' /\ OnlyAt(t)
      BY <2>1, <2>3, <2>5, <2>6 DEF ContextOK, OnlyAt
    <2>8. PendingOK'
      BY <2>1 DEF pending, PendingOK
    <2>9. CallsOK' /\ Placed'
      BY <1>p, <2>1, <2>7, StepTypes
    <2> QED BY <2>7, <2>8, <2>9
  <1>4. ASSUME NEW a \in Actions, Sigaction(t, a[1], a[2]) PROVE Inv'
    <2>1. a[1] \in Signals /\ a[2] \in Dispositions
      BY SignalAssumption
    <2>2. /\ Goto(t, "call", "run") /\ act' = [act EXCEPT ![a[1]] = a[2]]
          /\ UNCHANGED <<mask, frames, active, view, exited, pending, saved, req, waits, sent>>
      BY <1>4 DEF Sigaction
    <2>3. ContextOK' /\ OnlyAt(t)
      BY <2>1, <2>2 DEF ContextOK, OnlyAt
    <2>4. PendingOK'
      BY <2>2 DEF pending, PendingOK
    <2>5. CallsOK' /\ Placed'
      BY <1>p, <2>2, <2>3, StepTypes
    <2> QED BY <2>3, <2>4, <2>5
  <1> QED BY <1>1, <1>2, <1>3, <1>4

\* rt_sigsuspend and rt_sigtimedwait begin, and the latter times out.
LEMMA GuestWaits ==
  ASSUME Inv, NEW t \in Threads,
         \/ \E m \in SuspendMasks[t] : Suspend(t, m)
         \/ \E W \in WaitSets[t] : Sigwait(t, W)
         \/ WaitEnds(t)
  PROVE  Inv'
  <1> USE DEF Inv
  <1>c. /\ saved \in [Threads -> SUBSET Signals] /\ waits \in [Threads -> SUBSET Signals]
        /\ mask[t] \in SUBSET Signals /\ req \in [Threads -> Requests] /\ sent \in 0..MaxSends
    BY DEF CallsOK, ContextOK, Requests
  <1>p. {"run", "suspend", "wait"} \subseteq Points \ {"push", "kick"} /\ "run" \notin Sleeps
    BY DEF Points, Sleeps
  <1>b. ASSUME NEW to \in Points \ {"push", "kick"}, Goto(t, "call", to),
               NEW m \in SUBSET Signals, Borrow(t, m), waits' \in [Threads -> SUBSET Signals]
        PROVE  Inv'
    <2>1. /\ saved' = [saved EXCEPT ![t] = mask[t]] /\ mask' = [mask EXCEPT ![t] = m]
          /\ active' = [active EXCEPT ![t] = TRUE]
          /\ UNCHANGED <<frames, view, act, exited, pending, req, sent>>
      BY <1>b DEF Borrow, Context
    <2>2. ContextOK' /\ OnlyAt(t) /\ active'[t]
      BY <2>1 DEF ContextOK, OnlyAt
    <2>3. PendingOK'
      BY <2>1 DEF pending, PendingOK
    <2>4. saved' \in [Threads -> SUBSET Signals]
      BY <1>c, <2>1
    <2>5. CallsOK' /\ Placed'
      BY <1>b, <1>c, <2>1, <2>2, <2>4, MoveTypes
    <2> QED BY <2>2, <2>3, <2>5
  <1>1. ASSUME NEW m \in SuspendMasks[t], Suspend(t, m) PROVE Inv'
    <2>1. m \in SUBSET Signals
      BY SignalAssumption
    <2> QED BY <1>1, <1>b, <1>c, <1>p, <2>1 DEF Suspend
  <1>2. ASSUME NEW W \in WaitSets[t], Sigwait(t, W) PROVE Inv'
    <2>1. W \in SUBSET Signals
      BY SignalAssumption
    <2>2. mask[t] \cup W \in SUBSET Signals /\ waits' \in [Threads -> SUBSET Signals]
      BY <1>2, <1>c, <2>1 DEF Sigwait
    <2> QED BY <1>2, <1>b, <1>p, <2>2 DEF Sigwait
  <1>3. CASE WaitEnds(t)
    <2>1. Goto(t, "nap", "run") /\ Restore(t) /\ UNCHANGED <<pending, saved, req, waits, sent>>
      BY <1>3 DEF WaitEnds
    <2>2. ContextOK' /\ PendingOK' /\ OnlyAt(t)
      BY <1>c, <2>1 DEF pending, ContextOK, PendingOK, OnlyAt, Restore, Context
    <2>3. CallsOK' /\ Placed'
      BY <1>p, <2>1, <2>2, StepTypes
    <2> QED BY <2>2, <2>3
  <1> QED BY <1>1, <1>2, <1>3

LEMMA InitInv == Init => Inv
  <1> SUFFICES ASSUME Init PROVE Inv
    OBVIOUS
  <1>1. ContextOK
    <2>1. <<>> \in Seq(SUBSET Signals) /\ <<{}>> \in Seq(SUBSET Signals) /\ Len(<<{}>>) = Len(<<>>) + 1
      OBVIOUS
    <2>2. \A t \in Threads : view[t] = <<{}>> /\ frames[t] = <<>>
      BY DEF Init
    <2>3. frames \in [Threads -> Seq(SUBSET Signals)] /\ view \in [Threads -> Seq(SUBSET Signals)]
      BY <2>1 DEF Init
    <2>4. /\ mask \in [Threads -> SUBSET Signals] /\ active \in [Threads -> BOOLEAN]
          /\ act \in [Signals -> Dispositions] /\ exited \in BOOLEAN
      BY SignalAssumption DEF Init
    <2> QED BY <2>1, <2>2, <2>3, <2>4 DEF ContextOK
  <1>2. PendingOK
    BY SignalAssumption DEF Init, PendingOK
  <1>3. CallsOK
    BY SignalAssumption DEF Init, CallsOK, Points, NoRequest
  <1>4. Placed
    BY DEF Init, Placed, Sleeps
  <1> QED BY <1>1, <1>2, <1>3, <1>4 DEF Inv

LEMMA NextInv == Inv /\ [Next]_vars => Inv'
  <1> SUFFICES ASSUME Inv, [Next]_vars PROVE Inv'
    OBVIOUS
  <1>1. ASSUME NEW t \in Threads, Steps(t) PROVE Inv'
    BY <1>1, DrainSteps, TakeSteps, SendSteps DEF Steps
  <1>2. ASSUME NEW t \in Threads, Guest(t) PROVE Inv'
    BY <1>2, GuestSends, GuestMasks, GuestWaits DEF Guest
  <1>3. CASE UNCHANGED vars
    BY <1>3 DEF vars, Inv, ContextOK, PendingOK, CallsOK, Placed
  <1> QED BY <1>1, <1>2, <1>3 DEF Next

LEMMA InvAlways == Spec => []Inv
  BY InitInv, NextInv, PTL DEF Spec

\* The state has its types, and no thread's queue outgrows PENDING_QUEUE_CAP
\* whatever overflows: CPU::push_pending, pop_pending, deliver_signal.
THEOREM SignalTypes == Spec => []TypeOK
  <1>1. Inv => TypeOK
    BY DEF Inv, ContextOK, PendingOK, CallsOK, Placed, Sleeps, TypeOK
  <1> QED BY <1>1, InvAlways, PTL

-----------------------------------------------------------------------------
(* No signal is lost. *)

LEMMA PendingIs ==
  ASSUME NEW t \in Threads
  PROVE  /\ PendingAt(t) = sigpending[t] \cup Signos(queue[t])
         /\ (PendingAt(t))' = sigpending'[t] \cup Signos(queue'[t])
  BY DEF PendingAt, Signos

\* A thread that settles S may stop having S pending, itself and as one of the
\* process; every other signal stays where it was.
LEMMA SettledKept ==
  ASSUME PendingOK, NoSignalLost, NEW t \in Threads, NEW S, Settle(t, S),
         \A u \in Threads : \A s \in PendingAt(u) : s \in (PendingAt(u))' \/ (u = t /\ s \in S),
         \A s \in shared : s \in shared' \/ s \in S
  PROVE  NoSignalLost'
  <1> SUFFICES ASSUME NEW w \in owed'
               PROVE  IF w[1] = Process
                      THEN w[2] \in shared' \cup UNION {(PendingAt(u))' : u \in Threads}
                      ELSE w[2] \in (PendingAt(w[1]))'
    BY DEF NoSignalLost
  <1>1. w \in owed /\ w \notin {t, Process} \X S
    BY DEF Settle
  <1>2. w \in (Threads \cup {Process}) \X Signals
    BY <1>1 DEF PendingOK
  <1>3. IF w[1] = Process THEN w[2] \in shared \cup UNION {PendingAt(u) : u \in Threads}
                          ELSE w[2] \in PendingAt(w[1])
    BY <1>1 DEF NoSignalLost
  <1>4. w = <<w[1], w[2]>> /\ (w[1] \in {t, Process} => w[2] \notin S)
    BY <1>1, <1>2
  <1>5. CASE w[1] = Process
    <2>1. w[2] \notin S
      BY <1>4, <1>5
    <2>2. CASE w[2] \in shared
      BY <1>5, <2>1, <2>2
    <2>3. CASE w[2] \notin shared
      <3>1. PICK u \in Threads : w[2] \in PendingAt(u)
        BY <1>3, <1>5, <2>3
      <3>2. w[2] \in (PendingAt(u))'
        BY <2>1, <3>1
      <3> QED BY <1>5, <3>2
    <2> QED BY <2>2, <2>3
  <1>6. CASE w[1] # Process
    BY <1>2, <1>3, <1>4, <1>6
  <1> QED BY <1>5, <1>6

\* A send adds what it owes where it will be looked for.
LEMMA AddedKept ==
  ASSUME PendingOK, NoSignalLost, NEW o, NEW s, owed' = owed \cup {<<o, s>>},
         \A u \in Threads : PendingAt(u) \subseteq (PendingAt(u))', shared \subseteq shared',
         \/ o = Process /\ s \in shared'
         \/ \E u \in Threads : s \in (PendingAt(u))' /\ o \in {u, Process}
  PROVE  NoSignalLost'
  <1> SUFFICES ASSUME NEW w \in owed'
               PROVE  IF w[1] = Process
                      THEN w[2] \in shared' \cup UNION {(PendingAt(u))' : u \in Threads}
                      ELSE w[2] \in (PendingAt(w[1]))'
    BY DEF NoSignalLost
  <1>1. CASE w \in owed
    <2>1. w \in (Threads \cup {Process}) \X Signals
      BY <1>1 DEF PendingOK
    <2>2. IF w[1] = Process THEN w[2] \in shared \cup UNION {PendingAt(u) : u \in Threads}
                            ELSE w[2] \in PendingAt(w[1])
      BY <1>1 DEF NoSignalLost
    <2>3. CASE w[1] = Process
      <3>1. CASE w[2] \in shared
        BY <2>3, <3>1
      <3>2. CASE w[2] \notin shared
        <4>1. PICK u \in Threads : w[2] \in PendingAt(u)
          BY <2>2, <2>3, <3>2
        <4>2. w[2] \in (PendingAt(u))'
          BY <4>1
        <4> QED BY <2>3, <4>2
      <3> QED BY <3>1, <3>2
    <2>4. CASE w[1] # Process
      BY <2>1, <2>2, <2>4
    <2> QED BY <2>3, <2>4
  <1>2. CASE w = <<o, s>>
    <2>1. w[1] = o /\ w[2] = s
      BY <1>2
    <2>2. CASE o = Process
      BY <2>1, <2>2
    <2>3. CASE o # Process
      BY <2>1, <2>3
    <2> QED BY <2>2, <2>3
  <1> QED BY <1>1, <1>2

\* What leaves a queue is what was taken out of it.
LEMMA TakenKept ==
  ASSUME PendingOK, NEW t \in Threads, NEW out, Taken(t, out)
  PROVE  /\ Signos(queue[t]) \subseteq Signos(queue'[t]) \cup {queue[t][i].signo : i \in out}
         /\ \A u \in Threads : u # t => queue'[u] = queue[u]
  <1> DEFINE P == (1..Len(queue[t])) \ out
  <1>1. queue[t] \in Seq(Entry) /\ P \in SUBSET (1..Len(queue[t])) /\ DOMAIN queue[t] = 1..Len(queue[t])
    BY DEF PendingOK
  <1>2. Signos(Keep(queue[t], P)) = {queue[t][i].signo : i \in P}
    <2> HIDE DEF P
    <2> QED BY <1>1, KeepSignos
  <1>3. Signos(queue[t]) \subseteq Signos(Keep(queue[t], P)) \cup {queue[t][i].signo : i \in out}
    BY <1>1, <1>2 DEF Signos
  <1>4. queue'[t] = Keep(queue[t], P) /\ \A u \in Threads : u # t => queue'[u] = queue[u]
    BY DEF Taken, PendingOK
  <1> HIDE DEF P
  <1>5. PICK x : x = queue'[t] /\ x = Keep(queue[t], P)
    BY <1>4
  <1> QED BY <1>3, <1>4, <1>5

LEMMA DeliverKept ==
  ASSUME PendingOK, NoSignalLost, NEW t \in Threads, DeliverPending(t)
  PROVE  NoSignalLost'
  <1>1. PICK s \in Signals :
           /\ Settle(t, {s})
           /\ \/ sigpending' = [sigpending EXCEPT ![t] = @ \ {s}] /\ shared' = shared
              \/ shared' = shared \ {s} /\ sigpending' = sigpending
    BY DeliversOne
  <1>2. queue' = queue
    BY DeliversOne
  <1>3. ASSUME NEW u \in Threads, NEW r \in PendingAt(u)
        PROVE  r \in (PendingAt(u))' \/ (u = t /\ r \in {s})
    BY <1>1, <1>2, <1>3, PendingIs DEF PendingOK
  <1>4. \A r \in shared : r \in shared' \/ r \in {s}
    BY <1>1
  <1> QED BY <1>1, <1>3, <1>4, SettledKept

LEMMA DrainKept ==
  ASSUME PendingOK, NoSignalLost, NEW t \in Threads, NEW from, NEW to, DrainQueue(t, from, to)
  PROVE  NoSignalLost'
  <1>1. PICK out : Taken(t, out) /\ Settle(t, {queue[t][i].signo : i \in out})
    BY DrainsSome
  <1>2. UNCHANGED <<sigpending, shared>>
    BY DrainsSome
  <1> DEFINE S == {queue[t][i].signo : i \in out}
  <1>3. Signos(queue[t]) \subseteq Signos(queue'[t]) \cup S /\ \A u \in Threads : u # t => queue'[u] = queue[u]
    BY <1>1, TakenKept
  <1>4. Settle(t, S)
    BY <1>1
  <1> HIDE DEF S
  <1>5. ASSUME NEW u \in Threads, NEW r \in PendingAt(u)
        PROVE  r \in (PendingAt(u))' \/ (u = t /\ r \in S)
    <2>1. CASE u = t
      BY <1>2, <1>3, <2>1, PendingIs
    <2>2. CASE u # t
      BY <1>2, <1>3, <2>2, PendingIs
    <2> QED BY <2>1, <2>2
  <1> QED BY <1>2, <1>4, <1>5, SettledKept

\* rt_sigtimedwait settles what it returns, and folds the rest into sigpending.
LEMMA WaitKept ==
  ASSUME PendingOK, NoSignalLost, NEW t \in Threads, WaitQueue(t)
  PROVE  NoSignalLost'
  <1>1. PICK out, S :
           /\ Taken(t, out)
           /\ sigpending' = [sigpending EXCEPT ![t] = @ \cup ({queue[t][i].signo : i \in out} \ waits[t])]
           /\ \A i \in out : queue[t][i].signo \in waits[t] => queue[t][i].signo \in S
           /\ Settle(t, S)
    BY WaitTakesSome
  <1>2. shared' = shared
    BY WaitTakesSome
  <1> DEFINE T == {queue[t][i].signo : i \in out}
  <1>3. Signos(queue[t]) \subseteq Signos(queue'[t]) \cup T /\ \A u \in Threads : u # t => queue'[u] = queue[u]
    BY <1>1, TakenKept
  <1>4. \A s \in T : s \in S \/ s \notin waits[t]
    BY <1>1
  <1>5. /\ sigpending'[t] = sigpending[t] \cup (T \ waits[t])
        /\ \A u \in Threads : u # t => sigpending'[u] = sigpending[u]
    BY <1>1 DEF PendingOK
  <1> HIDE DEF T
  <1>6. ASSUME NEW u \in Threads, NEW r \in PendingAt(u)
        PROVE  r \in (PendingAt(u))' \/ (u = t /\ r \in S)
    <2>1. CASE u = t
      BY <1>3, <1>4, <1>5, <2>1, PendingIs
    <2>2. CASE u # t
      BY <1>3, <1>5, <2>2, PendingIs
    <2> QED BY <2>1, <2>2
  <1> QED BY <1>1, <1>2, <1>6, SettledKept

LEMMA TakeKept ==
  ASSUME Inv, NoSignalLost, NEW t \in Threads, WaitTake(t)
  PROVE  NoSignalLost'
  <1> DEFINE own == sigpending[t] \cap waits[t]
             all == shared \cap waits[t]
  <1>0. PendingOK /\ queue' = queue
    BY DEF Inv, WaitTake
  <1>1. CASE own # {}
    <2>1. sigpending' = [sigpending EXCEPT ![t] = @ \ {Lowest(own)}] /\ shared' = shared /\ Settle(t, {Lowest(own)})
      BY <1>1 DEF WaitTake, Returns
    <2> HIDE DEF own
    <2>2. ASSUME NEW u \in Threads, NEW r \in PendingAt(u)
          PROVE  r \in (PendingAt(u))' \/ (u = t /\ r \in {Lowest(own)})
      BY <1>0, <2>1, PendingIs DEF PendingOK
    <2> QED BY <1>0, <2>1, <2>2, SettledKept
  <1>2. CASE own = {} /\ all # {}
    <2>1. sigpending' = sigpending /\ shared' = shared \ {Lowest(all)} /\ Settle(t, {Lowest(all)})
      BY <1>2 DEF WaitTake, Returns
    <2> HIDE DEF all
    <2>2. ASSUME NEW u \in Threads, NEW r \in PendingAt(u)
          PROVE  r \in (PendingAt(u))' \/ (u = t /\ r \in {Lowest(all)})
      BY <1>0, <2>1, PendingIs
    <2> QED BY <1>0, <2>1, <2>2, SettledKept
  <1>3. CASE own = {} /\ all = {}
    BY <1>0, <1>3 DEF WaitTake, NoSignalLost, PendingAt
  <1> QED BY <1>1, <1>2, <1>3

LEMMA PushKept ==
  ASSUME Inv, NoSignalLost, NEW t \in Threads, Push(t)
  PROVE  NoSignalLost'
  <1>0. PendingOK /\ req \in [Threads -> Requests]
    BY DEF Inv, CallsOK, Requests
  <1>a. PICK u, s : u = req[t].to /\ s = req[t].signo
    OBVIOUS
  <1> DEFINE e == [signo |-> s, group |-> req[t].group]
  <1>1. u \in Threads /\ s \in Signals /\ req[t].group \in BOOLEAN
    BY <1>0, <1>a DEF Inv, Push, Goto, Placed, Requests
  <1>2. PICK o \in {u, Process} : owed' = owed \cup {<<o, s>>}
    BY <1>a DEF Push
  <1>3. shared' = shared
    BY DEF Push
  <1>4. /\ \A v \in Threads : PendingAt(v) \subseteq (PendingAt(v))'
        /\ s \in (PendingAt(u))'
    <2>1. CASE Len(queue[u]) < Cap
      <3>1. queue' = [queue EXCEPT ![u] = Append(queue[u], e)] /\ sigpending' = sigpending
        BY <1>a, <2>1 DEF Push
      <3>2. queue[u] \in Seq(Entry) /\ e.signo = s
        BY <1>0, <1>1 DEF PendingOK
      <3> HIDE DEF e
      <3>3. PICK x : x = Append(queue[u], e)
        OBVIOUS
      <3>4. /\ \A i \in DOMAIN queue[u] : i \in DOMAIN x /\ x[i] = queue[u][i]
            /\ Len(queue[u]) + 1 \in DOMAIN x /\ x[Len(queue[u]) + 1] = e
        BY <3>2, <3>3
      <3>5. Signos(queue[u]) \subseteq Signos(x) /\ s \in Signos(x)
        BY <3>2, <3>4 DEF Signos
      <3>6. queue'[u] = x /\ \A v \in Threads : v # u => queue'[v] = queue[v]
        BY <1>0, <1>1, <3>1, <3>3 DEF PendingOK
      <3>7. ASSUME NEW v \in Threads PROVE PendingAt(v) \subseteq (PendingAt(v))'
        <4>1. CASE v = u
          BY <3>1, <3>5, <3>6, <4>1, PendingIs
        <4>2. CASE v # u
          BY <3>1, <3>6, <4>2, PendingIs
        <4> QED BY <4>1, <4>2
      <3>8. s \in (PendingAt(u))'
        BY <1>1, <3>5, <3>6, PendingIs
      <3> QED BY <3>7, <3>8
    <2>2. CASE ~(Len(queue[u]) < Cap)
      <3>1. sigpending' = [sigpending EXCEPT ![u] = @ \cup {s}] /\ queue' = queue
        BY <1>a, <2>2 DEF Push
      <3> QED BY <1>0, <1>1, <3>1, PendingIs DEF PendingOK
    <2> QED BY <2>1, <2>2
  <1> QED BY <1>0, <1>1, <1>2, <1>3, <1>4, AddedKept

LEMMA SelfKept ==
  ASSUME PendingOK, NoSignalLost, NEW t \in Threads, NEW s \in Signals,
         NEW owner \in {t, Process}, Self(t, s, owner)
  PROVE  NoSignalLost'
  <1>1. UNCHANGED <<queue, shared>>
    BY DEF Self
  <1>2. CASE s \in mask[t]
    <2>1. sigpending' = [sigpending EXCEPT ![t] = @ \cup {s}] /\ owed' = owed \cup {<<owner, s>>}
      BY <1>2 DEF Self
    <2>2. /\ \A u \in Threads : PendingAt(u) \subseteq (PendingAt(u))'
          /\ s \in (PendingAt(t))'
      BY <1>1, <2>1, PendingIs DEF PendingOK
    <2> QED BY <1>1, <2>1, <2>2, AddedKept
  <1>3. CASE s \notin mask[t]
    <2>1. Settle(t, {s}) /\ sigpending' = sigpending
      BY <1>3 DEF Self
    <2>2. ASSUME NEW u \in Threads, NEW r \in PendingAt(u) PROVE r \in (PendingAt(u))'
      BY <1>1, <2>1, PendingIs
    <2> QED BY <1>1, <2>1, <2>2, SettledKept
  <1> QED BY <1>2, <1>3

LEMMA ShareKept ==
  ASSUME Inv, NoSignalLost, NEW t \in Threads, Share(t)
  PROVE  NoSignalLost'
  <1> DEFINE s == req[t].signo
  <1>1. shared' = shared \cup {s} /\ owed' = owed \cup {<<Process, s>>} /\ UNCHANGED <<queue, sigpending>>
    BY DEF Share
  <1>2. \A u \in Threads : PendingAt(u) \subseteq (PendingAt(u))'
    BY <1>1, PendingIs
  <1> QED BY <1>1, <1>2, AddedKept DEF Inv

LEMMA InitLost == Init => NoSignalLost
  BY DEF Init, NoSignalLost

LEMMA NextLost == Inv /\ NoSignalLost /\ [Next]_vars => NoSignalLost'
  <1> SUFFICES ASSUME Inv, NoSignalLost, [Next]_vars PROVE NoSignalLost'
    OBVIOUS
  <1>0. PendingOK
    BY DEF Inv
  <1>u. CASE UNCHANGED pending
    BY <1>u DEF pending, NoSignalLost, PendingAt
  <1>1. ASSUME NEW t \in Threads, Steps(t) PROVE NoSignalLost'
    <2>1. CASE Drain(t) \/ SuspendDrain(t) \/ Woken(t)
      BY <2>1, <1>0, DrainKept DEF Drain, SuspendDrain, Woken
    <2>2. CASE Drained(t) \/ SuspendDrained(t) \/ SuspendEnds(t)
      BY <2>2, <1>0, <1>u, DeliverKept DEF Drained, SuspendDrained, SuspendEnds, DrainShared, NoneShared
    <2>3. CASE Unblock(t) \/ SuspendPending(t) \/ WaitOther(t)
      BY <2>3, <1>0, <1>u, DeliverKept DEF Unblock, SuspendPending, WaitOther, NothingPending
    <2>4. CASE Resume(t) \/ Sleep(t) \/ Nap(t) \/ Kick(t) \/ KillsTarget(t)
      BY <2>4, <1>u DEF Resume, Sleep, Nap, Kick, KillsTarget
    <2>5. CASE WaitQueue(t)
      BY <2>5, <1>0, WaitKept
    <2>6. CASE WaitTake(t)
      BY <2>6, TakeKept
    <2>7. CASE Push(t)
      BY <2>7, PushKept
    <2>8. CASE Share(t)
      BY <2>8, ShareKept
    <2> QED BY <1>1, <2>1, <2>2, <2>3, <2>4, <2>5, <2>6, <2>7, <2>8 DEF Steps
  <1>2. ASSUME NEW t \in Threads, Guest(t) PROVE NoSignalLost'
    <2>1. ASSUME NEW s \in Signals, TgkillSelf(t, s) \/ KillSelf(t, s) PROVE NoSignalLost'
      BY <2>1, <1>0, SelfKept DEF TgkillSelf, KillSelf
    <2>2. ASSUME NEW s \in Signals, Kill(t, s) \/ \E u \in Threads : Tgkill(t, u, s) PROVE NoSignalLost'
      BY <2>2, <1>u DEF Kill, Tgkill, Asks
    <2>3. CASE \E s \in Faults : Fault(t, s)
      BY <2>3, <1>u DEF Fault
    <2>4. CASE (\E m \in Masks[t] : SetMask(t, m)) \/ Sigreturn(t) \/ \E a \in Actions : Sigaction(t, a[1], a[2])
      BY <2>4, <1>u DEF SetMask, Sigreturn, Sigaction
    <2>5. CASE (\E m \in SuspendMasks[t] : Suspend(t, m)) \/ (\E W \in WaitSets[t] : Sigwait(t, W)) \/ WaitEnds(t)
      BY <2>5, <1>u DEF Suspend, Sigwait, WaitEnds, Borrow
    <2> QED BY <1>2, <2>1, <2>2, <2>3, <2>4, <2>5 DEF Guest
  <1>3. CASE UNCHANGED vars
    BY <1>3, <1>u DEF vars, pending
  <1> QED BY <1>1, <1>2, <1>3 DEF Next

\* A signal that was sent and not acted on since is pending where its thread,
\* or for a process-directed one some thread, looks for it: through overflows
\* of the queue, folds into sigpending and the sweeps of rt_sigtimedwait.
THEOREM NothingLost == Spec => []NoSignalLost
  <1>1. Inv /\ NoSignalLost /\ [Next]_vars => NoSignalLost'
    BY NextLost
  <1> QED BY <1>1, InitLost, InvAlways, PTL DEF Spec

-----------------------------------------------------------------------------
(* Guest code runs under the masks it asked for. *)

\* No signal is ever ignored: none is installed so, and the default action of
\* each kills.  (deliver_pending_signals reports an ignored signal as
\* delivered, and rt_sigsuspend then keeps its temporary mask.)
NothingIgnored ==
    /\ \A s \in Signals : Installed[s] # "ignore"
    /\ \A a \in Actions : a[2] # "ignore"
    /\ Fatal = Signals

\* The threads that call rt_sigsuspend or rt_sigtimedwait.
Borrows(t) == SuspendMasks[t] # {} \/ WaitSets[t] # {}

Heeding == NothingIgnored => \A s \in Signals : act[s] # "ignore"

\* The mask the guest has asked for, or lent to a system call, and below it
\* those its frames restore.
Asked(t) == <<IF active[t] THEN saved[t] ELSE mask[t]>> \o frames[t]

Lent(t) ==
    /\ view[t] = Asked(t)
    /\ active[t] <=> pc[t] \in Sleeps
    /\ pc[t] \in Sleeps => Borrows(t)

MaskInv == Heeding /\ (~exited => \A t \in Threads : Lent(t))

\* Only t's masks and frames move.
Elsewhere(t) ==
    \A u \in Threads \ {t} :
        /\ mask'[u] = mask[u] /\ saved'[u] = saved[u] /\ active'[u] = active[u]
        /\ frames'[u] = frames[u] /\ view'[u] = view[u]

LEMMA ConsFacts ==
  ASSUME NEW m \in SUBSET Signals, NEW s \in Seq(SUBSET Signals)
  PROVE  Head(<<m>> \o s) = m /\ Tail(<<m>> \o s) = s /\ <<m>> \o s # <<>>
  OBVIOUS

\* The mask deliver_signal saves in the frame is the one the guest asked for.
LEMMA HandleLent ==
  ASSUME Inv, NEW t \in Threads, NEW s \in Signals, Handle(t, s),
         view[t] = Asked(t), UNCHANGED saved
  PROVE  /\ Elsewhere(t)
         /\ view'[t] = <<IF active'[t] THEN saved'[t] ELSE mask'[t]>> \o frames'[t]
         /\ act[s] = "handler" => active'[t] = FALSE
         /\ act[s] # "handler" => active'[t] = active[t]
         /\ exited' = Kills(s)
         /\ Heeding => Heeding'
  <1> DEFINE back == IF active[t] THEN saved[t] ELSE mask[t]
             more == SaMask[s] \cup ({s} \ NoDefer)
  <1>0. /\ mask \in [Threads -> SUBSET Signals] /\ saved \in [Threads -> SUBSET Signals]
        /\ active \in [Threads -> BOOLEAN] /\ act \in [Signals -> Dispositions]
        /\ frames \in [Threads -> Seq(SUBSET Signals)] /\ view \in [Threads -> Seq(SUBSET Signals)]
    BY DEF Inv, ContextOK, CallsOK
  <1>1. exited' = Kills(s)
    BY DEF Handle
  <1>2. CASE act[s] = "handler"
    <2>1. /\ frames' = [frames EXCEPT ![t] = <<back>> \o frames[t]]
          /\ mask' = [mask EXCEPT ![t] = back \cup more] /\ active' = [active EXCEPT ![t] = FALSE]
          /\ view' = [view EXCEPT ![t] = <<Head(view[t]) \cup more>> \o view[t]]
          /\ act' = IF s \in ResetHand THEN [act EXCEPT ![s] = "default"] ELSE act
      BY <1>2 DEF Handle, Context
    <2>2. back \in SUBSET Signals /\ view[t] = <<back>> \o frames[t]
      BY <1>0 DEF Asked
    <2> HIDE DEF back, more
    <2>3. Head(view[t]) = back
      BY <1>0, <2>2, ConsFacts
    <2>4. view'[t] = <<back \cup more>> \o view[t] /\ frames'[t] = view[t]
      BY <1>0, <2>1, <2>2, <2>3
    <2>5. mask'[t] = back \cup more /\ active'[t] = FALSE
      BY <1>0, <2>1
    <2>6. view'[t] = <<IF active'[t] THEN saved'[t] ELSE mask'[t]>> \o frames'[t]
      BY <2>4, <2>5
    <2>7. Heeding => Heeding'
      BY <1>0, <2>1 DEF Heeding, NothingIgnored
    <2>8. Elsewhere(t)
      BY <1>0, <2>1 DEF Elsewhere
    <2> QED BY <1>1, <1>2, <2>5, <2>6, <2>7, <2>8
  <1>3. CASE act[s] # "handler"
    <2>1. UNCHANGED <<frames, mask, active, view, act>>
      BY <1>3 DEF Handle
    <2> QED BY <1>1, <1>3, <2>1 DEF Elsewhere, Asked, Heeding
  <1> QED BY <1>2, <1>3

\* A thread that moves keeps the invariant if it keeps it for itself.
LEMMA LentMove ==
  ASSUME Inv, MaskInv, NEW t \in Threads, NEW from, NEW to, Goto(t, from, to), Elsewhere(t), Heeding',
         ~exited' => /\ view'[t] = <<IF active'[t] THEN saved'[t] ELSE mask'[t]>> \o frames'[t]
                     /\ active'[t] <=> to \in Sleeps
                     /\ to \in Sleeps => Borrows(t)
  PROVE  MaskInv'
  <1>1. pc' = [pc EXCEPT ![t] = to] /\ pc \in [Threads -> Points] /\ ~exited
    BY DEF Goto, Inv, CallsOK
  <1> SUFFICES ASSUME ~exited', NEW u \in Threads
               PROVE  /\ view'[u] = <<IF active'[u] THEN saved'[u] ELSE mask'[u]>> \o frames'[u]
                      /\ active'[u] <=> pc'[u] \in Sleeps
                      /\ pc'[u] \in Sleeps => Borrows(u)
    BY DEF MaskInv, Lent, Asked, Borrows
  <1>2. CASE u = t
    BY <1>1, <1>2
  <1>3. CASE u # t
    <2>1. pc'[u] = pc[u]
      BY <1>1, <1>3
    <2>2. Lent(u)
      BY <1>1 DEF MaskInv
    <2>3. /\ mask'[u] = mask[u] /\ saved'[u] = saved[u] /\ active'[u] = active[u]
          /\ frames'[u] = frames[u] /\ view'[u] = view[u]
      BY <1>3 DEF Elsewhere
    <2> QED BY <2>1, <2>2, <2>3 DEF Lent, Asked
  <1> QED BY <1>2, <1>3

LEMMA LentNow ==
  ASSUME MaskInv, NEW t \in Threads, NEW from, NEW to, Goto(t, from, to)
  PROVE  /\ Heeding /\ view[t] = Asked(t)
         /\ active[t] <=> from \in Sleeps
         /\ from \in Sleeps => Borrows(t)
  BY DEF MaskInv, Lent, Goto

\* Nothing but the place of the thread, within a call or outside of them.
LEMMA LentStill ==
  ASSUME Inv, MaskInv, NEW t \in Threads, NEW from, NEW to, Goto(t, from, to),
         to \in Sleeps <=> from \in Sleeps, UNCHANGED <<context, saved>>
  PROVE  MaskInv'
  <1>1. Elsewhere(t) /\ Heeding'
    BY LentNow DEF Elsewhere, context, Heeding
  <1>2. /\ view'[t] = <<IF active'[t] THEN saved'[t] ELSE mask'[t]>> \o frames'[t]
        /\ active'[t] <=> to \in Sleeps
        /\ to \in Sleeps => Borrows(t)
    BY LentNow DEF context, Asked
  <1> QED BY <1>1, <1>2, LentMove

\* A handler that starts, or a signal without effect outside the calls.
LEMMA LentHandle ==
  ASSUME Inv, MaskInv, NEW t \in Threads, NEW from, NEW s \in Signals,
         Goto(t, from, "run"), Handle(t, s), UNCHANGED saved,
         from \in Sleeps => act[s] = "handler" \/ Kills(s)
  PROVE  MaskInv'
  <1>1. /\ Elsewhere(t)
        /\ view'[t] = <<IF active'[t] THEN saved'[t] ELSE mask'[t]>> \o frames'[t]
        /\ act[s] = "handler" => active'[t] = FALSE
        /\ act[s] # "handler" => active'[t] = active[t]
        /\ exited' = Kills(s) /\ Heeding'
    BY LentNow, HandleLent
  <1>2. "run" \notin Sleeps
    BY DEF Sleeps
  <1>3. active[t] <=> from \in Sleeps
    BY LentNow
  <1>4. ~exited' => ~active'[t]
    <2>1. CASE act[s] = "handler"
      BY <2>1, <1>1
    <2>2. CASE Kills(s)
      BY <2>2, <1>1
    <2>3. CASE from \notin Sleeps /\ act[s] # "handler"
      BY <2>3, <1>1, <1>3
    <2> QED BY <2>1, <2>2, <2>3
  <1> QED BY <1>1, <1>2, <1>4, LentMove

\* The saved mask is given back.
LEMMA LentRestore ==
  ASSUME Inv, MaskInv, NEW t \in Threads, NEW from \in Sleeps,
         Goto(t, from, "run"), Restore(t), UNCHANGED saved
  PROVE  MaskInv'
  <1>0. /\ mask \in [Threads -> SUBSET Signals] /\ active \in [Threads -> BOOLEAN]
        /\ "run" \notin Sleeps
    BY DEF Inv, ContextOK, Sleeps
  <1>1. mask' = [mask EXCEPT ![t] = saved[t]] /\ active' = [active EXCEPT ![t] = FALSE]
        /\ UNCHANGED <<frames, view, act, exited>>
    BY DEF Restore, Context
  <1>2. view[t] = Asked(t) /\ Heeding /\ active[t]
    BY LentNow
  <1>3. Elsewhere(t) /\ Heeding'
    BY <1>0, <1>1, <1>2 DEF Elsewhere, Heeding
  <1>4. view'[t] = <<IF active'[t] THEN saved'[t] ELSE mask'[t]>> \o frames'[t] /\ ~active'[t]
    BY <1>0, <1>1, <1>2 DEF Asked
  <1> QED BY <1>0, <1>3, <1>4, LentMove

\* A mask is lent.
LEMMA LentBorrow ==
  ASSUME Inv, MaskInv, NEW t \in Threads, NEW to \in Sleeps, NEW m,
         Goto(t, "call", to), Borrow(t, m), Borrows(t)
  PROVE  MaskInv'
  <1>0. /\ mask \in [Threads -> SUBSET Signals] /\ active \in [Threads -> BOOLEAN]
        /\ saved \in [Threads -> SUBSET Signals] /\ "call" \notin Sleeps
    BY DEF Inv, ContextOK, CallsOK, Sleeps
  <1>1. /\ saved' = [saved EXCEPT ![t] = mask[t]] /\ mask' = [mask EXCEPT ![t] = m]
        /\ active' = [active EXCEPT ![t] = TRUE]
        /\ UNCHANGED <<frames, view, act, exited>>
    BY DEF Borrow, Context
  <1>2. view[t] = Asked(t) /\ Heeding /\ ~active[t]
    BY <1>0, LentNow
  <1>3. Elsewhere(t) /\ Heeding'
    BY <1>0, <1>1, <1>2 DEF Elsewhere, Heeding
  <1>4. view'[t] = <<IF active'[t] THEN saved'[t] ELSE mask'[t]>> \o frames'[t] /\ active'[t]
    BY <1>0, <1>1, <1>2 DEF Asked
  <1> QED BY <1>0, <1>3, <1>4, LentMove

-----------------------------------------------------------------------------
\* What OwnMask rests on: a thread that calls rt_sigsuspend or rt_sigtimedwait
\* is in a process that ignores no signal.
MasksHeld == \A t \in Threads : Borrows(t) => NothingIgnored

LEMMA LentDeliver ==
  ASSUME MasksHeld, Inv, MaskInv, NEW t \in Threads, NEW from, DeliverPending(t), Goto(t, from, "run")
  PROVE  MaskInv'
  <1>0. PendingOK /\ act \in [Signals -> Dispositions]
    BY DEF Inv, ContextOK
  <1>1. PICK s \in Signals : Handle(t, s)
    BY <1>0, DeliversOne
  <1>2. UNCHANGED saved
    BY <1>0, DeliversOne
  <1>3. from \in Sleeps => act[s] = "handler" \/ Kills(s)
    <2>1. from \in Sleeps => NothingIgnored /\ Heeding
      BY LentNow DEF MasksHeld
    <2> QED BY <1>0, <2>1 DEF Heeding, NothingIgnored, Kills, Dispositions
  <1> QED BY <1>1, <1>2, <1>3, LentHandle

LEMMA LentDrain ==
  ASSUME Inv, MaskInv, NEW t \in Threads, NEW from, NEW to, DrainQueue(t, from, to),
         to \in Sleeps <=> from \in Sleeps
  PROVE  MaskInv'
  <1>0. PendingOK
    BY DEF Inv
  <1>1. /\ \/ Goto(t, from, to) /\ UNCHANGED context
           \/ Goto(t, from, "run")
              /\ \E s \in Signals : Handle(t, s) /\ (act[s] = "handler" \/ Kills(s))
        /\ UNCHANGED saved
    BY <1>0, DrainsSome
  <1> QED BY <1>1, LentStill, LentHandle

LEMMA MaskSteps ==
  ASSUME MasksHeld, Inv, MaskInv, NEW t \in Threads, Steps(t)
  PROVE  MaskInv'
  <1>p. /\ {"suspend", "drain", "drained", "enter", "sleep", "woken", "settled", "wait",
            "take", "other", "nap"} \subseteq Sleeps
        /\ {"run", "shared", "call", "unblock", "push", "kick"} \cap Sleeps = {}
    BY DEF Sleeps
  <1>0. PendingOK
    BY DEF Inv
  <1>1. CASE Drain(t)
    BY <1>1, <1>p, LentDrain DEF Drain
  <1>2. CASE Drained(t)
    BY <1>2, <1>p, LentDeliver, LentStill DEF Drained, DrainShared, NoneShared
  <1>3. CASE Resume(t)
    BY <1>3, <1>p, LentStill DEF Resume
  <1>4. CASE Unblock(t)
    BY <1>4, <1>p, LentDeliver, LentStill DEF Unblock, NothingPending
  <1>5. CASE Share(t)
    BY <1>5, <1>p, LentStill DEF Share
  <1>6. CASE KillsTarget(t)
    <2>1. Goto(t, "push", "run") /\ exited' = TRUE /\ UNCHANGED <<mask, frames, active, view, act, saved>>
      BY <1>6 DEF KillsTarget
    <2>2. Elsewhere(t) /\ Heeding'
      BY <2>1, LentNow DEF Elsewhere, Heeding
    <2> QED BY <2>1, <2>2, LentMove
  <1>7. CASE Push(t)
    BY <1>7, <1>p, LentStill DEF Push
  <1>8. CASE Kick(t)
    <2>1. /\ ~exited /\ pc[t] = "kick" /\ UNCHANGED <<mask, frames, active, view, act, exited, saved>>
          /\ \A v \in Threads : \/ v = t /\ pc'[v] = "run"
                                \/ pc'[v] = "woken" /\ pc[v] = "sleep"
                                \/ v # t /\ pc'[v] = pc[v]
      BY <1>8 DEF Kick, context
    <2>2. ASSUME NEW v \in Threads PROVE Lent(v)'
      <3>1. Lent(v)
        BY <2>1 DEF MaskInv
      <3>2. pc'[v] \in Sleeps <=> pc[v] \in Sleeps
        BY <2>1, <1>p
      <3> QED BY <2>1, <3>1, <3>2 DEF Lent, Asked, Borrows
    <2> QED BY <2>1, <2>2 DEF MaskInv, Heeding
  <1>9. CASE SuspendPending(t)
    BY <1>9, <1>p, LentDeliver, LentStill DEF SuspendPending, NothingPending
  <1>10. CASE SuspendDrain(t)
    BY <1>10, <1>p, LentDrain DEF SuspendDrain
  <1>11. CASE SuspendDrained(t)
    BY <1>11, <1>p, LentDeliver, LentStill DEF SuspendDrained, DrainShared, NoneShared
  <1>12. CASE Sleep(t)
    BY <1>12, <1>p, LentStill DEF Sleep
  <1>13. CASE Woken(t)
    BY <1>13, <1>p, LentDrain DEF Woken
  <1>14. CASE SuspendEnds(t)
    BY <1>14, <1>p, LentDeliver, LentRestore DEF SuspendEnds, DrainShared, NoneShared
  <1>15. CASE WaitQueue(t)
    <2>1. /\ \/ Goto(t, "wait", "run") /\ Restore(t)
             \/ Goto(t, "wait", "take") /\ UNCHANGED context
          /\ UNCHANGED saved
      BY <1>0, <1>15, WaitTakesSome
    <2> QED BY <2>1, <1>p, LentRestore, LentStill
  <1>16. CASE WaitTake(t)
    <2>1. /\ \/ Goto(t, "take", "run") /\ Restore(t)
             \/ Goto(t, "take", "other") /\ UNCHANGED context
          /\ UNCHANGED saved
      BY <1>16 DEF WaitTake, Returns
    <2> QED BY <2>1, <1>p, LentRestore, LentStill
  <1>17. CASE WaitOther(t)
    BY <1>17, <1>p, LentDeliver, LentStill DEF WaitOther, NothingPending
  <1>18. CASE Nap(t)
    BY <1>18, <1>p, LentStill DEF Nap
  <1> QED BY <1>1, <1>2, <1>3, <1>4, <1>5, <1>6, <1>7, <1>8, <1>9, <1>10, <1>11, <1>12,
             <1>13, <1>14, <1>15, <1>16, <1>17, <1>18 DEF Steps

LEMMA MaskGuest ==
  ASSUME Inv, MaskInv, NEW t \in Threads, Guest(t)
  PROVE  MaskInv'
  <1>p. /\ {"suspend", "wait", "nap"} \subseteq Sleeps
        /\ {"run", "call", "unblock", "push"} \cap Sleeps = {}
    BY DEF Sleeps
  <1>0. /\ mask \in [Threads -> SUBSET Signals] /\ act \in [Signals -> Dispositions]
        /\ frames \in [Threads -> Seq(SUBSET Signals)] /\ view \in [Threads -> Seq(SUBSET Signals)]
        /\ active \in [Threads -> BOOLEAN]
    BY DEF Inv, ContextOK
  <1>1. ASSUME NEW s \in Signals, NEW owner, Self(t, s, owner) PROVE MaskInv'
    <2>1. Goto(t, "call", "run") /\ UNCHANGED saved /\ (UNCHANGED context \/ Handle(t, s))
      BY <1>1 DEF Self
    <2> QED BY <2>1, <1>p, LentStill, LentHandle
  <1>2. ASSUME NEW s \in Signals, NEW u, NEW group, Asks(t, u, s, group) PROVE MaskInv'
    BY <1>2, <1>p, LentStill DEF Asks
  <1>3. ASSUME NEW s \in Faults, Fault(t, s) PROVE MaskInv'
    <2>1. Goto(t, "run", "run") /\ UNCHANGED saved /\ s \in Signals
      BY <1>3, SignalAssumption DEF Fault
    <2>2. CASE s \in mask[t] \/ act[s] = "ignore"
      <3>1. /\ act' = [act EXCEPT ![s] = "default"] /\ mask' = [mask EXCEPT ![t] = @ \ {s}]
            /\ exited' = TRUE /\ UNCHANGED <<frames, active, view>>
        BY <1>3, <2>2 DEF Fault
      <3>2. Elsewhere(t) /\ Heeding'
        BY <1>0, <2>1, <3>1, LentNow DEF Elsewhere, Heeding
      <3> QED BY <2>1, <3>1, <3>2, LentMove
    <2>3. CASE ~(s \in mask[t] \/ act[s] = "ignore")
      BY <1>3, <1>p, <2>1, <2>3, LentHandle DEF Fault
    <2> QED BY <2>2, <2>3
  <1>4. ASSUME NEW m \in Masks[t], SetMask(t, m) PROVE MaskInv'
    <2>1. /\ Goto(t, "call", "unblock") /\ mask' = [mask EXCEPT ![t] = m]
          /\ view' = [view EXCEPT ![t] = <<m>> \o Tail(view[t])]
          /\ UNCHANGED <<frames, active, act, exited, saved>>
      BY <1>4 DEF SetMask
    <2>2. view[t] = <<mask[t]>> \o frames[t] /\ ~active[t] /\ Heeding
      BY <1>p, <2>1, LentNow DEF Asked
    <2>3. Tail(view[t]) = frames[t]
      BY <1>0, <2>2, ConsFacts
    <2>4. view'[t] = <<m>> \o frames[t] /\ mask'[t] = m
      BY <1>0, <2>1, <2>3
    <2>5. Elsewhere(t) /\ Heeding'
      BY <1>0, <2>1, <2>2 DEF Elsewhere, Heeding
    <2> QED BY <1>p, <2>1, <2>2, <2>4, <2>5, LentMove
  <1>5. CASE Sigreturn(t)
    <2>1. /\ frames[t] # <<>> /\ Goto(t, "call", "unblock")
          /\ mask' = [mask EXCEPT ![t] = Head(frames[t])]
          /\ frames' = [frames EXCEPT ![t] = Tail(frames[t])] /\ view' = [view EXCEPT ![t] = Tail(view[t])]
          /\ UNCHANGED <<active, act, exited, saved>>
      BY <1>5 DEF Sigreturn
    <2>2. view[t] = <<mask[t]>> \o frames[t] /\ ~active[t] /\ Heeding
      BY <1>p, <2>1, LentNow DEF Asked
    <2>3. Tail(view[t]) = frames[t]
      BY <1>0, <2>2, ConsFacts
    <2>4. frames[t] = <<Head(frames[t])>> \o Tail(frames[t])
      <3>1. frames[t] \in Seq(SUBSET Signals) /\ Len(frames[t]) # 0
        BY <1>0, <2>1
      <3> QED BY <3>1, SeqPop
    <2>5. view'[t] = frames[t] /\ frames'[t] = Tail(frames[t]) /\ mask'[t] = Head(frames[t])
      BY <1>0, <2>1, <2>3
    <2>6. ~active'[t] /\ view'[t] = <<IF active'[t] THEN saved'[t] ELSE mask'[t]>> \o frames'[t]
      BY <2>1, <2>2, <2>4, <2>5
    <2>7. Elsewhere(t) /\ Heeding'
      BY <1>0, <2>1, <2>2 DEF Elsewhere, Heeding
    <2> QED BY <1>p, <2>1, <2>6, <2>7, LentMove
  <1>6. ASSUME NEW a \in Actions, Sigaction(t, a[1], a[2]) PROVE MaskInv'
    <2>1. /\ Goto(t, "call", "run") /\ act' = [act EXCEPT ![a[1]] = a[2]]
          /\ UNCHANGED <<mask, frames, active, view, exited, saved>>
      BY <1>6 DEF Sigaction
    <2>2. view[t] = <<mask[t]>> \o frames[t] /\ ~active[t] /\ Heeding
      BY <1>p, <2>1, LentNow DEF Asked
    <2>3. NothingIgnored => \A s \in Signals : act'[s] # "ignore"
      BY <1>0, <2>1, <2>2 DEF Heeding, NothingIgnored
    <2>4. Elsewhere(t) /\ Heeding'
      BY <2>1, <2>3 DEF Elsewhere, Heeding
    <2> QED BY <1>p, <2>1, <2>2, <2>4, LentMove
  <1>7. ASSUME NEW m \in SuspendMasks[t], Suspend(t, m) PROVE MaskInv'
    BY <1>7, <1>p, LentBorrow DEF Suspend, Borrows
  <1>8. ASSUME NEW W \in WaitSets[t], Sigwait(t, W) PROVE MaskInv'
    BY <1>8, <1>p, LentBorrow DEF Sigwait, Borrows
  <1>9. CASE WaitEnds(t)
    BY <1>9, <1>p, LentRestore DEF WaitEnds
  <1>10. CASE \E s \in Signals : TgkillSelf(t, s) \/ KillSelf(t, s) \/ Kill(t, s)
    BY <1>10, <1>1, <1>2 DEF TgkillSelf, KillSelf, Kill
  <1>11. CASE \E u \in Threads, s \in Signals : Tgkill(t, u, s)
    BY <1>11, <1>2 DEF Tgkill
  <1> QED BY <1>3, <1>4, <1>5, <1>6, <1>7, <1>8, <1>9, <1>10, <1>11 DEF Guest

LEMMA InitMask == Init => MaskInv
  <1> SUFFICES ASSUME Init PROVE MaskInv
    OBVIOUS
  <1>1. Heeding
    BY DEF Init, Heeding, NothingIgnored
  <1>2. ASSUME NEW t \in Threads PROVE Lent(t)
    <2>1. view[t] = <<{}>> /\ mask[t] = {} /\ frames[t] = <<>> /\ active[t] = FALSE /\ pc[t] = "run"
      BY DEF Init
    <2>2. <<{}>> \o <<>> = <<{}>>
      OBVIOUS
    <2> QED BY <2>1, <2>2 DEF Lent, Asked, Sleeps
  <1> QED BY <1>1, <1>2 DEF MaskInv

LEMMA NextMask == ASSUME MasksHeld, Inv, MaskInv, [Next]_vars PROVE MaskInv'
  <1>1. CASE UNCHANGED vars
    BY <1>1 DEF vars, MaskInv, Heeding, Lent, Asked, Borrows
  <1> QED BY <1>1, MaskSteps, MaskGuest DEF Next

\* While guest code runs, its mask and the masks its handlers return to are the
\* ones it asked for, through any nesting of handlers, one-shot and SA_NODEFER
\* ones included: deliver_signal saves the mask that rt_sigsuspend and
\* rt_sigtimedwait put aside, and both give it back.
THEOREM MasksReturn == ASSUME MasksHeld PROVE Spec => []OwnMask
  <1>1. Inv /\ MaskInv /\ [Next]_vars => MaskInv'
    BY NextMask
  <1>2. MaskInv => OwnMask
    BY DEF MaskInv, Lent, Asked, OwnMask, Sleeps
  <1> QED BY <1>1, <1>2, InitMask, InvAlways, PTL DEF Spec
=============================================================================
