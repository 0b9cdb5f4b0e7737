------------------------- MODULE GuestTimersProofs -------------------------
(***************************************************************************)
(* POSIX timers, for any threads, timers, queue capacity and INT_MAX: the  *)
(* account of the expiries, one queued signal per timer and thread, the    *)
(* silence of a fork's child, and of the service thread after ~Emulator.   *)
(*                                                                         *)
(* The sums of the account are folds.  What a fold computes is proved by   *)
(* induction on the size of a set, with the set of the sizes in place of   *)
(* the induction's predicate.                                              *)
(***************************************************************************)
EXTENDS GuestTimers, FiniteSetTheorems, WellFoundedInduction, TLAPS

-----------------------------------------------------------------------------
(* The inductive invariant.                                                *)

\* Where the service thread is inside the sending of a signal.
Sending == {"choose", "merge", "push"}

\* TypeOK, part by part, with the shapes it leaves open: the queues are
\* sequences, and a job is typed where its fields are used.
TimersTyped == DOMAIN timers \subseteq Ids /\ \A id \in DOMAIN timers : timers[id] \in Timer

ServiceTyped ==
    /\ pc \in {"none", "serve", "choose", "merge", "push", "record", "ended"}
    /\ batch \in Seq(Ids \cup {Wake}) /\ Len(batch) <= MaxReady
    /\ job.id \in Ids /\ job.missed \in 0 .. IntMax /\ job.total \in 0 .. IntMax
    /\ pc \in Sending => job.fd \in Fds /\ job.event \in Notices
    /\ pc \in {"merge", "push"} => job.target \in Threads
    /\ pc \in Sending \cup {"record"} => batch # <<>>

ProcessTyped ==
    /\ wake \in BOOLEAN /\ handle \in BOOLEAN /\ execing \in BOOLEAN
    /\ stopping \in {"no", "joining", "done"}

ThreadsTyped ==
    /\ live \subseteq Threads /\ listed \subseteq Workers /\ blocked \subseteq Threads
    /\ running \in [Threads -> BOOLEAN]

SignalsTyped ==
    /\ queue \in [Threads -> Seq(Entry)] /\ \A t \in Threads : Len(queue[t]) <= Cap
    /\ sigpending \in [Threads -> SUBSET Fds] /\ shared \in SUBSET Fds

HistoryTyped ==
    /\ created \in 0 .. MaxCreates /\ old \in 0 .. created /\ image \in Nat
    /\ taken \in [Fds -> Nat] /\ told \in Nat /\ unkept \in Nat

Typed == TimersTyped /\ ServiceTyped /\ ProcessTyped /\ ThreadsTyped /\ SignalsTyped /\ HistoryTyped

\* The timers of a child are its own.
Fresh == \A id \in DOMAIN timers : timers[id].fd > old

\* The service thread exists from the first timer that needs it to the end
\* of stop, which leaves no thread to join only if there was none.
Serving ==
    /\ stopping = "no" /\ ~handle => pc = "none"
    /\ Quiet

\* A signal is pushed where no other of its timer is queued.
Alone == pc = "push" => Merged = {}

-----------------------------------------------------------------------------
LEMMA Facts ==
    /\ Main \notin Workers /\ Main \in Threads /\ Workers \subseteq Threads /\ Nobody \notin Threads
    /\ Wake \notin Nat /\ Wake \notin Ids /\ 0 \in Ids
    /\ MaxTimers \in Nat \ {0} /\ MaxReady \in Nat \ {0} /\ Cap \in Nat \ {0} /\ IntMax \in Nat \ {0}
    /\ MaxCreates \in Nat /\ Events \subseteq Notices
    /\ \A f \in Fds : f \in Nat
  BY TimerAssumption DEF Threads, Ids, Fds

\* threads_ lists every worker, so there are finitely many.
LEMMA ThreadsFinite == IsFiniteSet(Threads) /\ IsFiniteSet(Workers)
  <1>1. Order \in Seq(Workers) /\ Workers \subseteq Range(Order)
    BY TimerAssumption
  <1>2. \A t \in Workers : \E i \in DOMAIN Order : Order[i] = t
    BY <1>1 DEF Range
  <1>3. Len(Order) \in Nat /\ DOMAIN Order = 1 .. Len(Order) /\ Order \in [1 .. Len(Order) -> Workers]
    BY <1>1
  <1>4. Order \in Surjection(1 .. Len(Order), Workers)
    BY <1>2, <1>3 DEF Surjection
  <1>5. IsFiniteSet(Workers)
    BY <1>3, <1>4, FS_NatSurjection DEF ExistsSurjection
  <1>6. IsFiniteSet(Workers \cup {Main})
    BY <1>5, FS_AddElement
  <1>7. Workers \cup {Main} = Threads
    BY DEF Threads
  <1> QED BY <1>5, <1>6, <1>7

LEMMA InitialTyped == Init => Typed
  <1> SUFFICES ASSUME Init PROVE Typed OBVIOUS
  <1> USE Facts
  <1>1. TimersTyped
    <2>1. DOMAIN timers = {} BY DEF Init
    <2> QED BY <2>1 DEF TimersTyped
  <1>2. ServiceTyped
    <2>1. batch = <<>> /\ pc = "none" BY DEF Init
    <2>2. batch \in Seq(Ids \cup {Wake}) /\ Len(batch) = 0 BY <2>1
    <2>3. Len(batch) <= MaxReady BY <2>2
    <2>4. job.id = 0 /\ job.missed = 0 /\ job.total = 0 BY DEF Init, NoJob
    <2>5. 0 \in 0 .. IntMax OBVIOUS
    <2> QED BY <2>1, <2>2, <2>3, <2>4, <2>5 DEF ServiceTyped, Sending
  <1>3. ProcessTyped /\ ThreadsTyped
    BY DEF Init, ProcessTyped, ThreadsTyped
  <1>4. SignalsTyped
    <2>1. \A t \in Threads : queue[t] = <<>> /\ Len(queue[t]) <= Cap BY DEF Init
    <2>2. queue \in [Threads -> Seq(Entry)] BY DEF Init
    <2>3. sigpending \in [Threads -> SUBSET Fds] /\ shared \in SUBSET Fds BY DEF Init
    <2> QED BY <2>1, <2>2, <2>3 DEF SignalsTyped
  <1>5. HistoryTyped
    BY DEF Init, HistoryTyped
  <1> QED BY <1>1, <1>2, <1>3, <1>4, <1>5 DEF Typed

-----------------------------------------------------------------------------
(* Sums over finite sets of natural numbers.                               *)

\* The sum of f over the finite set S, and the equation that defines it.
Sum(f, S) == SumFunctionOnSet(f, S)

Pick(s) == CHOOSE x \in s : TRUE

Added(it, f, s) == IF s = {} THEN 0 ELSE f[Pick(s)] + it[s \ {Pick(s)}]

Adds(it, f, S) == it = [s \in SUBSET S |-> Added(it, f, s)]

\* The fold, unfolded.
LEMMA SumIt == ASSUME NEW f, NEW S PROVE Sum(f, S) = (CHOOSE it : Adds(it, f, S))[S]
  BY DEF Sum, SumFunctionOnSet, FoldFunctionOnSet, MapThenFoldSet, Adds, Added, Pick

\* Addends are natural numbers.
Counts(f, S) == \A x \in S : f[x] \in Nat

\* The sums of f over the subsets of S.
Partials(it, f, S) ==
    /\ it \in [SUBSET S -> Nat]
    /\ \A s \in SUBSET S : it[s] = Added(it, f, s)
    /\ \A T \in SUBSET S : Sum(f, T) = it[T]

\* A and B obey the same equation.
Alike(A, B, S) ==
    /\ A[{}] = B[{}]
    /\ \A s \in SUBSET S : s # {} /\ A[s \ {Pick(s)}] = B[s \ {Pick(s)}] => A[s] = B[s]

Less == {p \in Nat \X Nat : p[1] < p[2]}

\* A least element.
LEMMA Least ==
    ASSUME NEW P \in SUBSET Nat, P # {}
    PROVE  \E n \in P : \A m \in P : n <= m
  <1>1. IsWellFoundedOn(Less, Nat)
    BY NatLessThanWellFounded DEF OpToRel, Less
  <1>2. PICK n \in P : \A m \in P : <<m, n>> \notin Less
    BY <1>1, WFMin
  <1>3. \A m \in P : m \in Nat /\ n \in Nat /\ ~(m < n)
    BY <1>2 DEF Less
  <1>4. \A m \in P : n <= m
    BY <1>3
  <1> QED BY <1>4

\* Induction, with a set for the predicate.
LEMMA Induction ==
    ASSUME NEW P, 0 \in P, \A n \in Nat : n \in P => n + 1 \in P
    PROVE  \A n \in Nat : n \in P
  <1> SUFFICES ASSUME Nat \ P # {} PROVE FALSE OBVIOUS
  <1>1. PICK n \in Nat \ P : \A m \in Nat \ P : n <= m
    BY Least
  <1>2. n # 0 /\ n - 1 \in Nat /\ ~(n <= n - 1)
    BY <1>1
  <1>3. n - 1 \in P
    BY <1>1, <1>2
  <1>4. (n - 1) + 1 = n BY <1>1
  <1> QED BY <1>1, <1>2, <1>3, <1>4

\* Removing an element.
LEMMA Smaller ==
    ASSUME NEW T, IsFiniteSet(T), NEW x \in T
    PROVE  /\ IsFiniteSet(T \ {x}) /\ Cardinality(T) \in Nat
           /\ Cardinality(T \ {x}) \in Nat /\ Cardinality(T) = Cardinality(T \ {x}) + 1
  <1>1. IsFiniteSet(T \ {x}) /\ Cardinality(T \ {x}) = Cardinality(T) - 1
    BY FS_RemoveElement
  <1>2. Cardinality(T) \in Nat /\ Cardinality(T \ {x}) \in Nat
    BY <1>1, FS_CardinalityType
  <1> QED BY <1>1, <1>2

\* The chosen element is one.
LEMMA PickIn == \A s : s # {} => Pick(s) \in s
  BY DEF Pick

\* Induction on finite sets, with a set of sets for the predicate.
LEMMA FiniteInduction ==
    ASSUME NEW S, IsFiniteSet(S), NEW F, {} \in F,
           \A T \in SUBSET S : T # {} /\ (\A x \in T : T \ {x} \in F) => T \in F
    PROVE  \A T \in SUBSET S : T \in F
  <1> DEFINE P == {n \in Nat : \A T \in SUBSET S : Cardinality(T) = n => T \in F}
  <1>0. \A T \in SUBSET S : IsFiniteSet(T) /\ Cardinality(T) \in Nat
    BY FS_Subset, FS_CardinalityType
  <1>1. 0 \in P
    BY <1>0, FS_EmptySet
  <1>2. ASSUME NEW n \in Nat, n \in P PROVE n + 1 \in P
    <2> SUFFICES ASSUME NEW T \in SUBSET S, Cardinality(T) = n + 1 PROVE T \in F
      OBVIOUS
    <2>1. T # {}
      <3>1. n + 1 # 0 OBVIOUS
      <3> QED BY <3>1, FS_EmptySet
    <2>2. ASSUME NEW x \in T PROVE T \ {x} \in F
      <3>1. Cardinality(T \ {x}) = n
        BY <1>0, Smaller
      <3> QED BY <3>1, <1>2
    <2> QED BY <2>1, <2>2
  <1> HIDE DEF P
  <1>3. \A n \in Nat : n \in P
    BY <1>1, <1>2, Induction
  <1> QED BY <1>0, <1>3 DEF P

\* At most one function solves the equation.
LEMMA Unique ==
    ASSUME NEW S, IsFiniteSet(S), NEW A, NEW B, Alike(A, B, S)
    PROVE  \A s \in SUBSET S : A[s] = B[s]
  <1> USE DEF Alike
  <1> DEFINE F == {s \in SUBSET S : A[s] = B[s]}
  <1>1. \A T \in SUBSET S : T # {} /\ (\A x \in T : T \ {x} \in F) => T \in F
    BY PickIn
  <1>2. {} \in F OBVIOUS
  <1> HIDE DEF F
  <1>3. \A T \in SUBSET S : T \in F BY <1>1, <1>2, FiniteInduction
  <1> QED BY <1>3 DEF F

\* At least one does.
LEMMA Exists ==
    ASSUME NEW S, IsFiniteSet(S), NEW f, Counts(f, S)
    PROVE  \E it \in [SUBSET S -> Nat] : Adds(it, f, S)
  <1> DEFINE P == {n \in Nat : \E it \in [SUBSET S -> Nat] :
                      \A s \in SUBSET S : Cardinality(s) <= n => it[s] = Added(it, f, s)}
  <1>0. \A T \in SUBSET S : IsFiniteSet(T) /\ Cardinality(T) \in Nat
    BY FS_Subset, FS_CardinalityType
  <1>a. ASSUME NEW it \in [SUBSET S -> Nat], NEW s \in SUBSET S PROVE Added(it, f, s) \in Nat
    <2>1. CASE s = {} BY <2>1 DEF Added
    <2>2. CASE s # {}
      <3>1. Pick(s) \in S /\ s \ {Pick(s)} \in SUBSET S BY <2>2, PickIn
      <3> QED BY <3>1, <2>2 DEF Added, Counts
    <2> QED BY <2>1, <2>2
  <1>1. 0 \in P
    <2> DEFINE it == [s \in SUBSET S |-> 0]
    <2>1. ASSUME NEW s \in SUBSET S, Cardinality(s) <= 0 PROVE it[s] = Added(it, f, s)
      <3>1. s = {} BY <1>0, <2>1, FS_EmptySet
      <3> QED BY <3>1 DEF Added
    <2>2. it \in [SUBSET S -> Nat] OBVIOUS
    <2> QED BY <2>1, <2>2
  <1>2. ASSUME NEW n \in Nat, n \in P PROVE n + 1 \in P
    <2>1. PICK it \in [SUBSET S -> Nat] :
              \A s \in SUBSET S : Cardinality(s) <= n => it[s] = Added(it, f, s)
      BY <1>2
    <2> DEFINE jt == [s \in SUBSET S |-> Added(it, f, s)]
    <2>2. jt \in [SUBSET S -> Nat]
      BY <1>a
    <2>3. ASSUME NEW s \in SUBSET S, Cardinality(s) <= n + 1 PROVE jt[s] = Added(jt, f, s)
      <3>1. CASE s = {} BY <3>1 DEF Added
      <3>2. CASE s # {}
        <4> DEFINE r == s \ {Pick(s)}
        <4>1. r \in SUBSET S /\ Pick(s) \in s /\ Cardinality(r) <= n
          BY <3>2, <2>3, <1>0, PickIn, Smaller
        <4>2. it[r] = jt[r]
          BY <4>1, <2>1
        <4> QED BY <4>2, <3>2 DEF Added
      <3> QED BY <3>1, <3>2
    <2> HIDE DEF jt
    <2> QED BY <2>2, <2>3
  <1> HIDE DEF P
  <1>3. Cardinality(S) \in P
    BY <1>0, <1>1, <1>2, Induction
  <1>4. PICK it \in [SUBSET S -> Nat] :
            \A s \in SUBSET S : Cardinality(s) <= Cardinality(S) => it[s] = Added(it, f, s)
    BY <1>3 DEF P
  <1>5. \A s \in SUBSET S : it[s] = Added(it, f, s)
    BY <1>4, FS_Subset
  <1>6. it = [s \in SUBSET S |-> Added(it, f, s)]
    BY <1>5
  <1> QED BY <1>6 DEF Adds

\* The partial sums.
LEMMA Partial ==
    ASSUME NEW S, IsFiniteSet(S), NEW f, Counts(f, S)
    PROVE  \E it : Partials(it, f, S)
  <1>1. PICK it \in [SUBSET S -> Nat] : Adds(it, f, S)
    BY Exists
  <1>2. \A s \in SUBSET S : it[s] = Added(it, f, s)
    BY <1>1 DEF Adds
  <1>3. ASSUME NEW T \in SUBSET S PROVE Sum(f, T) = it[T]
    <2> DEFINE jt == CHOOSE it2 : Adds(it2, f, T)
    <2>1. IsFiniteSet(T) /\ Counts(f, T)
      BY FS_Subset DEF Counts
    <2>2. \E it2 : Adds(it2, f, T)
      BY <2>1, Exists
    <2>3. Adds(jt, f, T)
      BY <2>2
    <2> HIDE DEF jt
    <2>4. \A s \in SUBSET T : jt[s] = Added(jt, f, s)
      BY <2>3 DEF Adds
    <2>5. \A s \in SUBSET T : it[s] = Added(it, f, s)
      BY <1>2
    <2>6. it[{}] = jt[{}]
      BY <2>4, <2>5 DEF Added
    <2>7. \A s \in SUBSET T : s # {} /\ it[s \ {Pick(s)}] = jt[s \ {Pick(s)}] => it[s] = jt[s]
      BY <2>4, <2>5 DEF Added
    <2>8. \A s \in SUBSET T : it[s] = jt[s]
      <3>1. Alike(it, jt, T) BY <2>6, <2>7 DEF Alike
      <3> QED BY <2>1, <3>1, Unique
    <2> QED BY <2>8, SumIt DEF jt
  <1> QED BY <1>2, <1>3 DEF Partials

\* The empty sum, and that a sum is a number.
LEMMA SumEmpty == \A f : Sum(f, {}) = 0
  <1> SUFFICES ASSUME NEW f PROVE Sum(f, {}) = 0 OBVIOUS
  <1>1. IsFiniteSet({}) /\ Counts(f, {}) BY FS_EmptySet DEF Counts
  <1>2. PICK it : Partials(it, f, {})
    BY <1>1, Partial
  <1>3. Sum(f, {}) = Added(it, f, {})
    BY <1>2 DEF Partials
  <1> QED BY <1>3 DEF Added

LEMMA SumNat ==
    ASSUME NEW S, IsFiniteSet(S), NEW f, Counts(f, S)
    PROVE  Sum(f, S) \in Nat
  <1>1. PICK it : Partials(it, f, S) BY Partial
  <1> QED BY <1>1 DEF Partials

\* Whichever element is taken first.
LEMMA SumRemove ==
    ASSUME NEW S, IsFiniteSet(S), NEW f, Counts(f, S), NEW e \in S
    PROVE  Sum(f, S) = f[e] + Sum(f, S \ {e})
  <1>0. PICK it : Partials(it, f, S)
    BY Partial
  <1>1. /\ it \in [SUBSET S -> Nat]
        /\ \A s \in SUBSET S : it[s] = Added(it, f, s)
        /\ \A T \in SUBSET S : Sum(f, T) = it[T]
    BY <1>0 DEF Partials
  <1> DEFINE F == {T \in SUBSET S : \A x \in T : it[T] = f[x] + it[T \ {x}]}
  <1>2. {} \in F OBVIOUS
  <1>3. ASSUME NEW T \in SUBSET S, T # {}, \A x \in T : T \ {x} \in F
        PROVE  T \in F
    <2> SUFFICES ASSUME NEW x \in T PROVE it[T] = f[x] + it[T \ {x}] OBVIOUS
    <2> DEFINE a == Pick(T)
    <2>0. a \in T BY <1>3, PickIn
    <2>1. it[T] = f[a] + it[T \ {a}]
      BY <1>1, <1>3 DEF Added
    <2> HIDE DEF a
    <2>2. CASE x = a BY <2>1, <2>2
    <2>3. CASE x # a
      <3>1. it[T \ {a}] = f[x] + it[(T \ {a}) \ {x}]
        BY <2>0, <2>3, <1>3
      <3>2. it[T \ {x}] = f[a] + it[(T \ {x}) \ {a}]
        BY <2>0, <2>3, <1>3
      <3>3. (T \ {x}) \ {a} = (T \ {a}) \ {x}
        OBVIOUS
      <3>4. PICK u : u = (T \ {a}) \ {x} OBVIOUS
      <3>5. u \in SUBSET S /\ it[u] \in Nat BY <1>1, <3>4
      <3>6. f[x] \in Nat /\ f[a] \in Nat BY <2>0 DEF Counts
      <3> QED BY <2>1, <3>1, <3>2, <3>3, <3>4, <3>5, <3>6
    <2> QED BY <2>2, <2>3
  <1> HIDE DEF F
  <1>4. S \in F BY <1>2, <1>3, FiniteInduction
  <1>5. it[S] = f[e] + it[S \ {e}] BY <1>4 DEF F
  <1> QED BY <1>1, <1>5

\* Equal addends, equal sums.
LEMMA SumSame ==
    ASSUME NEW S, IsFiniteSet(S), NEW f, NEW g, Counts(f, S), \A x \in S : f[x] = g[x]
    PROVE  Sum(f, S) = Sum(g, S)
  <1> DEFINE F == {T \in SUBSET S : Sum(f, T) = Sum(g, T)}
  <1>1. {} \in F BY SumEmpty
  <1>2. ASSUME NEW T \in SUBSET S, T # {}, \A x \in T : T \ {x} \in F
        PROVE  T \in F
    <2>1. PICK x : x \in T BY <1>2
    <2>2. IsFiniteSet(T) /\ Counts(f, T) /\ Counts(g, T) BY FS_Subset DEF Counts
    <2>3. Sum(f, T) = f[x] + Sum(f, T \ {x}) BY <2>1, <2>2, SumRemove
    <2>4. Sum(g, T) = g[x] + Sum(g, T \ {x}) BY <2>1, <2>2, SumRemove
    <2> QED BY <2>1, <2>3, <2>4, <1>2
  <1> HIDE DEF F
  <1>3. S \in F BY <1>1, <1>2, FiniteInduction
  <1> QED BY <1>3 DEF F

\* A sum over two parts.
LEMMA SumSplit ==
    ASSUME NEW S, IsFiniteSet(S), NEW f, Counts(f, S), NEW A \in SUBSET S
    PROVE  Sum(f, S) = Sum(f, A) + Sum(f, S \ A)
  <1> DEFINE F == {T \in SUBSET S : Sum(f, T) = Sum(f, T \cap A) + Sum(f, T \ A)}
  <1>1. {} \in F
    <2>1. {} \cap A = {} /\ {} \ A = {} OBVIOUS
    <2> QED BY <2>1, SumEmpty
  <1>2. ASSUME NEW T \in SUBSET S, T # {}, \A x \in T : T \ {x} \in F
        PROVE  T \in F
    <2>1. PICK x : x \in T BY <1>2
    <2>2. IsFiniteSet(T) /\ IsFiniteSet(T \cap A) /\ IsFiniteSet(T \ A)
          /\ IsFiniteSet((T \cap A) \ {x}) /\ IsFiniteSet((T \ A) \ {x})
      BY FS_Subset
    <2>a. /\ Counts(f, T) /\ Counts(f, T \cap A) /\ Counts(f, T \ A)
          /\ Counts(f, (T \cap A) \ {x}) /\ Counts(f, (T \ A) \ {x})
      BY DEF Counts
    <2>3. Sum(f, T) = f[x] + Sum(f, T \ {x}) BY <2>1, <2>2, <2>a, SumRemove
    <2>4. Sum(f, T \ {x}) = Sum(f, (T \ {x}) \cap A) + Sum(f, (T \ {x}) \ A)
      BY <2>1, <1>2
    <2>b. f[x] \in Nat BY <2>1 DEF Counts
    <2>5. Sum(f, T \cap A) \in Nat /\ Sum(f, T \ A) \in Nat
          /\ Sum(f, (T \cap A) \ {x}) \in Nat /\ Sum(f, (T \ A) \ {x}) \in Nat
      BY <2>2, <2>a, SumNat
    <2>6. CASE x \in A
      <3>1. Sum(f, T \cap A) = f[x] + Sum(f, (T \cap A) \ {x})
        BY <2>1, <2>2, <2>a, <2>6, SumRemove
      <3>2. (T \ {x}) \cap A = (T \cap A) \ {x} /\ (T \ {x}) \ A = T \ A BY <2>6
      <3>3. Sum(f, T \ {x}) = Sum(f, (T \cap A) \ {x}) + Sum(f, T \ A) BY <2>4, <3>2
      <3> QED BY <2>3, <2>b, <2>5, <3>1, <3>3
    <2>7. CASE x \notin A
      <3>1. Sum(f, T \ A) = f[x] + Sum(f, (T \ A) \ {x})
        BY <2>1, <2>2, <2>a, <2>7, SumRemove
      <3>2. (T \ {x}) \cap A = T \cap A /\ (T \ {x}) \ A = (T \ A) \ {x} BY <2>7
      <3>3. Sum(f, T \ {x}) = Sum(f, T \cap A) + Sum(f, (T \ A) \ {x}) BY <2>4, <3>2
      <3> QED BY <2>3, <2>b, <2>5, <3>1, <3>3
    <2> QED BY <2>6, <2>7
  <1> HIDE DEF F
  <1>3. S \in F BY <1>1, <1>2, FiniteInduction
  <1>4. S \cap A = A OBVIOUS
  <1> QED BY <1>3, <1>4 DEF F

\* One addend more, or another one.
LEMMA SumChange ==
    ASSUME NEW S, IsFiniteSet(S), NEW f, NEW g, Counts(f, S), Counts(g, S), NEW e \in S,
           \A x \in S \ {e} : f[x] = g[x]
    PROVE  Sum(g, S) + f[e] = Sum(f, S) + g[e]
  <1>1. IsFiniteSet(S \ {e}) /\ Counts(f, S \ {e}) BY FS_Subset DEF Counts
  <1>2. Sum(f, S) = f[e] + Sum(f, S \ {e}) /\ Sum(g, S) = g[e] + Sum(g, S \ {e})
    BY SumRemove
  <1>3. Sum(f, S \ {e}) = Sum(g, S \ {e}) /\ Sum(f, S \ {e}) \in Nat
    BY <1>1, SumSame, SumNat
  <1>4. PICK u : u = Sum(f, S \ {e}) OBVIOUS
  <1>5. f[e] \in Nat /\ g[e] \in Nat BY DEF Counts
  <1> QED BY <1>2, <1>3, <1>4, <1>5

\* Renaming the addends.
LEMMA SumRename ==
    ASSUME NEW S, IsFiniteSet(S), NEW R, IsFiniteSet(R), NEW f, NEW g, NEW b \in [S -> R],
           \A x, y \in S : b[x] = b[y] => x = y, \A y \in R : \E x \in S : b[x] = y,
           Counts(f, S), \A x \in S : f[x] = g[b[x]]
    PROVE  Sum(f, S) = Sum(g, R)
  <1> DEFINE Img(T) == {b[x] : x \in T}
             F == {T \in SUBSET S : Sum(f, T) = Sum(g, Img(T))}
  <1>1. {} \in F
    <2>1. Img({}) = {} OBVIOUS
    <2> QED BY <2>1, SumEmpty
  <1>2. ASSUME NEW T \in SUBSET S, T # {}, \A x \in T : T \ {x} \in F
        PROVE  T \in F
    <2>1. PICK x : x \in T BY <1>2
    <2>2. Img(T) \in SUBSET R /\ b[x] \in Img(T) BY <2>1
    <2>3. Img(T \ {x}) = Img(T) \ {b[x]} BY <2>1
    <2>4. Counts(f, T) /\ Counts(g, Img(T)) BY DEF Counts
    <2>5. IsFiniteSet(T) /\ IsFiniteSet(Img(T)) BY <2>2, FS_Subset
    <2>6. Sum(f, T \ {x}) = Sum(g, Img(T \ {x})) BY <2>1, <1>2
    <2>7. f[x] = g[b[x]] BY <2>1
    <2>8. Sum(f, T) = f[x] + Sum(f, T \ {x}) BY <2>1, <2>4, <2>5, SumRemove
    <2> HIDE DEF Img
    <2>9. Sum(g, Img(T)) = g[b[x]] + Sum(g, Img(T) \ {b[x]})
      BY <2>2, <2>4, <2>5, SumRemove
    <2> QED BY <2>3, <2>6, <2>7, <2>8, <2>9
  <1>3. Img(S) = R OBVIOUS
  <1> HIDE DEF F
  <1>4. S \in F BY <1>1, <1>2, FiniteInduction
  <1> QED BY <1>3, <1>4 DEF F

LEMMA SumZero ==
    ASSUME NEW S, IsFiniteSet(S), NEW f, \A x \in S : f[x] = 0
    PROVE  Sum(f, S) = 0
  <1> DEFINE F == {T \in SUBSET S : Sum(f, T) = 0}
  <1>1. {} \in F BY SumEmpty
  <1>2. ASSUME NEW T \in SUBSET S, T # {}, \A x \in T : T \ {x} \in F
        PROVE  T \in F
    <2>1. PICK x : x \in T BY <1>2
    <2>2. IsFiniteSet(T) /\ Counts(f, T) BY FS_Subset DEF Counts
    <2>3. Sum(f, T) = f[x] + Sum(f, T \ {x}) BY <2>1, <2>2, SumRemove
    <2>4. f[x] = 0 /\ Sum(f, T \ {x}) = 0 BY <2>1, <1>2
    <2>5. Sum(f, T) = 0 BY <2>3, <2>4
    <2> QED BY <2>5
  <1> HIDE DEF F
  <1>3. S \in F BY <1>1, <1>2, FiniteInduction
  <1> QED BY <1>3 DEF F

-----------------------------------------------------------------------------
(* What a queue and a set of queues hold.                                  *)

\* The addends of Weight.
Told(q) == [i \in DOMAIN q |-> q[i].overrun + 1]

Overruns(q) == IsFiniteSet(DOMAIN q) /\ \A i \in DOMAIN q : q[i].overrun \in Nat

\* Weight is the sum of what the signals tell.
LEMMA WeightIs ==
    ASSUME NEW q, Overruns(q)
    PROVE  Weight(q) = Sum(Told(q), DOMAIN q)
  <1> DEFINE D == DOMAIN q
             Eq(it) == it = [s \in SUBSET D |-> IF s = {} THEN 0
                                                ELSE it[s \ {Pick(s)}] + q[Pick(s)].overrun + 1]
  <1>1. Weight(q) = (CHOOSE it : Eq(it))[D]
    BY DEF Weight, FoldFunction, FoldFunctionOnSet, MapThenFoldSet, Pick
  <1>2. IsFiniteSet(D) /\ Counts(Told(q), D)
    BY DEF Overruns, Told, Counts
  <1>3. PICK it : Partials(it, Told(q), D)
    BY <1>2, Partial
  <1>4. /\ it \in [SUBSET D -> Nat] /\ \A s \in SUBSET D : it[s] = Added(it, Told(q), s)
        /\ Sum(Told(q), D) = it[D]
    BY <1>3 DEF Partials
  <1>5. ASSUME NEW s \in SUBSET D, s # {}
        PROVE  it[s] = it[s \ {Pick(s)}] + q[Pick(s)].overrun + 1
    <2>1. Pick(s) \in D /\ s \ {Pick(s)} \in SUBSET D BY <1>5, PickIn
    <2>2. it[s] = (q[Pick(s)].overrun + 1) + it[s \ {Pick(s)}]
      BY <1>4, <1>5, <2>1 DEF Added, Told
    <2>3. PICK a : a = it[s \ {Pick(s)}] OBVIOUS
    <2>4. PICK b : b = q[Pick(s)].overrun OBVIOUS
    <2>5. a \in Nat /\ b \in Nat BY <1>4, <2>1, <2>3, <2>4 DEF Overruns
    <2>6. (b + 1) + a = a + b + 1 BY <2>5
    <2> QED BY <2>2, <2>3, <2>4, <2>6
  <1>6. it[{}] = 0
    BY <1>4 DEF Added
  <1>7. Eq(it)
    <2>1. it = [s \in SUBSET D |-> it[s]] BY <1>4
    <2>2. \A s \in SUBSET D : it[s] = IF s = {} THEN 0 ELSE it[s \ {Pick(s)}] + q[Pick(s)].overrun + 1
      BY <1>5, <1>6
    <2> QED BY <2>1, <2>2
  <1> DEFINE jt == CHOOSE jt : Eq(jt)
  <1>8. Eq(jt)
    BY <1>7
  <1> HIDE DEF jt
  <1>9. \A s \in SUBSET D : jt[s] = IF s = {} THEN 0 ELSE jt[s \ {Pick(s)}] + q[Pick(s)].overrun + 1
    BY <1>8
  <1>10. Alike(it, jt, D)
    <2>1. it[{}] = jt[{}] BY <1>6, <1>9
    <2>2. ASSUME NEW s \in SUBSET D, s # {}, it[s \ {Pick(s)}] = jt[s \ {Pick(s)}]
          PROVE  it[s] = jt[s]
      BY <1>5, <1>9, <2>2
    <2> QED BY <2>1, <2>2 DEF Alike
  <1>11. \A s \in SUBSET D : it[s] = jt[s]
    BY <1>2, <1>10, Unique
  <1>12. D \in SUBSET D OBVIOUS
  <1>13. Weight(q) = jt[D] BY <1>1 DEF jt
  <1> QED BY <1>4, <1>11, <1>12, <1>13

\* A queue of entries can be summed.
LEMMA SeqOverruns == ASSUME NEW q \in Seq(Entry) PROVE Overruns(q) /\ Counts(Told(q), DOMAIN q)
  <1>1. DOMAIN q = 1 .. Len(q) /\ Len(q) \in Nat /\ \A i \in DOMAIN q : q[i] \in Entry
    OBVIOUS
  <1>2. PICK n \in Nat : n = Len(q) BY <1>1
  <1>3. IsFiniteSet(1 .. n) BY FS_Interval
  <1>4. \A i \in DOMAIN q : q[i].overrun \in Nat BY <1>1 DEF Entry
  <1> QED BY <1>1, <1>2, <1>3, <1>4 DEF Overruns, Counts, Told

\* A weight is a number, and that of the empty queue is zero.
LEMMA WeightNat == ASSUME NEW q \in Seq(Entry) PROVE Weight(q) \in Nat
  BY SeqOverruns, WeightIs, SumNat DEF Overruns

LEMMA WeightEmpty == Weight(<<>>) = 0
  <1>1. <<>> \in Seq(Entry) /\ DOMAIN <<>> = {} OBVIOUS
  <1>2. Weight(<<>>) = Sum(Told(<<>>), DOMAIN <<>>) BY <1>1, SeqOverruns, WeightIs
  <1> QED BY <1>1, <1>2, SumEmpty

\* One signal more, ...
LEMMA WeightAppend ==
    ASSUME NEW q \in Seq(Entry), NEW e \in Entry
    PROVE  Weight(Append(q, e)) = Weight(q) + e.overrun + 1
  <1> DEFINE r == Append(q, e)
             n == Len(q) + 1
  <1>1. /\ r \in Seq(Entry) /\ Len(r) = n /\ n \in DOMAIN r /\ DOMAIN r = 1 .. n
        /\ DOMAIN q = (DOMAIN r) \ {n} /\ r[n] = e /\ \A i \in DOMAIN q : r[i] = q[i]
    <2>1. r \in Seq(Entry) /\ Len(r) = n /\ n \in Nat \ {0} OBVIOUS
    <2>2. DOMAIN r = 1 .. n BY <2>1
    <2>3. r[n] = e OBVIOUS
    <2>4. \A i \in DOMAIN q : r[i] = q[i] OBVIOUS
    <2>5. 1 .. Len(q) = (1 .. n) \ {n} OBVIOUS
    <2>6. DOMAIN q = 1 .. Len(q) /\ n \in 1 .. n BY <2>1
    <2> QED BY <2>1, <2>2, <2>3, <2>4, <2>5, <2>6
  <1>2. Weight(q) = Sum(Told(q), DOMAIN q) /\ Weight(r) = Sum(Told(r), DOMAIN r)
    BY <1>1, SeqOverruns, WeightIs
  <1>3. /\ IsFiniteSet(DOMAIN q) /\ IsFiniteSet(DOMAIN r)
        /\ Counts(Told(q), DOMAIN q) /\ Counts(Told(r), DOMAIN r)
    BY <1>1, SeqOverruns DEF Overruns
  <1> HIDE DEF r, n
  <1>4. Sum(Told(r), DOMAIN r) = Told(r)[n] + Sum(Told(r), (DOMAIN r) \ {n})
    BY <1>1, <1>3, SumRemove
  <1>5. \A i \in DOMAIN q : Told(q)[i] = Told(r)[i]
    BY <1>1 DEF Told
  <1>6. Sum(Told(q), DOMAIN q) = Sum(Told(r), DOMAIN q)
    BY <1>3, <1>5, SumSame
  <1>7. Told(r)[n] = e.overrun + 1 /\ e.overrun \in Nat /\ Weight(q) \in Nat
    <2>1. Told(r)[n] = e.overrun + 1 BY <1>1 DEF Told
    <2>2. e.overrun \in Nat BY DEF Entry
    <2> QED BY <2>1, <2>2, WeightNat
  <1>8. Weight(r) = (e.overrun + 1) + Weight(q)
    BY <1>1, <1>2, <1>4, <1>6, <1>7
  <1>9. Weight(r) = Weight(q) + e.overrun + 1
    BY <1>7, <1>8
  <1> QED BY <1>9 DEF r

\* ... one less, ...
LEMMA WeightTail ==
    ASSUME NEW q \in Seq(Entry), q # <<>>
    PROVE  Weight(q) = Weight(Tail(q)) + Head(q).overrun + 1
  <1> DEFINE r == Tail(q)
             R == DOMAIN r
             D == DOMAIN q
             b == [i \in R |-> i + 1]
  <1>1. /\ r \in Seq(Entry) /\ 1 \in D /\ q[1] = Head(q) /\ Head(q) \in Entry
        /\ \A i \in R : i + 1 \in D \ {1} /\ r[i] = q[i + 1] /\ i \in Nat
        /\ \A j \in D \ {1} : j - 1 \in R /\ j \in Nat
    OBVIOUS
  <1>2. Weight(q) = Sum(Told(q), D) /\ Weight(r) = Sum(Told(r), R)
    BY <1>1, SeqOverruns, WeightIs
  <1>3. IsFiniteSet(D) /\ IsFiniteSet(R) /\ Counts(Told(q), D) /\ Counts(Told(r), R)
    BY <1>1, SeqOverruns DEF Overruns
  <1>4. IsFiniteSet(D \ {1})
    BY <1>3, FS_Subset
  <1>5. /\ b \in [R -> D \ {1}] /\ \A x, y \in R : b[x] = b[y] => x = y
        /\ \A y \in D \ {1} : \E x \in R : b[x] = y
    <2>1. b \in [R -> D \ {1}] /\ \A x, y \in R : b[x] = b[y] => x = y
      BY <1>1
    <2>2. ASSUME NEW y \in D \ {1} PROVE \E x \in R : b[x] = y
      <3>1. y - 1 \in R /\ (y - 1) + 1 = y BY <1>1
      <3> QED BY <3>1
    <2> QED BY <2>1, <2>2
  <1>6. \A x \in R : Told(r)[x] = Told(q)[b[x]]
    BY <1>1 DEF Told
  <1> HIDE DEF r, R, D, b
  <1>7. Sum(Told(r), R) = Sum(Told(q), D \ {1})
    BY <1>3, <1>4, <1>5, <1>6, SumRename
  <1>8. Sum(Told(q), D) = Told(q)[1] + Sum(Told(q), D \ {1})
    BY <1>1, <1>3, SumRemove
  <1>9. Told(q)[1] = Head(q).overrun + 1 /\ Head(q).overrun \in Nat /\ Weight(r) \in Nat
    <2>1. Told(q)[1] = Head(q).overrun + 1 BY <1>1 DEF Told, D
    <2>2. Head(q).overrun \in Nat BY <1>1 DEF Entry
    <2> QED BY <1>1, <2>1, <2>2, WeightNat
  <1>10. Weight(q) = (Head(q).overrun + 1) + Weight(r)
    BY <1>2, <1>7, <1>8, <1>9
  <1>11. Weight(q) = Weight(r) + Head(q).overrun + 1
    BY <1>9, <1>10
  <1> QED BY <1>11 DEF r

\* ... or another one in its place.
LEMMA WeightReplace ==
    ASSUME NEW q \in Seq(Entry), NEW i \in DOMAIN q, NEW e \in Entry
    PROVE  Weight([q EXCEPT ![i] = e]) + q[i].overrun = Weight(q) + e.overrun
  <1> DEFINE r == [q EXCEPT ![i] = e]
             D == DOMAIN q
  <1>1. r \in Seq(Entry) /\ DOMAIN r = D /\ r[i] = e /\ \A j \in D \ {i} : r[j] = q[j]
    OBVIOUS
  <1>2. Weight(q) = Sum(Told(q), D) /\ Weight(r) = Sum(Told(r), D)
    BY <1>1, SeqOverruns, WeightIs
  <1>3. IsFiniteSet(D) /\ Counts(Told(q), D) /\ Counts(Told(r), D)
    BY <1>1, SeqOverruns DEF Overruns
  <1> HIDE DEF r
  <1>4. \A j \in D \ {i} : Told(q)[j] = Told(r)[j]
    BY <1>1 DEF Told
  <1>5. Sum(Told(r), D) + Told(q)[i] = Sum(Told(q), D) + Told(r)[i]
    BY <1>3, <1>4, SumChange
  <1>6. /\ Told(q)[i] = q[i].overrun + 1 /\ Told(r)[i] = e.overrun + 1
        /\ q[i].overrun \in Nat /\ e.overrun \in Nat /\ Weight(q) \in Nat /\ Weight(r) \in Nat
    <2>1. Told(q)[i] = q[i].overrun + 1 /\ Told(r)[i] = e.overrun + 1 BY <1>1 DEF Told
    <2>2. q[i] \in Entry OBVIOUS
    <2>3. q[i].overrun \in Nat /\ e.overrun \in Nat BY <2>2 DEF Entry
    <2> QED BY <1>1, <2>1, <2>3, WeightNat
  <1>7. Weight(r) + q[i].overrun = Weight(q) + e.overrun
    BY <1>2, <1>5, <1>6
  <1> QED BY <1>7 DEF r

-----------------------------------------------------------------------------
(* Lost, with the queues as a parameter.                                   *)

HeldBy(Q, S) == FoldFunctionOnSet(LAMBDA q, sum : Weight(q) + sum, 0, Q, S)

\* Lost, now and after a step.
LEMMA LostIs == \A S : Lost(S) = HeldBy(queue, S) /\ Lost(S)' = HeldBy(queue', S)
  <1>1. \A S : Lost(S) = HeldBy(queue, S)
    BY DEF Lost, HeldBy, FoldFunctionOnSet, MapThenFoldSet
  <1>2. \A S : Lost(S)' = HeldBy(queue', S)
    BY DEF Lost, HeldBy, FoldFunctionOnSet, MapThenFoldSet
  <1> QED BY <1>1, <1>2

Queues == [Threads -> Seq(Entry)]

Weights(Q) == [t \in Threads |-> Weight(Q[t])]

\* The weights of some queues can be summed.
LEMMA WeightsCount ==
    ASSUME NEW Q \in Queues, NEW S \in SUBSET Threads
    PROVE  IsFiniteSet(S) /\ Counts(Weights(Q), S)
  <1>1. \A t \in S : Weight(Q[t]) \in Nat
    BY WeightNat DEF Queues
  <1>2. IsFiniteSet(S)
    BY ThreadsFinite, FS_Subset
  <1> QED BY <1>1, <1>2 DEF Counts, Weights

\* HeldBy is the sum of the weights.
LEMMA HeldIs ==
    ASSUME NEW Q \in Queues, NEW S \in SUBSET Threads
    PROVE  HeldBy(Q, S) = Sum(Weights(Q), S)
  <1> DEFINE Eq(it) == it = [s \in SUBSET S |-> IF s = {} THEN 0
                                                ELSE Weight(Q[Pick(s)]) + it[s \ {Pick(s)}]]
  <1>1. HeldBy(Q, S) = (CHOOSE it : Eq(it))[S]
    BY DEF HeldBy, FoldFunctionOnSet, MapThenFoldSet, Pick
  <1>2. IsFiniteSet(S) /\ Counts(Weights(Q), S)
    BY WeightsCount
  <1>3. PICK it : Partials(it, Weights(Q), S)
    BY <1>2, Partial
  <1>4. /\ it \in [SUBSET S -> Nat] /\ \A s \in SUBSET S : it[s] = Added(it, Weights(Q), s)
        /\ Sum(Weights(Q), S) = it[S]
    BY <1>3 DEF Partials
  <1>5. ASSUME NEW s \in SUBSET S, s # {}
        PROVE  it[s] = Weight(Q[Pick(s)]) + it[s \ {Pick(s)}]
    <2>1. Pick(s) \in Threads BY <1>5, PickIn
    <2> QED BY <1>4, <1>5, <2>1 DEF Added, Weights
  <1>6. it[{}] = 0
    BY <1>4 DEF Added
  <1>7. Eq(it)
    <2>1. it = [s \in SUBSET S |-> it[s]] BY <1>4
    <2>2. \A s \in SUBSET S : it[s] = IF s = {} THEN 0 ELSE Weight(Q[Pick(s)]) + it[s \ {Pick(s)}]
      BY <1>5, <1>6
    <2> QED BY <2>1, <2>2
  <1> DEFINE jt == CHOOSE jt : Eq(jt)
  <1>8. Eq(jt)
    BY <1>7
  <1> HIDE DEF jt
  <1>9. \A s \in SUBSET S : jt[s] = IF s = {} THEN 0 ELSE Weight(Q[Pick(s)]) + jt[s \ {Pick(s)}]
    BY <1>8
  <1>10. Alike(it, jt, S)
    <2>1. it[{}] = jt[{}] BY <1>6, <1>9
    <2>2. ASSUME NEW s \in SUBSET S, s # {}, it[s \ {Pick(s)}] = jt[s \ {Pick(s)}]
          PROVE  it[s] = jt[s]
      BY <1>5, <1>9, <2>2
    <2> QED BY <2>1, <2>2 DEF Alike
  <1>11. \A s \in SUBSET S : it[s] = jt[s]
    BY <1>2, <1>10, Unique
  <1>12. S \in SUBSET S OBVIOUS
  <1>13. HeldBy(Q, S) = jt[S] BY <1>1 DEF jt
  <1> QED BY <1>4, <1>11, <1>12, <1>13

LEMMA HeldNat == ASSUME NEW Q \in Queues, NEW S \in SUBSET Threads PROVE HeldBy(Q, S) \in Nat
  BY HeldIs, WeightsCount, SumNat

\* The threads of S lose their queues.
LEMMA HeldGone ==
    ASSUME NEW Q \in Queues, NEW R \in Queues, NEW S \in SUBSET Threads,
           \A t \in Threads : R[t] = IF t \in S THEN <<>> ELSE Q[t]
    PROVE  HeldBy(Q, Threads) = HeldBy(R, Threads) + HeldBy(Q, S)
  <1> DEFINE U == Threads \ S
  <1>0. S \in SUBSET Threads /\ U \in SUBSET Threads /\ Threads \in SUBSET Threads /\ Threads \ S = U
    OBVIOUS
  <1> HIDE DEF U
  <1>1. /\ HeldBy(Q, Threads) = Sum(Weights(Q), Threads) /\ HeldBy(R, Threads) = Sum(Weights(R), Threads)
        /\ HeldBy(Q, S) = Sum(Weights(Q), S)
    BY <1>0, HeldIs
  <1>2. /\ IsFiniteSet(Threads) /\ IsFiniteSet(S) /\ IsFiniteSet(U)
        /\ Counts(Weights(Q), Threads) /\ Counts(Weights(R), Threads)
        /\ Counts(Weights(Q), S) /\ Counts(Weights(R), S) /\ Counts(Weights(R), U)
    BY <1>0, WeightsCount
  <1>3. Sum(Weights(Q), Threads) = Sum(Weights(Q), S) + Sum(Weights(Q), U)
    BY <1>0, <1>2, SumSplit
  <1>4. Sum(Weights(R), Threads) = Sum(Weights(R), S) + Sum(Weights(R), U)
    BY <1>0, <1>2, SumSplit
  <1>5. \A t \in U : Weights(R)[t] = Weights(Q)[t]
    BY DEF U, Weights
  <1>6. Sum(Weights(R), U) = Sum(Weights(Q), U)
    BY <1>2, <1>5, SumSame
  <1>7. \A t \in S : Weights(R)[t] = 0
    BY WeightEmpty DEF Weights
  <1>8. Sum(Weights(R), S) = 0
    BY <1>2, <1>7, SumZero
  <1>9. Sum(Weights(R), U) \in Nat /\ Sum(Weights(Q), S) \in Nat
    BY <1>2, SumNat
  <1> QED BY <1>1, <1>3, <1>4, <1>6, <1>8, <1>9

\* One thread's queue changes.
LEMMA HeldChange ==
    ASSUME NEW Q \in Queues, NEW R \in Queues, NEW t \in Threads,
           \A u \in Threads \ {t} : Q[u] = R[u]
    PROVE  HeldBy(R, Threads) + Weight(Q[t]) = HeldBy(Q, Threads) + Weight(R[t])
  <1>0. Threads \in SUBSET Threads OBVIOUS
  <1>1. HeldBy(Q, Threads) = Sum(Weights(Q), Threads) /\ HeldBy(R, Threads) = Sum(Weights(R), Threads)
    BY <1>0, HeldIs
  <1>2. IsFiniteSet(Threads) /\ Counts(Weights(Q), Threads) /\ Counts(Weights(R), Threads)
    BY <1>0, WeightsCount
  <1>3. \A u \in Threads \ {t} : Weights(Q)[u] = Weights(R)[u]
    BY DEF Weights
  <1>4. Sum(Weights(R), Threads) + Weights(Q)[t] = Sum(Weights(Q), Threads) + Weights(R)[t]
    BY <1>2, <1>3, SumChange
  <1>5. Weights(Q)[t] = Weight(Q[t]) /\ Weights(R)[t] = Weight(R[t])
    BY DEF Weights
  <1> QED BY <1>1, <1>4, <1>5

-----------------------------------------------------------------------------
(* Types: the guest's calls and the service thread.                        *)

\* The guest's calls on timers, and an expiry.
LEMMA CallsTyped ==
    ASSUME Typed, NEW id \in Ids,
           \/ \E event \in Events : create(event)
           \/ remove(id) \/ Expire(id) \/ \E how \in Arms : set(id, how)
    PROVE  Typed'
  <1> USE DEF Typed
  <1>1. CASE \E event \in Events : create(event)
    <2>1. PICK event \in Events : create(event) BY <1>1
    <2> DEFINE free == Ids \ DOMAIN timers
               new == CHOOSE i \in free : \A j \in free : i <= j
               timer == [fd |-> created + 1, event |-> event, armed |-> "off", expiries |-> 0, last |-> 0]
    <2>2. /\ created < MaxCreates /\ created' = created + 1
          /\ timers' = [i \in DOMAIN timers \cup {new} |-> IF i = new THEN timer ELSE timers[i]]
          /\ UNCHANGED <<batch, job, wake, stopping, execing, old, image, threads, signals, taken>>
          /\ \/ handle' = handle /\ pc' = pc
             \/ handle' = TRUE /\ pc' = "serve" /\ ~handle
      BY <2>1 DEF create, start_locked
    <2>3. timer \in Timer
      BY <2>2, Facts DEF Timer, Fds, Arms, HistoryTyped
    <2>4. new \in Ids
      <3>1. free # {} /\ free \in SUBSET Nat BY <2>1 DEF create, Ids
      <3>2. \E i \in free : \A j \in free : i <= j BY <3>1, Least
      <3> QED BY <3>2
    <2>5. TimersTyped'
      BY <2>2, <2>3, <2>4 DEF TimersTyped
    <2>6. ServiceTyped'
      BY <2>2 DEF ServiceTyped, Sending
    <2>7. ProcessTyped' /\ ThreadsTyped' /\ SignalsTyped'
      BY <2>2 DEF threads, signals, ProcessTyped, ThreadsTyped, SignalsTyped
    <2>8. HistoryTyped'
      BY <2>2, Facts DEF signals, HistoryTyped
    <2> QED BY <2>5, <2>6, <2>7, <2>8
  <1>2. CASE remove(id)
    <2>1. TimersTyped'
      BY <1>2 DEF remove, Restrict, TimersTyped
    <2>2. ServiceTyped' /\ ThreadsTyped' /\ SignalsTyped' /\ HistoryTyped' /\ ProcessTyped'
      BY <1>2 DEF remove, service, threads, signals, process, ServiceTyped, ThreadsTyped,
           SignalsTyped, HistoryTyped,
         ProcessTyped, Sending
    <2> QED BY <2>1, <2>2
  <1>3. CASE Expire(id)
    <2>1. TimersTyped'
      <3>1. /\ id \in DOMAIN timers /\ timers[id] \in Timer
            /\ timers' = [timers EXCEPT ![id] =
                            [timers[id] EXCEPT !.expiries = timers[id].expiries + 1,
                               !.armed = IF timers[id].armed = "once" THEN "off" ELSE timers[id].armed]]
        BY <1>3 DEF Expire, TimersTyped, Timer
      <3>2. timers'[id] \in Timer
        <4>1. PICK n \in Nat : n = timers[id].expiries + 1 BY <3>1 DEF Timer
        <4>2. PICK a \in Arms : a = IF timers[id].armed = "once" THEN "off" ELSE timers[id].armed
          BY <3>1 DEF Timer, Arms
        <4>3. timers'[id] = [timers[id] EXCEPT !.expiries = n, !.armed = a]
          BY <3>1, <4>1, <4>2
        <4> QED BY <3>1, <4>3 DEF Timer
      <3>3. DOMAIN timers' = DOMAIN timers /\ \A i \in DOMAIN timers : i # id => timers'[i] = timers[i]
        BY <3>1
      <3> QED BY <3>1, <3>2, <3>3 DEF TimersTyped
    <2>2. ServiceTyped' /\ ThreadsTyped' /\ SignalsTyped' /\ HistoryTyped' /\ ProcessTyped'
      BY <1>3 DEF Expire, service, threads, signals, process, ServiceTyped, ThreadsTyped,
           SignalsTyped, HistoryTyped,
         ProcessTyped, Sending
    <2> QED BY <2>1, <2>2
  <1>4. CASE \E how \in Arms : set(id, how)
    <2>1. TimersTyped'
      BY <1>4 DEF set, TimersTyped, Timer, Arms
    <2>2. ServiceTyped' /\ ThreadsTyped' /\ SignalsTyped' /\ HistoryTyped' /\ ProcessTyped'
      BY <1>4 DEF set, service, threads, signals, process, ServiceTyped, ThreadsTyped,
           SignalsTyped, HistoryTyped,
         ProcessTyped, Sending
    <2> QED BY <2>1, <2>2
  <1> QED BY <1>1, <1>2, <1>3, <1>4

\* What Choose chooses is a thread.
LEMMA TakersThreads == ASSUME Typed, pc \in Sending PROVE Takers \subseteq Threads
  BY Facts DEF Typed, ServiceTyped, ThreadsTyped, Takers, Notices, find_cpu_by_tid

\* The first of some threads is one: every worker is in threads_.
LEMMA FirstIn == ASSUME NEW S \in SUBSET Threads, S # {} PROVE First(S) \in Threads
  <1>1. CASE Main \in S BY <1>1 DEF First
  <1>2. CASE Main \notin S
    <2> DEFINE Hit == {i \in DOMAIN Order : Order[i] \in S}
    <2>1. /\ Order \in Seq(Workers) /\ Workers \subseteq Range(Order)
          /\ DOMAIN Order = 1 .. Len(Order) /\ Len(Order) \in Nat
      BY TimerAssumption
    <2>2. PICK t \in S : TRUE OBVIOUS
    <2>3. t \in Workers BY <1>2, <2>2 DEF Threads
    <2>4. Hit # {} /\ Hit \subseteq Nat BY <2>1, <2>2, <2>3 DEF Range
    <2>5. PICK i \in Hit : \A j \in Hit : i <= j
      BY <2>4, Least
    <2>6. \A j \in Hit : i <= j
      BY <2>5
    <2>7. i \in DOMAIN Order /\ Order[i] \in S /\ \A j \in 1 .. i - 1 : Order[j] \notin S
      <3>1. i \in 1 .. Len(Order) /\ Order[i] \in S BY <2>1
      <3>2. ASSUME NEW j \in 1 .. i - 1 PROVE j < i /\ j \in DOMAIN Order
        BY <3>1, <2>1
      <3> QED BY <3>1, <3>2, <2>1, <2>6
    <2>8. First(S) \in S
      BY <1>2, <2>7 DEF First
    <2> QED BY <2>8
  <1> QED BY <1>1, <1>2

\* A count is split at INT_MAX and nothing is lost.
LEMMA CappedIs ==
    ASSUME NEW n \in Nat
    PROVE  Capped(n) \in 0 .. IntMax /\ Past(n) \in Nat /\ Capped(n) + Past(n) = n
  BY Facts DEF Capped, Past

\* epoll_wait returns no more than its array holds.
LEMMA WaitTyped == ASSUME Typed, Wait PROVE ServiceTyped'
  <1> USE DEF Typed
  <1>1. PICK some \in SUBSET Ready :
           /\ Cardinality(some) = (IF Cardinality(Ready) < MaxReady THEN Cardinality(Ready) ELSE MaxReady)
           /\ batch' \in SetToSeqs(some)
    BY DEF Wait
  <1>2. Ready \subseteq Ids \cup {Wake}
    BY DEF Ready, TimersTyped
  <1>3. IsFiniteSet(Ids \cup {Wake})
    <2>1. MaxTimers - 1 \in Int BY Facts
    <2>2. IsFiniteSet(Ids) BY <2>1, FS_Interval DEF Ids
    <2> QED BY <2>2, FS_AddElement
  <1>4. Cardinality(Ready) \in Nat
    BY <1>2, <1>3, FS_Subset, FS_CardinalityType
  <1>5. PICK n : n = Cardinality(some) OBVIOUS
  <1>6. n \in Nat /\ n <= MaxReady
    BY <1>1, <1>4, <1>5, Facts
  <1>7. batch' \in [1 .. n -> some]
    BY <1>1, <1>5 DEF SetToSeqs
  <1>8. batch' \in Seq(some) /\ Len(batch') = n
    BY <1>6, <1>7
  <1>9. batch' \in Seq(Ids \cup {Wake})
    BY <1>2, <1>8
  <1> QED BY <1>6, <1>8, <1>9 DEF Wait, ServiceTyped, Sending

\* What Read makes of a timer: its expiries are told apart from those past
\* INT_MAX.
Reads(id) ==
    LET e == timers[id].expiries
    IN  /\ id = Head(batch) /\ id \in Ids /\ e \in Nat \ {0} /\ timers[id].fd \in Fds
        /\ batch # <<>> /\ pc = "serve" /\ pc' = "choose"
        /\ job' = [id |-> id, fd |-> timers[id].fd, event |-> timers[id].event,
                   missed |-> Capped(e - 1), target |-> Nobody, total |-> Capped(e - 1)]
        /\ timers[id].event \in Notices
        /\ taken' = [taken EXCEPT ![timers[id].fd] = @ + e]
        /\ timers' = [timers EXCEPT ![id].expiries = 0]
        /\ unkept' = unkept + Past(e - 1)
        /\ Capped(e - 1) \in 0 .. IntMax /\ Past(e - 1) \in Nat
        /\ Capped(e - 1) + Past(e - 1) = e - 1

LEMMA ReadIs ==
    ASSUME Typed, Read
    PROVE  \E id \in DOMAIN timers : Reads(id)
  <1> DEFINE id == Head(batch)
             e == timers[id].expiries
  <1>1. /\ id \in DOMAIN timers /\ id \in Ids /\ timers[id] \in Timer /\ e > 0 /\ e \in Nat
    BY DEF Read, Typed, TimersTyped, Timer
  <1>2. PICK n \in Nat : n = e - 1 BY <1>1
  <1>3. Capped(n) \in 0 .. IntMax /\ Past(n) \in Nat /\ Capped(n) + Past(n) = n
    BY CappedIs
  <1>4. Capped(e - 1) \in 0 .. IntMax /\ Past(e - 1) \in Nat /\ Capped(e - 1) + Past(e - 1) = e - 1
    BY <1>2, <1>3
  <1>5. timers[id].fd \in Fds /\ timers[id].event \in Notices
    BY <1>1 DEF Timer
  <1>6. /\ batch # <<>> /\ pc = "serve" /\ pc' = "choose"
        /\ job' = [id |-> id, fd |-> timers[id].fd, event |-> timers[id].event,
                   missed |-> Capped(e - 1), target |-> Nobody, total |-> Capped(e - 1)]
        /\ taken' = [taken EXCEPT ![timers[id].fd] = @ + e]
        /\ timers' = [timers EXCEPT ![id].expiries = 0]
        /\ unkept' = unkept + Past(e - 1)
    BY DEF Read, At, Serves
  <1>7. e \in Nat \ {0} /\ id = Head(batch) BY <1>1
  <1> HIDE DEF id
  <1>8. Reads(id) BY <1>1, <1>4, <1>5, <1>6, <1>7 DEF Reads
  <1> QED BY <1>1, <1>8

LEMMA ReadTyped == ASSUME Typed, Read PROVE Typed'
  <1> USE DEF Typed
  <1>0. PICK id \in DOMAIN timers : Reads(id)
    BY ReadIs
  <1> DEFINE e == timers[id].expiries
  <1>1. /\ id = Head(batch) /\ id \in Ids /\ e \in Nat \ {0} /\ timers[id].fd \in Fds
        /\ batch # <<>> /\ pc = "serve" /\ pc' = "choose"
        /\ job' = [id |-> id, fd |-> timers[id].fd, event |-> timers[id].event,
         missed |-> Capped(e - 1), target |-> Nobody, total |-> Capped(e - 1)]
        /\ timers[id].event \in Notices
        /\ taken' = [taken EXCEPT ![timers[id].fd] = @ + e]
        /\ timers' = [timers EXCEPT ![id].expiries = 0]
        /\ unkept' = unkept + Past(e - 1)
        /\ Capped(e - 1) \in 0 .. IntMax /\ Past(e - 1) \in Nat
        /\ Capped(e - 1) + Past(e - 1) = e - 1
    BY <1>0 DEF Reads
  <1>2. TimersTyped'
    BY <1>1 DEF TimersTyped, Timer
  <1>3. UNCHANGED <<batch, process, threads, queue, sigpending, shared, told, created>>
    BY DEF Read
  <1>4. ServiceTyped'
    BY <1>1, <1>3 DEF ServiceTyped, Sending
  <1>5. ProcessTyped' /\ ThreadsTyped' /\ SignalsTyped'
    BY <1>3 DEF process, threads, ProcessTyped, ThreadsTyped, SignalsTyped
  <1>6. taken' \in [Fds -> Nat] /\ unkept' \in Nat
    BY <1>1 DEF HistoryTyped
  <1>7. HistoryTyped'
    BY <1>3, <1>6 DEF process, HistoryTyped
  <1> QED BY <1>2, <1>4, <1>5, <1>7

\* What merge_timer_overrun makes of the signal it finds.
Merges(i) ==
    LET t == job.target
        entry == queue[t][i]
        n == entry.overrun + 1 + job.missed
    IN  /\ t \in Threads /\ entry \in Entry /\ entry.id = job.id /\ job.fd \in Fds
        /\ n \in Nat /\ Capped(n) \in 0 .. IntMax /\ Past(n) \in Nat /\ Capped(n) + Past(n) = n
        /\ queue' = [queue EXCEPT ![t][i] =
                      [entry EXCEPT !.overrun = Capped(n), !.from = entry.from \cup {job.fd}]]
        /\ job' = [job EXCEPT !.total = Capped(n)]
        /\ unkept' = unkept + Past(n)
        /\ pc = "merge" /\ pc' = "record"

LEMMA MergeIs ==
    ASSUME Typed, merge_timer_overrun
    PROVE  \E i \in DOMAIN queue[job.target] : Merges(i)
  <1> USE DEF Typed
  <1> DEFINE t == job.target
             i == CHOOSE i \in Merged : \A j \in Merged : i <= j
             entry == queue[t][i]
             n == entry.overrun + 1 + job.missed
  <1>1. /\ pc = "merge" /\ pc' = "record" /\ Merged # {}
        /\ queue' = [queue EXCEPT ![t][i] = [entry EXCEPT !.overrun = Raised(entry), !.from = @ \cup {job.fd}]]
        /\ job' = [job EXCEPT !.total = Raised(entry)]
        /\ unkept' = unkept + Past(n)
    BY DEF merge_timer_overrun, At, Serves
  <1>2. t \in Threads /\ queue[t] \in Seq(Entry) /\ job.fd \in Fds /\ job.missed \in Nat
    BY <1>1 DEF ServiceTyped, SignalsTyped, Sending
  <1>3. Merged \in SUBSET Nat /\ Merged \subseteq DOMAIN queue[t] /\ \A j \in Merged : queue[t][j].id = job.id
    BY <1>2 DEF Merged
  <1>4. \E j \in Merged : \A k \in Merged : j <= k
    BY <1>1, <1>3, Least
  <1>5. i \in Merged
    BY <1>4
  <1> HIDE DEF i
  <1>6. i \in DOMAIN queue[t] /\ entry \in Entry /\ entry.id = job.id
    BY <1>2, <1>3, <1>5
  <1>7. n \in Nat
    BY <1>2, <1>6 DEF Entry
  <1>8. Capped(n) \in 0 .. IntMax /\ Past(n) \in Nat /\ Capped(n) + Past(n) = n
    BY <1>7, CappedIs
  <1>9. Raised(entry) = Capped(n)
    BY DEF Raised
  <1>10. queue' = [queue EXCEPT ![t][i] =
                    [entry EXCEPT !.overrun = Capped(n), !.from = entry.from \cup {job.fd}]]
    BY <1>1, <1>9
  <1>11. job' = [job EXCEPT !.total = Capped(n)]
    BY <1>1, <1>9
  <1> QED BY <1>1, <1>2, <1>6, <1>7, <1>8, <1>10, <1>11 DEF Merges

LEMMA MergeTyped == ASSUME Typed, merge_timer_overrun PROVE Typed'
  <1> USE DEF Typed
  <1>0. PICK i \in DOMAIN queue[job.target] : Merges(i)
    BY MergeIs
  <1> DEFINE t == job.target
             entry == queue[t][i]
             n == entry.overrun + 1 + job.missed
  <1>1. /\ t \in Threads /\ entry \in Entry /\ job.fd \in Fds /\ Capped(n) \in 0 .. IntMax /\ Past(n) \in Nat
        /\ queue' = [queue EXCEPT ![t][i] =
                      [entry EXCEPT !.overrun = Capped(n), !.from = entry.from \cup {job.fd}]]
        /\ job' = [job EXCEPT !.total = Capped(n)] /\ unkept' = unkept + Past(n)
        /\ pc = "merge" /\ pc' = "record"
    BY <1>0 DEF Merges
  <1>2. UNCHANGED <<timers, batch, process, threads, sigpending, shared, told, created, taken>>
    BY DEF merge_timer_overrun
  <1>3. TimersTyped' /\ ProcessTyped' /\ ThreadsTyped'
    BY <1>2 DEF process, threads, TimersTyped, ProcessTyped, ThreadsTyped
  <1>4. ServiceTyped'
    <2>1. job' = [job EXCEPT !.total = Capped(n)] BY <1>1
    <2>2. job'.id = job.id /\ job'.missed = job.missed BY <2>1
    <2>3. job'.total = Capped(n) \/ job'.total = job.total
      BY <2>1
    <2> QED BY <1>1, <1>2, <2>2, <2>3 DEF ServiceTyped, Sending
  <1>5. SignalsTyped'
    <2>1. PICK e : e = [entry EXCEPT !.overrun = Capped(n), !.from = entry.from \cup {job.fd}]
      OBVIOUS
    <2>2. e \in Entry
      <3>1. PICK o \in 0 .. IntMax : o = Capped(n) BY <1>1
      <3>2. PICK s \in SUBSET Fds : s = entry.from \cup {job.fd} BY <1>1 DEF Entry
      <3>3. e = [entry EXCEPT !.overrun = o, !.from = s] BY <2>1, <3>1, <3>2
      <3> QED BY <1>1, <3>3 DEF Entry
    <2>3. queue' = [queue EXCEPT ![t][i] = e] BY <1>1, <2>1
    <2>4. queue[t] \in Seq(Entry) BY <1>1 DEF SignalsTyped
    <2>5. PICK q : q = [queue[t] EXCEPT ![i] = e] OBVIOUS
    <2>6. q \in Seq(Entry) /\ Len(q) = Len(queue[t]) BY <2>2, <2>4, <2>5
    <2>7. queue' = [queue EXCEPT ![t] = q] BY <2>3, <2>5
    <2>8. queue' \in [Threads -> Seq(Entry)] BY <1>1, <2>6, <2>7 DEF SignalsTyped
    <2>9. \A u \in Threads : Len(queue'[u]) <= Cap BY <1>1, <2>6, <2>7 DEF SignalsTyped
    <2> QED BY <1>2, <2>8, <2>9 DEF SignalsTyped
  <1>6. HistoryTyped'
    BY <1>1, <1>2 DEF process, HistoryTyped
  <1> QED BY <1>3, <1>4, <1>5, <1>6

LEMMA PushTyped == ASSUME Typed, push_pending PROVE Typed'
  <1> USE DEF Typed
  <1> DEFINE t == job.target
  <1>1. /\ pc = "push" /\ pc' = "record" /\ t \in Threads /\ job.fd \in Fds
        /\ job.id \in Ids /\ job.missed \in 0 .. IntMax /\ batch # <<>> /\ queue[t] \in Seq(Entry)
        /\ UNCHANGED <<timers, batch, job, process, threads, shared, told, created, taken>>
    BY DEF push_pending, At, Serves, ServiceTyped, SignalsTyped, Sending
  <1>2. TimersTyped' /\ ProcessTyped' /\ ThreadsTyped'
    BY <1>1 DEF process, threads, TimersTyped, ProcessTyped, ThreadsTyped
  <1>3. ServiceTyped'
    BY <1>1 DEF ServiceTyped, Sending
  <1>4. CASE Room
    <2> DEFINE e == [fd |-> job.fd, id |-> job.id, overrun |-> job.missed, from |-> {job.fd}]
    <2>1. queue' = [queue EXCEPT ![t] = Append(@, e)] /\ UNCHANGED <<sigpending, unkept>>
      BY <1>4 DEF push_pending
    <2>2. e \in Entry BY <1>1 DEF Entry
    <2> HIDE DEF e
    <2>3. PICK q : q = Append(queue[t], e) OBVIOUS
    <2>4. q \in Seq(Entry) /\ Len(q) = Len(queue[t]) + 1 BY <1>1, <2>2, <2>3
    <2>5. Len(q) <= Cap BY <1>1, <1>4, <2>4, Facts DEF Room
    <2>6. queue' = [queue EXCEPT ![t] = q] BY <2>1, <2>3
    <2>7. queue' \in [Threads -> Seq(Entry)] /\ \A u \in Threads : Len(queue'[u]) <= Cap
      BY <1>1, <2>4, <2>5, <2>6 DEF SignalsTyped
    <2>8. SignalsTyped' BY <1>1, <2>1, <2>7 DEF SignalsTyped
    <2>9. HistoryTyped' BY <1>1, <2>1 DEF process, HistoryTyped
    <2> QED BY <1>2, <1>3, <2>8, <2>9
  <1>5. CASE ~Room
    <2>1. /\ sigpending' = [sigpending EXCEPT ![t] = @ \cup {job.fd}]
          /\ unkept' = unkept + job.missed + 1 /\ queue' = queue
      BY <1>5 DEF push_pending
    <2>2. SignalsTyped' BY <1>1, <2>1 DEF SignalsTyped
    <2>3. HistoryTyped' BY <1>1, <2>1 DEF process, HistoryTyped
    <2> QED BY <1>2, <1>3, <2>2, <2>3
  <1> QED BY <1>4, <1>5

\* Record goes to the next ready event.
LEMMA RecordTyped == ASSUME Typed, Record PROVE Typed'
  <1> USE DEF Typed
  <1>1. /\ pc = "record" /\ pc' = "serve" /\ batch # <<>> /\ batch' = Tail(batch) /\ job' = NoJob
        /\ UNCHANGED <<process, threads, signals, created, taken>>
    BY DEF Record, At, Serves, ServiceTyped
  <1>2. TimersTyped'
    <2>1. job.total \in Nat BY DEF ServiceTyped
    <2> QED BY <2>1 DEF Record, TimersTyped, Timer
  <1>3. ServiceTyped'
    <2>1. batch' \in Seq(Ids \cup {Wake}) /\ Len(batch') <= MaxReady
      BY <1>1, Facts DEF ServiceTyped
    <2>2. job'.id = 0 /\ job'.missed = 0 /\ job'.total = 0 BY <1>1 DEF NoJob
    <2>3. 0 \in 0 .. IntMax /\ 0 \in Ids BY Facts
    <2> QED BY <1>1, <2>1, <2>2, <2>3 DEF ServiceTyped, Sending
  <1>4. ProcessTyped' /\ ThreadsTyped' /\ SignalsTyped' /\ HistoryTyped'
    BY <1>1 DEF process, threads, signals, ProcessTyped, ThreadsTyped, SignalsTyped, HistoryTyped
  <1> QED BY <1>2, <1>3, <1>4

LEMMA ServiceStepTyped == ASSUME Typed, Service PROVE Typed'
  <1> USE DEF Typed
  <1>1. CASE Wait
    <2>1. UNCHANGED <<timers, pc, job, process, threads, signals, created, taken>> BY <1>1 DEF Wait
    <2> QED BY <1>1, <2>1, WaitTyped DEF process, threads, signals,
                 TimersTyped, ProcessTyped, ThreadsTyped, SignalsTyped, HistoryTyped
  <1>2. CASE Woken \/ Skip \/ NotMerged
    <2>1. ServiceTyped'
      <3>1. batch # <<>> => Tail(batch) \in Seq(Ids \cup {Wake}) /\ Len(Tail(batch)) <= MaxReady
        BY Facts DEF ServiceTyped
      <3> QED BY <1>2, <3>1 DEF Woken, Skip, NotMerged, At, Serves, ServiceTyped, Sending
    <2>2. UNCHANGED <<timers, process, threads, signals, created, taken>>
      BY <1>2 DEF Woken, Skip, NotMerged
    <2> QED BY <2>1, <2>2 DEF process, threads, signals,
                 TimersTyped, ProcessTyped, ThreadsTyped, SignalsTyped, HistoryTyped
  <1>3. CASE Read BY <1>3, ReadTyped
  <1>4. CASE Choose
    <2>1. pc = "choose" /\ pc' = "merge" /\ Takers # {} /\ job' = [job EXCEPT !.target = First(Takers)]
          /\ UNCHANGED <<timers, batch, process, threads, signals, created, taken>>
      BY <1>4 DEF Choose, At, Serves
    <2>2. First(Takers) \in Threads BY <2>1, TakersThreads, FirstIn DEF Sending
    <2>3. PICK v \in Threads : v = First(Takers) BY <2>2
    <2>4. job' = [job EXCEPT !.target = v] BY <2>1, <2>3
    <2>5. \/ job' = job /\ job.target = v
          \/ /\ job'.id = job.id /\ job'.missed = job.missed /\ job'.total = job.total
             /\ job'.fd = job.fd /\ job'.event = job.event /\ job'.target = v
      BY <2>4
    <2>6. ServiceTyped' BY <2>1, <2>5 DEF ServiceTyped, Sending
    <2> QED BY <2>1, <2>6 DEF process, threads, signals,
                 TimersTyped, ProcessTyped, ThreadsTyped, SignalsTyped, HistoryTyped
  <1>5. CASE ChooseNone
    <2>1. /\ pc = "choose" /\ pc' = "record" /\ job.fd \in Fds
          /\ UNCHANGED <<timers, batch, job, process, threads, queue, sigpending, told, created, taken>>
          /\ shared' \in {shared, shared \cup {job.fd}} /\ unkept' = unkept + job.missed + 1
          /\ job.missed \in Nat
      BY <1>5 DEF ChooseNone, At, Serves, ServiceTyped, Sending
    <2>2. ServiceTyped' BY <2>1 DEF ServiceTyped, Sending
    <2>3. SignalsTyped' BY <2>1 DEF SignalsTyped
    <2>4. HistoryTyped' BY <2>1 DEF process, HistoryTyped
    <2> QED BY <2>1, <2>2, <2>3, <2>4 DEF process, threads, TimersTyped, ProcessTyped, ThreadsTyped
  <1>6. CASE merge_timer_overrun BY <1>6, MergeTyped
  <1>7. CASE push_pending BY <1>7, PushTyped
  <1>8. CASE Record BY <1>8, RecordTyped
  <1> QED BY <1>1, <1>2, <1>3, <1>4, <1>5, <1>6, <1>7, <1>8 DEF Service

-----------------------------------------------------------------------------
(* Types: the threads' steps and the process's.                            *)

\* Numbers that the account needs.
LEMMA QueuesAre == ASSUME Typed PROVE queue \in Queues
  BY DEF Typed, SignalsTyped, Queues

LEMMA LostNat == ASSUME Typed, NEW S \in SUBSET Threads PROVE Lost(S) \in Nat
  BY QueuesAre, LostIs, HeldNat

LEMMA FlyingNat == ASSUME Typed PROVE Flying \in Nat
  BY DEF Typed, ServiceTyped, Flying

\* The queues without those of S.
LEMMA GoneTyped ==
    ASSUME Typed, NEW S, Gone(S)
    PROVE  /\ queue' \in [Threads -> Seq(Entry)] /\ \A t \in Threads : Len(queue'[t]) <= Cap
           /\ \A t \in Threads : queue'[t] = IF t \in S THEN <<>> ELSE queue[t]
           /\ \A t \in Threads : sigpending'[t] = IF t \in S THEN {} ELSE sigpending[t]
           /\ sigpending' \in [Threads -> SUBSET Fds]
  <1>1. \A t \in Threads : queue[t] \in Seq(Entry) /\ Len(queue[t]) <= Cap
    BY DEF Typed, SignalsTyped
  <1>2. <<>> \in Seq(Entry) /\ Len(<<>>) <= Cap
    BY Facts
  <1>3. \A t \in Threads : queue'[t] = IF t \in S THEN <<>> ELSE queue[t]
    BY DEF Gone
  <1>4. queue' = [t \in Threads |-> queue'[t]]
    BY DEF Gone
  <1>5. \A t \in Threads : queue'[t] \in Seq(Entry) /\ Len(queue'[t]) <= Cap
    BY <1>1, <1>2, <1>3
  <1>6. queue' \in [Threads -> Seq(Entry)]
    BY <1>4, <1>5
  <1>7. /\ \A t \in Threads : sigpending'[t] = IF t \in S THEN {} ELSE sigpending[t]
        /\ sigpending' \in [Threads -> SUBSET Fds]
    BY DEF Gone, Typed, SignalsTyped
  <1> QED BY <1>3, <1>5, <1>6, <1>7

\* What the threads do with their signals, and their end.
LEMMA ThreadStepTyped ==
    ASSUME Typed, NEW t \in Threads, Take(t) \/ Fold(t) \/ TakeBit(t) \/ Mask(t) \/ End(t) \/ Reap(t)
    PROVE  Typed'
  <1> USE DEF Typed
  <1>1. TimersTyped' /\ ServiceTyped' /\ ProcessTyped' /\ UNCHANGED <<created, old, image, taken>>
    BY DEF Take, Fold, TakeBit, Mask, End, Reap, service, process, TimersTyped, ServiceTyped,
         ProcessTyped, Sending
  <1>2. CASE Take(t)
    <2>1. /\ queue[t] # <<>> /\ queue' = [queue EXCEPT ![t] = Tail(@)] /\ told' = told + Head(queue[t]).overrun + 1
          /\ UNCHANGED <<threads, sigpending, shared, unkept>>
      BY <1>2 DEF Take
    <2>2. queue[t] \in Seq(Entry) /\ Len(queue[t]) <= Cap BY DEF SignalsTyped
    <2>3. PICK q : q = Tail(queue[t]) OBVIOUS
    <2>4. q \in Seq(Entry) /\ Len(q) <= Cap /\ Head(queue[t]) \in Entry BY <2>1, <2>2, <2>3, Facts
    <2>5. queue' = [queue EXCEPT ![t] = q] BY <2>1, <2>3
    <2>6. queue' \in [Threads -> Seq(Entry)] /\ \A u \in Threads : Len(queue'[u]) <= Cap
      BY <2>4, <2>5 DEF SignalsTyped
    <2>7. SignalsTyped' BY <2>1, <2>6 DEF SignalsTyped
    <2>8. Head(queue[t]).overrun \in Nat BY <2>4 DEF Entry
    <2>9. HistoryTyped' BY <1>1, <2>1, <2>8 DEF HistoryTyped
    <2> QED BY <1>1, <2>1, <2>7, <2>9 DEF threads, ThreadsTyped
  <1>3. CASE Fold(t)
    <2>1. /\ queue[t] # <<>> /\ queue' = [queue EXCEPT ![t] = Tail(@)] /\ unkept' = unkept + Head(queue[t]).overrun + 1
          /\ sigpending' = [sigpending EXCEPT ![t] = @ \cup {Head(queue[t]).fd}]
          /\ UNCHANGED <<threads, shared, told>>
      BY <1>3 DEF Fold
    <2>2. queue[t] \in Seq(Entry) /\ Len(queue[t]) <= Cap BY DEF SignalsTyped
    <2>3. PICK q : q = Tail(queue[t]) OBVIOUS
    <2>4. q \in Seq(Entry) /\ Len(q) <= Cap /\ Head(queue[t]) \in Entry BY <2>1, <2>2, <2>3, Facts
    <2>5. queue' = [queue EXCEPT ![t] = q] BY <2>1, <2>3
    <2>6. queue' \in [Threads -> Seq(Entry)] /\ \A u \in Threads : Len(queue'[u]) <= Cap
      BY <2>4, <2>5 DEF SignalsTyped
    <2>7. Head(queue[t]).overrun \in Nat /\ Head(queue[t]).fd \in Fds BY <2>4 DEF Entry
    <2>8. PICK f \in Fds : f = Head(queue[t]).fd BY <2>7
    <2>9. sigpending' = [sigpending EXCEPT ![t] = @ \cup {f}] BY <2>1, <2>8
    <2>10. SignalsTyped' BY <2>1, <2>6, <2>9 DEF SignalsTyped
    <2>11. HistoryTyped' BY <1>1, <2>1, <2>7 DEF HistoryTyped
    <2> QED BY <1>1, <2>1, <2>10, <2>11 DEF threads, ThreadsTyped
  <1>4. CASE TakeBit(t)
    <2>1. SignalsTyped' BY <1>4 DEF TakeBit, SignalsTyped
    <2>2. ThreadsTyped' /\ HistoryTyped' BY <1>1, <1>4 DEF TakeBit, threads, ThreadsTyped, HistoryTyped
    <2> QED BY <1>1, <2>1, <2>2
  <1>5. CASE Mask(t)
    <2>1. ThreadsTyped' BY <1>5 DEF Mask, ThreadsTyped
    <2>2. SignalsTyped' /\ HistoryTyped' BY <1>1, <1>5 DEF Mask, signals, SignalsTyped, HistoryTyped
    <2> QED BY <1>1, <2>1, <2>2
  <1>6. CASE End(t)
    <2>1. ThreadsTyped' BY <1>6 DEF End, ThreadsTyped
    <2>2. SignalsTyped' /\ HistoryTyped' BY <1>1, <1>6 DEF End, signals, SignalsTyped, HistoryTyped
    <2> QED BY <1>1, <2>1, <2>2
  <1>7. CASE Reap(t)
    <2>1. ThreadsTyped' BY <1>7 DEF Reap, ThreadsTyped
    <2>2. Gone({t}) /\ unkept' = unkept + Lost({t}) /\ UNCHANGED <<shared, told>> BY <1>7 DEF Reap
    <2>3. SignalsTyped' BY <2>2, GoneTyped DEF SignalsTyped
    <2>4. Lost({t}) \in Nat BY LostNat
    <2>5. HistoryTyped' BY <1>1, <2>2, <2>4 DEF HistoryTyped
    <2> QED BY <1>1, <2>1, <2>3, <2>5
  <1> QED BY <1>2, <1>4, <1>5, <1>6, <1>7, <1>3

\* The child starts with no timer and no service thread.
LEMMA ForkTyped == ASSUME Typed, NEW t \in Threads, Fork(t) PROVE Typed'
  <1> USE DEF Typed
  <1> DEFINE left == IF t = Main THEN Threads ELSE {t} \cup Workers
  <1>1. /\ timers' = <<>> /\ pc' = "none" /\ batch' = <<>> /\ job' = NoJob
        /\ handle' = FALSE /\ wake' = FALSE /\ live' = {t} /\ listed' = {}
        /\ Gone(left) /\ unkept' = unkept + Lost(left) + Flying
        /\ shared' = {} /\ old' = created
        /\ UNCHANGED <<stopping, execing, image, running, blocked, told, created, taken>>
    BY DEF Fork
  <1>2. left \in SUBSET Threads BY Facts
  <1> HIDE DEF left
  <1>3. TimersTyped'
    <2>1. DOMAIN timers' = {} BY <1>1
    <2> QED BY <2>1 DEF TimersTyped
  <1>4. ServiceTyped'
    <2>1. batch' \in Seq(Ids \cup {Wake}) /\ Len(batch') <= MaxReady BY <1>1, Facts
    <2>2. job'.id = 0 /\ job'.missed = 0 /\ job'.total = 0 BY <1>1 DEF NoJob
    <2>3. 0 \in 0 .. IntMax /\ 0 \in Ids BY Facts
    <2> QED BY <1>1, <2>1, <2>2, <2>3 DEF ServiceTyped, Sending
  <1>5. ProcessTyped' /\ ThreadsTyped'
    BY <1>1 DEF ProcessTyped, ThreadsTyped
  <1>6. SignalsTyped'
    BY <1>1, GoneTyped DEF SignalsTyped
  <1>7. HistoryTyped'
    <2>1. Lost(left) \in Nat /\ Flying \in Nat BY <1>2, LostNat, FlyingNat
    <2>2. unkept' \in Nat BY <1>1, <2>1 DEF HistoryTyped
    <2> QED BY <1>1, <2>2 DEF HistoryTyped
  <1> QED BY <1>3, <1>4, <1>5, <1>6, <1>7

\* execve and ~Emulator.
LEMMA ProcessStepTyped ==
    ASSUME Typed, ExecClear \/ ExecPending \/ stop \/ Joined
    PROVE  Typed'
  <1> USE DEF Typed
  <1>1. CASE ExecClear
    <2>1. /\ timers' = <<>> /\ execing' = TRUE /\ live' = {Main} /\ listed' = {}
          /\ running' = [t \in Threads |-> t = Main] /\ Gone(Workers) /\ unkept' = unkept + Lost(Workers)
          /\ UNCHANGED <<service, handle, wake, stopping, old, image, blocked, shared, told, created, taken>>
      BY <1>1 DEF ExecClear
    <2>2. TimersTyped'
      <3>1. DOMAIN timers' = {} BY <2>1
      <3> QED BY <3>1 DEF TimersTyped
    <2>3. ServiceTyped' /\ ProcessTyped'
      BY <2>1 DEF service, ServiceTyped, ProcessTyped, Sending
    <2>4. ThreadsTyped'
      <3>1. running' \in [Threads -> BOOLEAN] BY <2>1
      <3> QED BY <2>1, <3>1, Facts DEF ThreadsTyped
    <2>5. SignalsTyped' BY <2>1, GoneTyped DEF SignalsTyped
    <2>6. HistoryTyped'
      <3>1. Lost(Workers) \in Nat BY LostNat, Facts
      <3> QED BY <2>1, <3>1 DEF HistoryTyped
    <2> QED BY <2>2, <2>3, <2>4, <2>5, <2>6
  <1>2. CASE ExecPending
    <2>1. /\ execing' = FALSE /\ image' = created /\ sigpending' = [sigpending EXCEPT ![Main] = {}]
          /\ \/ UNCHANGED <<queue, unkept>>
             \/ queue' = [queue EXCEPT ![Main] = <<>>] /\ unkept' = unkept + Lost({Main})
          /\ UNCHANGED <<timers, service, handle, wake, stopping, old, threads, shared, told, created, taken>>
      BY <1>2 DEF ExecPending
    <2>2. TimersTyped' /\ ServiceTyped' /\ ProcessTyped' /\ ThreadsTyped'
      BY <2>1 DEF service, threads, TimersTyped, ServiceTyped, ProcessTyped, ThreadsTyped, Sending
    <2>3. queue' \in [Threads -> Seq(Entry)] /\ \A u \in Threads : Len(queue'[u]) <= Cap
      <3>1. PICK q : q = <<>> OBVIOUS
      <3>2. q \in Seq(Entry) /\ Len(q) <= Cap BY <3>1, Facts
      <3>3. queue' = queue \/ queue' = [queue EXCEPT ![Main] = q] BY <2>1, <3>1
      <3> QED BY <3>2, <3>3 DEF SignalsTyped
    <2>4. SignalsTyped' BY <2>1, <2>3 DEF SignalsTyped
    <2>5. HistoryTyped'
      <3>1. Lost({Main}) \in Nat BY LostNat, Facts
      <3> QED BY <2>1, <3>1 DEF HistoryTyped
    <2> QED BY <2>2, <2>4, <2>5
  <1>3. CASE stop
    <2>1. /\ timers' = <<>> /\ handle' = FALSE /\ wake' = handle /\ stopping' \in {"joining", "done"}
          /\ UNCHANGED <<service, execing, old, image, threads, signals, created, taken>>
      BY <1>3 DEF stop
    <2>2. TimersTyped'
      <3>1. DOMAIN timers' = {} BY <2>1
      <3> QED BY <3>1 DEF TimersTyped
    <2>3. ServiceTyped' /\ ThreadsTyped' /\ SignalsTyped' /\ HistoryTyped'
      BY <2>1 DEF service, threads, signals, ServiceTyped, ThreadsTyped, SignalsTyped,
           HistoryTyped, Sending
    <2>4. ProcessTyped' BY <2>1 DEF ProcessTyped
    <2> QED BY <2>2, <2>3, <2>4
  <1>4. CASE Joined
    BY <1>4 DEF Joined, service, threads, signals, TimersTyped, ServiceTyped, ProcessTyped,
         ThreadsTyped,
       SignalsTyped, HistoryTyped, Sending
  <1> QED BY <1>1, <1>2, <1>3, <1>4

\* Every step keeps the types.
LEMMA TypedStep == ASSUME Typed, Next PROVE Typed'
  <1>1. CASE Service BY <1>1, ServiceStepTyped
  <1>2. CASE \E event \in Events : create(event)
    <2>1. 0 \in Ids BY Facts
    <2> QED BY <1>2, <2>1, CallsTyped
  <1>3. CASE \E id \in Ids : remove(id) \/ Expire(id) \/ \E how \in Arms : set(id, how)
    <2>1. PICK id \in Ids : remove(id) \/ Expire(id) \/ \E how \in Arms : set(id, how)
      BY <1>3
    <2> QED BY <2>1, CallsTyped
  <1>4. CASE \E t \in Threads : Take(t) \/ Fold(t) \/ TakeBit(t) \/ Mask(t) \/ End(t) \/ Reap(t) \/ Fork(t)
    <2>1. PICK t \in Threads : Take(t) \/ Fold(t) \/ TakeBit(t) \/ Mask(t) \/ End(t) \/ Reap(t) \/ Fork(t)
      BY <1>4
    <2> QED BY <2>1, ThreadStepTyped, ForkTyped
  <1>5. CASE ExecClear \/ ExecPending \/ stop \/ Joined BY <1>5, ProcessStepTyped
  <1> QED BY <1>1, <1>2, <1>3, <1>4, <1>5 DEF Next

LEMMA TypedStutter == ASSUME Typed, UNCHANGED vars PROVE Typed'
  BY DEF vars, service, threads, signals, process, Typed, TimersTyped, ServiceTyped, ProcessTyped,
       ThreadsTyped,
     SignalsTyped, HistoryTyped, Sending

\* The types, always.
LEMMA AlwaysTyped == Spec => []Typed
  <1>1. Typed /\ [Next]_vars => Typed' BY TypedStep, TypedStutter
  <1> QED BY <1>1, InitialTyped, PTL DEF Spec

\* No overrun passes INT_MAX, no queue its capacity, and the batch fits the
\* array of epoll_wait (GuestTimers::run, CPU::push_pending).
THEOREM TimerTypes == Spec => []TypeOK
  <1>1. Typed => TypeOK
    <2> SUFFICES ASSUME Typed PROVE TypeOK OBVIOUS
    <2>1. Range(batch) \subseteq Ids \cup {Wake}
      BY DEF Typed, ServiceTyped, Range
    <2>2. \A t \in Threads : Range(queue[t]) \subseteq Entry /\ Len(queue[t]) <= Cap
      <3>1. \A t \in Threads : queue[t] \in Seq(Entry) /\ Len(queue[t]) <= Cap
        BY DEF Typed, SignalsTyped
      <3> QED BY <3>1 DEF Range
    <2> QED BY <2>1, <2>2 DEF Typed, TimersTyped, ServiceTyped, ProcessTyped, ThreadsTyped,
         SignalsTyped, TypeOK
  <1> QED BY <1>1, AlwaysTyped, PTL

-----------------------------------------------------------------------------
(* The service thread at the end of the process.                           *)

\* Every step keeps Serving: create and stop look at handle under mu_.
LEMMA ServingStep == ASSUME Serving, Next PROVE Serving'
  <1> USE DEF Serving, Quiet
  <1>1. CASE Service
    <2>1. pc \notin {"none", "ended"}
      BY <1>1 DEF Service, Wait, Woken, Skip, Read, Choose, ChooseNone, merge_timer_overrun, NotMerged,
         push_pending, Record, At
    <2>2. UNCHANGED <<handle, stopping>>
      BY <1>1 DEF Service, Wait, Woken, Skip, Read, Choose, ChooseNone, merge_timer_overrun, NotMerged,
         push_pending, Record, process
    <2> QED BY <2>1, <2>2
  <1>2. CASE \E event \in Events : create(event)
    BY <1>2 DEF create, start_locked, Guest
  <1>3. CASE \E id \in Ids : remove(id) \/ Expire(id) \/ \E how \in Arms : set(id, how)
    <2>1. UNCHANGED <<service, process>> BY <1>3 DEF remove, Expire, set
    <2> QED BY <2>1 DEF service, process
  <1>4. CASE \E t \in Threads : Take(t) \/ Fold(t) \/ TakeBit(t) \/ Mask(t) \/ End(t) \/ Reap(t)
    BY <1>4 DEF Take, Fold, TakeBit, Mask, End, Reap, service, process
  <1>5. CASE \E t \in Threads : Fork(t)
    BY <1>5 DEF Fork
  <1>6. CASE ExecClear \/ ExecPending
    BY <1>6 DEF ExecClear, ExecPending, service
  <1>7. CASE stop \/ Joined
    BY <1>7 DEF stop, Joined, Guest, At, service
  <1> QED BY <1>1, <1>2, <1>3, <1>4, <1>5, <1>6, <1>7 DEF Next

\* Serving, always.
LEMMA AlwaysServing == Spec => []Serving
  <1>1. Init => Serving BY DEF Init, Serving, Quiet
  <1>2. Serving /\ [Next]_vars => Serving'
    <2>1. Serving /\ UNCHANGED vars => Serving' BY DEF vars, service, process, Serving, Quiet
    <2> QED BY <2>1, ServingStep
  <1> QED BY <1>1, <1>2, PTL DEF Spec

\* Once ~Emulator has stopped the timers their thread sends nothing: either
\* it was joined, or no timer ever started it (GuestTimers::stop).
THEOREM StopsQuiet == Spec => []Quiet
  <1>1. Serving => Quiet BY DEF Serving
  <1> QED BY <1>1, AlwaysServing, PTL

-----------------------------------------------------------------------------
(* The child of a fork and the signals of its parent's timers.             *)

FreshSilent == Fresh /\ Silent

\* The signals of a queue with one more.
LEMMA AppendIs ==
    ASSUME NEW r \in Seq(Entry), NEW e
    PROVE  \A j \in DOMAIN Append(r, e) : Append(r, e)[j] = e \/ (j \in DOMAIN r /\ Append(r, e)[j] = r[j])
  <1>1. PICK q : q = Append(r, e) OBVIOUS
  <1>2. PICK n \in Nat : n = Len(r) OBVIOUS
  <1>3. DOMAIN r = 1 .. n /\ DOMAIN q = 1 .. n + 1 /\ q[n + 1] = e BY <1>1, <1>2
  <1>4. \A j \in DOMAIN r : q[j] = r[j] BY <1>1
  <1>5. \A j \in 1 .. n + 1 : j = n + 1 \/ j \in 1 .. n BY <1>2
  <1>6. \A j \in DOMAIN q : q[j] = e \/ (j \in DOMAIN r /\ q[j] = r[j])
    BY <1>3, <1>4, <1>5
  <1> QED BY <1>1, <1>6

\* Fork takes the parent's timers away, ...
LEMMA FreshStep == ASSUME Typed, Fresh, Next PROVE Fresh'
  <1> USE DEF Fresh
  <1>1. CASE Service
    <2>1. old' = old /\ \A id \in DOMAIN timers' : id \in DOMAIN timers /\ timers'[id].fd = timers[id].fd
      <3>1. CASE Read BY <1>1, <3>1 DEF Read, process, Typed, TimersTyped, Timer
      <3>2. CASE Record BY <1>1, <3>2 DEF Record, process, Typed, TimersTyped, Timer
      <3>3. CASE ~Read /\ ~Record
        BY <1>1, <3>3 DEF Service, Wait, Woken, Skip, Choose, ChooseNone, merge_timer_overrun,
             NotMerged,
           push_pending, process
      <3> QED BY <3>1, <3>2, <3>3
    <2> QED BY <2>1
  <1>2. CASE \E event \in Events : create(event)
    <2>1. PICK event \in Events : create(event) BY <1>2
    <2> DEFINE new == CHOOSE i \in Ids \ DOMAIN timers : \A j \in Ids \ DOMAIN timers : i <= j
               timer == [fd |-> created + 1, event |-> event, armed |-> "off", expiries |-> 0, last |-> 0]
    <2>2. timers' = [i \in DOMAIN timers \cup {new} |-> IF i = new THEN timer ELSE timers[i]] /\ old' = old
      BY <2>1 DEF create
    <2>3. timer.fd > old BY DEF Typed, HistoryTyped
    <2> HIDE DEF new, timer
    <2> QED BY <2>2, <2>3
  <1>3. CASE \E id \in Ids : remove(id) \/ Expire(id) \/ \E how \in Arms : set(id, how)
    <2>1. PICK id \in Ids : remove(id) \/ Expire(id) \/ \E how \in Arms : set(id, how)
      BY <1>3
    <2>2. old' = old /\ \A i \in DOMAIN timers' : i \in DOMAIN timers /\ timers'[i].fd = timers[i].fd
      <3>1. CASE remove(id) BY <3>1 DEF remove, Restrict, process
      <3>2. CASE Expire(id) BY <3>2 DEF Expire, process, Typed, TimersTyped, Timer
      <3>3. CASE \E how \in Arms : set(id, how) BY <3>3 DEF set, process, Typed, TimersTyped, Timer
      <3> QED BY <2>1, <3>1, <3>2, <3>3
    <2> QED BY <2>2
  <1>4. CASE \E t \in Threads : Take(t) \/ Fold(t) \/ TakeBit(t) \/ Mask(t) \/ End(t) \/ Reap(t)
    BY <1>4 DEF Take, Fold, TakeBit, Mask, End, Reap, process
  <1>5. CASE (\E t \in Threads : Fork(t)) \/ ExecClear \/ stop
    <2>1. timers' = <<>> BY <1>5 DEF Fork, ExecClear, stop
    <2>2. DOMAIN timers' = {} BY <2>1
    <2> QED BY <2>2
  <1>6. CASE ExecPending \/ Joined
    BY <1>6 DEF ExecPending, Joined
  <1> QED BY <1>1, <1>2, <1>3, <1>4, <1>5, <1>6 DEF Next

\* ... the signal on its way with the service thread, the process's bits and
\* the one live thread's.
LEMMA SilentStep == ASSUME Typed, Fresh, Silent, Next PROVE Silent'
  <1> USE DEF Silent, NothingOf
  <1>1. CASE Service
    <2>1. old' = old /\ live' = live
      BY <1>1 DEF Service, Wait, Woken, Skip, Read, Choose, ChooseNone, merge_timer_overrun, NotMerged,
         push_pending, Record, process, threads
    <2>2. CASE Read
      <3>1. PICK id \in DOMAIN timers : Reads(id) BY <2>2, ReadIs
      <3>2. job'.fd = timers[id].fd /\ job'.fd > old BY <3>1 DEF Reads, Fresh
      <3>3. UNCHANGED <<queue, sigpending, shared>> BY <2>2 DEF Read
      <3> QED BY <2>1, <3>2, <3>3
    <2>3. CASE Wait \/ Woken \/ Skip \/ NotMerged \/ Record
      BY <2>1, <2>3 DEF Wait, Woken, Skip, NotMerged, Record, At, Serves, signals
    <2>4. CASE Choose
      <3>1. pc = "choose" /\ UNCHANGED signals /\ job' = [job EXCEPT !.target = First(Takers)]
        BY <2>4 DEF Choose, At
      <3>2. job'.fd = job.fd BY <3>1
      <3> QED BY <2>1, <3>1, <3>2 DEF signals
    <2>5. CASE ChooseNone
      BY <2>1, <2>5 DEF ChooseNone, At, Serves
    <2>6. CASE merge_timer_overrun
      <3>1. PICK i \in DOMAIN queue[job.target] : Merges(i)
        BY <2>6, MergeIs
      <3> DEFINE t == job.target
                 entry == queue[t][i]
                 n == entry.overrun + 1 + job.missed
      <3>2. PICK e : e = [entry EXCEPT !.overrun = Capped(n), !.from = entry.from \cup {job.fd}]
        OBVIOUS
      <3>3. t \in Threads /\ queue' = [queue EXCEPT ![t][i] = e] /\ pc' = "record"
        BY <3>1, <3>2 DEF Merges
      <3>4. e.fd = entry.fd BY <3>2
      <3>5. UNCHANGED <<sigpending, shared>> BY <2>6 DEF merge_timer_overrun
      <3>6. \A u \in Threads : DOMAIN queue'[u] = DOMAIN queue[u]
                               /\ \A j \in DOMAIN queue[u] : queue'[u][j].fd = queue[u][j].fd
        <4>1. queue \in [Threads -> Seq(Entry)] BY DEF Typed, SignalsTyped
        <4>2. PICK q : q = [queue[t] EXCEPT ![i] = e] OBVIOUS
        <4>3. queue' = [queue EXCEPT ![t] = q] BY <3>3, <4>2
        <4>4. DOMAIN q = DOMAIN queue[t] /\ \A j \in DOMAIN queue[t] : q[j].fd = queue[t][j].fd
          BY <3>4, <4>2
        <4> QED BY <3>3, <4>1, <4>3, <4>4
      <3>7. live \subseteq Threads BY DEF Typed, ThreadsTyped
      <3> QED BY <2>1, <3>3, <3>5, <3>6, <3>7
    <2>7. CASE push_pending
      <3> DEFINE t == job.target
      <3>1. /\ pc = "push" /\ pc' = "record" /\ shared' = shared /\ job.fd > old
            /\ t \in Threads /\ queue \in [Threads -> Seq(Entry)] /\ sigpending \in [Threads -> SUBSET Fds]
            /\ live \subseteq Threads
        BY <2>7 DEF push_pending, At, Serves, Typed, ServiceTyped, SignalsTyped, ThreadsTyped, Sending
      <3>2. CASE Room
        <4> DEFINE e == [fd |-> job.fd, id |-> job.id, overrun |-> job.missed, from |-> {job.fd}]
        <4>1. queue' = [queue EXCEPT ![t] = Append(@, e)] /\ sigpending' = sigpending
          BY <2>7, <3>2 DEF push_pending
        <4>2. e.fd > old BY <3>1
        <4> HIDE DEF e
        <4>3. PICK q : q = Append(queue[t], e) OBVIOUS
        <4>4. queue' = [queue EXCEPT ![t] = q] BY <4>1, <4>3
        <4>5. queue[t] \in Seq(Entry) BY <3>1
        <4>6. \A j \in DOMAIN q : q[j] = e \/ (j \in DOMAIN queue[t] /\ q[j] = queue[t][j])
          BY <4>3, <4>5, AppendIs
        <4>7. \A u \in Threads : u # t => queue'[u] = queue[u] BY <3>1, <4>4
        <4>8. queue'[t] = q BY <3>1, <4>4
        <4>9. ASSUME NEW u \in live, NEW j \in DOMAIN queue'[u] PROVE queue'[u][j].fd > old
          BY <3>1, <4>2, <4>6, <4>7, <4>8
        <4> QED BY <2>1, <3>1, <4>1, <4>9
      <3>3. CASE ~Room
        <4>1. sigpending' = [sigpending EXCEPT ![t] = @ \cup {job.fd}] /\ queue' = queue
          BY <2>7, <3>3 DEF push_pending
        <4> QED BY <2>1, <3>1, <4>1
      <3> QED BY <3>2, <3>3
    <2> QED BY <1>1, <2>2, <2>3, <2>4, <2>5, <2>6, <2>7 DEF Service
  <1>2. CASE \E event \in Events : create(event)
    BY <1>2 DEF create, start_locked, threads, signals
  <1>3. CASE \E id \in Ids : remove(id) \/ Expire(id) \/ \E how \in Arms : set(id, how)
    <2>1. UNCHANGED <<service, process, threads, signals>> BY <1>3 DEF remove, Expire, set
    <2> QED BY <2>1 DEF service, process, threads, signals
  <1>4. CASE \E t \in Threads : Take(t) \/ Fold(t) \/ TakeBit(t) \/ Mask(t) \/ End(t) \/ Reap(t)
    <2>1. PICK t \in Threads : Take(t) \/ Fold(t) \/ TakeBit(t) \/ Mask(t) \/ End(t) \/ Reap(t)
      BY <1>4
    <2>2. UNCHANGED <<service, process>> /\ live' \subseteq live
      BY <2>1 DEF Take, Fold, TakeBit, Mask, End, Reap, threads
    <2>3. live \subseteq Threads /\ queue \in [Threads -> Seq(Entry)]
      BY DEF Typed, ThreadsTyped, SignalsTyped
    <2>4. CASE Take(t)
      <3>1. UNCHANGED <<sigpending, shared>> /\ queue' = [queue EXCEPT ![t] = Tail(@)] /\ queue[t] # <<>>
        BY <2>4 DEF Take
      <3>2. PICK q : q = Tail(queue[t]) OBVIOUS
      <3>3. queue' = [queue EXCEPT ![t] = q] BY <3>1, <3>2
      <3>4. queue[t] \in Seq(Entry) BY <2>3
      <3>5. \A j \in DOMAIN q : j + 1 \in DOMAIN queue[t] /\ q[j] = queue[t][j + 1]
        BY <3>1, <3>2, <3>4
      <3>6. ASSUME NEW u \in live', NEW j \in DOMAIN queue'[u] PROVE queue'[u][j].fd > old
        BY <2>2, <2>3, <3>3, <3>5
      <3> QED BY <2>2, <3>1, <3>6 DEF service, process
    <2>5. CASE Fold(t)
      <3>1. /\ shared' = shared /\ queue' = [queue EXCEPT ![t] = Tail(@)] /\ queue[t] # <<>> /\ t \in live
            /\ sigpending' = [sigpending EXCEPT ![t] = @ \cup {Head(queue[t]).fd}]
        BY <2>5 DEF Fold
      <3>2. PICK q : q = Tail(queue[t]) OBVIOUS
      <3>3. queue' = [queue EXCEPT ![t] = q] BY <3>1, <3>2
      <3>4. queue[t] \in Seq(Entry) BY <2>3
      <3>5. \A j \in DOMAIN q : j + 1 \in DOMAIN queue[t] /\ q[j] = queue[t][j + 1]
        BY <3>1, <3>2, <3>4
      <3>6. ASSUME NEW u \in live', NEW j \in DOMAIN queue'[u] PROVE queue'[u][j].fd > old
        BY <2>2, <2>3, <3>3, <3>5
      <3>7. PICK f : f = Head(queue[t]).fd OBVIOUS
      <3>8. 1 \in DOMAIN queue[t] /\ Head(queue[t]) = queue[t][1] BY <3>1, <3>4
      <3>9. f > old BY <3>1, <3>7, <3>8
      <3>10. sigpending' = [sigpending EXCEPT ![t] = @ \cup {f}] /\ sigpending \in [Threads -> SUBSET Fds]
        BY <3>1, <3>7 DEF Typed, SignalsTyped
      <3>11. \A u \in Threads : sigpending'[u] \subseteq sigpending[u] \cup {f} BY <3>10
      <3> QED BY <2>2, <2>3, <3>1, <3>6, <3>9, <3>11 DEF service, process
    <2>6. CASE TakeBit(t)
      <3>1. queue' = queue /\ shared' \subseteq shared /\ \A u \in Threads : sigpending'[u] \subseteq sigpending[u]
        BY <2>6 DEF TakeBit, Typed, SignalsTyped
      <3> QED BY <2>2, <2>3, <3>1 DEF service, process
    <2>7. CASE Mask(t) \/ End(t)
      BY <2>2, <2>7 DEF Mask, End, signals, service, process
    <2>8. CASE Reap(t)
      <3>1. Gone({t}) /\ shared' = shared BY <2>8 DEF Reap
      <3>2. \A u \in Threads : /\ queue'[u] = queue[u] \/ queue'[u] = <<>>
                               /\ sigpending'[u] = sigpending[u] \/ sigpending'[u] = {}
        BY <3>1, GoneTyped
      <3>3. DOMAIN <<>> = {} OBVIOUS
      <3> QED BY <2>2, <2>3, <3>1, <3>2, <3>3 DEF service, process
    <2> QED BY <2>1, <2>4, <2>6, <2>7, <2>8, <2>5
  <1>5. CASE \E t \in Threads : Fork(t)
    <2>1. PICK t \in Threads : Fork(t) BY <1>5
    <2> DEFINE left == IF t = Main THEN Threads ELSE {t} \cup Workers
    <2>2. t \in left OBVIOUS
    <2>3. pc' = "none" /\ shared' = {} /\ live' = {t} /\ Gone(left) BY <2>1 DEF Fork
    <2> HIDE DEF left
    <2>4. queue'[t] = <<>> /\ sigpending'[t] = {} BY <2>2, <2>3, GoneTyped
    <2>5. DOMAIN <<>> = {} OBVIOUS
    <2> QED BY <2>3, <2>4, <2>5
  <1>6. CASE ExecClear
    <2>1. Gone(Workers) /\ live' = {Main} /\ UNCHANGED <<service, shared, old>> /\ Main \in live
      BY <1>6 DEF ExecClear
    <2>2. queue'[Main] = queue[Main] /\ sigpending'[Main] = sigpending[Main] BY <2>1, GoneTyped, Facts
    <2> QED BY <2>1, <2>2 DEF service
  <1>7. CASE ExecPending
    <2>1. /\ UNCHANGED <<service, shared, old, live>> /\ sigpending' = [sigpending EXCEPT ![Main] = {}]
          /\ queue' = queue \/ queue' = [queue EXCEPT ![Main] = <<>>]
      BY <1>7 DEF ExecPending, threads
    <2>2. live \subseteq Threads /\ queue \in [Threads -> Seq(Entry)] /\ sigpending \in [Threads -> SUBSET Fds]
      BY DEF Typed, ThreadsTyped, SignalsTyped
    <2>3. PICK q : q = <<>> OBVIOUS
    <2>4. DOMAIN q = {} /\ (queue' = queue \/ queue' = [queue EXCEPT ![Main] = q]) BY <2>1, <2>3
    <2>5. \A u \in Threads : /\ queue'[u] = queue[u] \/ DOMAIN queue'[u] = {}
                             /\ sigpending'[u] = sigpending[u] \/ sigpending'[u] = {}
      BY <2>1, <2>2, <2>4
    <2> QED BY <2>1, <2>2, <2>5 DEF service
  <1>8. CASE stop \/ Joined
    BY <1>8 DEF stop, Joined, service, threads, signals
  <1> QED BY <1>1, <1>2, <1>3, <1>4, <1>5, <1>6, <1>7, <1>8 DEF Next

\* The child of a fork sees no signal of a timer of its parent, although the
\* parent's service thread may be anywhere in sending one
\* (GuestTimers::after_fork_child, fork_guest).
THEOREM ChildSilent == Spec => []Silent
  <1>1. Init => FreshSilent
    <2> SUFFICES ASSUME Init PROVE FreshSilent OBVIOUS
    <2>1. DOMAIN timers = {} /\ shared = {} /\ pc = "none" /\ live = Threads BY DEF Init
    <2>2. \A t \in Threads : DOMAIN queue[t] = {} /\ sigpending[t] = {} BY DEF Init
    <2> QED BY <2>1, <2>2 DEF FreshSilent, Fresh, Silent, NothingOf
  <1>2. Typed /\ FreshSilent /\ [Next]_vars => FreshSilent'
    <2>1. FreshSilent /\ UNCHANGED vars => FreshSilent'
      BY DEF vars, service, process, threads, signals, FreshSilent, Fresh, Silent, NothingOf
    <2> QED BY <2>1, FreshStep, SilentStep DEF FreshSilent
  <1>3. FreshSilent => Silent BY DEF FreshSilent
  <1> QED BY <1>1, <1>2, <1>3, AlwaysTyped, PTL DEF Spec

-----------------------------------------------------------------------------
(* One signal of a timer in one queue.                                     *)

Distinct(q) == \A i, j \in DOMAIN q : q[i].id = q[j].id => i = j

Without(q, id) == \A i \in DOMAIN q : q[i].id # id

\* p is what is left of q when its first signals are gone.
Later(p, q) ==
    \E k \in Nat : \A i \in DOMAIN p : i \in Nat /\ i + k \in DOMAIN q /\ p[i] = q[i + k]

\* p has no more than the last signals of q, with their ids.
Thinner(p, q) ==
    \E k \in Nat : \A i \in DOMAIN p : i \in Nat /\ i + k \in DOMAIN q /\ p[i].id = q[i + k].id

\* What thins out has no more signals of a timer than before.
LEMMA Thinning ==
    ASSUME NEW p, NEW q, Thinner(p, q)
    PROVE  Distinct(q) => Distinct(p) /\ \A id : Without(q, id) => Without(p, id)
  <1>1. PICK k \in Nat : \A i \in DOMAIN p : i \in Nat /\ i + k \in DOMAIN q /\ p[i].id = q[i + k].id
    BY DEF Thinner
  <1>2. ASSUME Distinct(q), NEW i \in DOMAIN p, NEW j \in DOMAIN p, p[i].id = p[j].id
        PROVE  i = j
    <2>1. i + k = j + k BY <1>1, <1>2 DEF Distinct
    <2> QED BY <1>1, <2>1
  <1>3. ASSUME NEW id, Without(q, id), NEW i \in DOMAIN p PROVE p[i].id # id
    BY <1>1, <1>3 DEF Without
  <1> QED BY <1>2, <1>3 DEF Distinct, Without

LEMMA LaterThins == ASSUME NEW p, NEW q, Later(p, q) PROVE Thinner(p, q)
  BY DEF Later, Thinner

\* A queue that stays, that is dropped, and that loses its head.
LEMMA LaterSame == ASSUME NEW q \in Seq(Entry) PROVE Later(q, q)
  <1>1. \A i \in DOMAIN q : i \in Nat /\ i + 0 \in DOMAIN q /\ q[i] = q[i + 0] OBVIOUS
  <1> QED BY <1>1 DEF Later

LEMMA LaterNone == ASSUME NEW q PROVE Later(<<>>, q)
  <1>1. DOMAIN <<>> = {} OBVIOUS
  <1> QED BY <1>1 DEF Later

LEMMA LaterTail == ASSUME NEW q \in Seq(Entry), q # <<>> PROVE Later(Tail(q), q)
  <1>1. \A i \in DOMAIN Tail(q) : i \in Nat /\ i + 1 \in DOMAIN q /\ Tail(q)[i] = q[i + 1] OBVIOUS
  <1> QED BY <1>1 DEF Later

\* Only push_pending adds a signal to a queue, and only a merge changes one.
LEMMA QueueShrinks ==
    ASSUME Typed, Next, ~push_pending, ~merge_timer_overrun
    PROVE  \A u \in Threads : Later(queue'[u], queue[u])
  <1>0. \A u \in Threads : queue[u] \in Seq(Entry) /\ Later(queue[u], queue[u])
    BY LaterSame DEF Typed, SignalsTyped
  <1>q. queue \in [Threads -> Seq(Entry)]
    BY DEF Typed, SignalsTyped
  <1>1. CASE Service
    <2>1. queue' = queue
      BY <1>1 DEF Service, Wait, Woken, Skip, Read, Choose, ChooseNone, NotMerged, Record, signals
    <2> QED BY <1>0, <2>1
  <1>2. CASE (\E event \in Events : create(event)) \/ stop \/ Joined
    BY <1>0, <1>2 DEF create, stop, Joined, signals
  <1>3. CASE \E id \in Ids : remove(id) \/ Expire(id) \/ \E how \in Arms : set(id, how)
    <2>1. UNCHANGED signals BY <1>3 DEF remove, Expire, set
    <2> QED BY <1>0, <2>1 DEF signals
  <1>4. CASE \E t \in Threads : Take(t) \/ Fold(t)
    <2>1. PICK t \in Threads : Take(t) \/ Fold(t) BY <1>4
    <2>2. queue[t] # <<>> /\ queue' = [queue EXCEPT ![t] = Tail(@)] BY <2>1 DEF Take, Fold
    <2>3. Later(Tail(queue[t]), queue[t]) BY <1>0, <2>2, LaterTail
    <2> QED BY <1>0, <1>q, <2>2, <2>3
  <1>5. CASE \E t \in Threads : TakeBit(t) \/ Mask(t) \/ End(t)
    BY <1>0, <1>5 DEF TakeBit, Mask, End, signals
  <1>6. CASE (\E t \in Threads : Reap(t) \/ Fork(t)) \/ ExecClear
    <2>1. \E S : Gone(S)
      BY <1>6 DEF Reap, Fork, ExecClear
    <2>2. PICK S : Gone(S) BY <2>1
    <2>3. \A u \in Threads : queue'[u] = queue[u] \/ queue'[u] = <<>> BY <2>2, GoneTyped
    <2> QED BY <1>0, <2>3, LaterNone
  <1>7. CASE ExecPending
    <2>1. PICK q : q = <<>> OBVIOUS
    <2>2. queue' = queue \/ queue' = [queue EXCEPT ![Main] = q] BY <1>7, <2>1 DEF ExecPending
    <2>3. \A u \in Threads : queue'[u] = queue[u] \/ queue'[u] = <<>> BY <1>q, <2>1, <2>2
    <2> QED BY <1>0, <2>3, LaterNone
  <1> QED BY <1>1, <1>2, <1>3, <1>4, <1>5, <1>6, <1>7 DEF Next

\* A merge leaves the ids as they are.
LEMMA MergeThins ==
    ASSUME Typed, merge_timer_overrun
    PROVE  \A u \in Threads : Thinner(queue'[u], queue[u])
  <1>0. \A u \in Threads : queue[u] \in Seq(Entry) /\ Thinner(queue[u], queue[u])
    BY LaterSame, LaterThins DEF Typed, SignalsTyped
  <1>q. queue \in [Threads -> Seq(Entry)]
    BY DEF Typed, SignalsTyped
  <1>1. PICK i \in DOMAIN queue[job.target] : Merges(i)
    BY MergeIs
  <1> DEFINE t == job.target
             entry == queue[t][i]
             n == entry.overrun + 1 + job.missed
  <1>2. PICK e : e = [entry EXCEPT !.overrun = Capped(n), !.from = entry.from \cup {job.fd}]
    OBVIOUS
  <1>3. t \in Threads /\ queue' = [queue EXCEPT ![t][i] = e]
    BY <1>1, <1>2 DEF Merges
  <1>4. e.id = entry.id BY <1>2
  <1>5. PICK q : q = [queue[t] EXCEPT ![i] = e] OBVIOUS
  <1>6. queue' = [queue EXCEPT ![t] = q] BY <1>3, <1>5
  <1>7. DOMAIN q = DOMAIN queue[t] /\ \A j \in DOMAIN queue[t] : q[j].id = queue[t][j].id
    BY <1>4, <1>5
  <1>8. \A j \in DOMAIN q : j \in Nat /\ j + 0 \in DOMAIN queue[t] /\ q[j].id = queue[t][j + 0].id
    BY <1>0, <1>3, <1>7
  <1>9. Thinner(q, queue[t]) BY <1>8 DEF Thinner
  <1> QED BY <1>0, <1>q, <1>3, <1>6, <1>9

\* Only push_pending adds an id to a queue.
LEMMA QueueThins ==
    ASSUME Typed, Next, ~push_pending
    PROVE  \A u \in Threads : Thinner(queue'[u], queue[u])
  BY MergeThins, QueueShrinks, LaterThins

\* The two invariants, queue by queue.
LEMMA OneQueuedIs ==
    /\ OneQueued <=> \A t \in Threads : Distinct(queue[t])
    /\ OneQueued' <=> \A t \in Threads : Distinct(queue'[t])
    /\ Alone <=> (pc = "push" => Without(queue[job.target], job.id))
    /\ Alone' <=> (pc' = "push" => Without(queue'[job'.target], job'.id))
  BY DEF OneQueued, Distinct, Alone, Merged, Without

\* A signal of another timer is added.
LEMMA DistinctAppend ==
    ASSUME NEW q \in Seq(Entry), NEW e, Distinct(q), Without(q, e.id)
    PROVE  Distinct(Append(q, e))
  <1>1. PICK n \in Nat : n = Len(q) OBVIOUS
  <1>2. PICK r : r = Append(q, e) OBVIOUS
  <1>3. DOMAIN q = 1 .. n /\ DOMAIN r = 1 .. n + 1 /\ r[n + 1] = e BY <1>1, <1>2
  <1>4. \A j \in DOMAIN q : r[j] = q[j] BY <1>2
  <1>5. \A j \in 1 .. n + 1 : j = n + 1 \/ j \in 1 .. n BY <1>1
  <1>6. ASSUME NEW i \in DOMAIN r, NEW j \in DOMAIN r, r[i].id = r[j].id PROVE i = j
    <2>1. CASE i \in 1 .. n /\ j \in 1 .. n BY <1>3, <1>4, <1>6, <2>1 DEF Distinct
    <2>2. CASE i = n + 1 /\ j \in 1 .. n BY <1>3, <1>4, <1>6, <2>2 DEF Without
    <2>3. CASE i \in 1 .. n /\ j = n + 1 BY <1>3, <1>4, <1>6, <2>3 DEF Without
    <2>4. CASE i = n + 1 /\ j = n + 1 BY <2>4
    <2> QED BY <1>3, <1>5, <2>1, <2>2, <2>3, <2>4
  <1> QED BY <1>2, <1>6 DEF Distinct

\* A push follows a search that found none, and only it adds a signal.
LEMMA OneQueuedStep ==
    ASSUME Typed, OneQueued, Alone, Next
    PROVE  OneQueued' /\ Alone'
  <1>0. \A t \in Threads : Distinct(queue[t]) BY OneQueuedIs
  <1>1. CASE push_pending
    <2> DEFINE t == job.target
               e == [fd |-> job.fd, id |-> job.id, overrun |-> job.missed, from |-> {job.fd}]
    <2>1. /\ pc = "push" /\ pc' = "record" /\ t \in Threads /\ queue \in [Threads -> Seq(Entry)]
      BY <1>1 DEF push_pending, At, Serves, Typed, ServiceTyped, SignalsTyped, Sending
    <2>2. Without(queue[t], e.id) BY <2>1, OneQueuedIs
    <2>3. queue' = queue \/ queue' = [queue EXCEPT ![t] = Append(@, e)] BY <1>1 DEF push_pending
    <2> HIDE DEF e
    <2>4. Distinct(Append(queue[t], e)) BY <1>0, <2>1, <2>2, DistinctAppend
    <2>5. \A u \in Threads : Distinct(queue'[u]) BY <1>0, <2>1, <2>3, <2>4
    <2> QED BY <2>1, <2>5, OneQueuedIs
  <1>2. CASE ~push_pending
    <2>1. \A u \in Threads : Thinner(queue'[u], queue[u]) BY <1>2, QueueThins
    <2>2. \A u \in Threads : /\ Distinct(queue'[u])
                             /\ \A id : Without(queue[u], id) => Without(queue'[u], id)
      BY <1>0, <2>1, Thinning
    <2>3. ASSUME pc' = "push" PROVE Without(queue'[job'.target], job'.id)
      <3>1. CASE NotMerged
        <4>1. Merged = {} /\ UNCHANGED <<queue, job>> BY <3>1 DEF NotMerged, signals
        <4> QED BY <4>1 DEF Merged, Without
      <3>2. CASE ~NotMerged
        <4>1. pc = "push" /\ job' = job
          BY <1>2, <2>3, <3>2 DEF Next, Service, Wait, Woken, Skip, Read, Choose, ChooseNone,
               merge_timer_overrun,
             Record, At, Serves, create, start_locked, remove, Expire, set, Take, Fold, TakeBit, Mask, End, Reap, Fork,
             ExecClear, ExecPending, stop, Joined, service
        <4>2. job.target \in Threads BY <4>1 DEF Typed, ServiceTyped
        <4>3. Without(queue[job.target], job.id) BY <4>1, OneQueuedIs
        <4> QED BY <2>2, <4>1, <4>2, <4>3
      <3> QED BY <3>1, <3>2
    <2> QED BY <2>2, <2>3, OneQueuedIs
  <1> QED BY <1>1, <1>2

\* No two queued signals of one thread belong to one timer: between the
\* merge that finds none and the push, only the service thread could queue
\* another (Emulator::send_timer_signal, merge_timer_overrun).
THEOREM OneSignal == Spec => []OneQueued
  <1>1. Init => OneQueued /\ Alone
    <2> SUFFICES ASSUME Init PROVE OneQueued /\ Alone OBVIOUS
    <2>1. pc = "none" /\ \A t \in Threads : DOMAIN queue[t] = {} BY DEF Init
    <2> QED BY <2>1 DEF OneQueued, Alone
  <1>2. Typed /\ (OneQueued /\ Alone) /\ [Next]_vars => (OneQueued /\ Alone)'
    <2>1. OneQueued /\ Alone /\ UNCHANGED vars => OneQueued' /\ Alone'
      BY OneQueuedIs DEF vars, service, signals
    <2> QED BY <2>1, OneQueuedStep
  <1> QED BY <1>1, <1>2, AlwaysTyped, PTL DEF Spec

-----------------------------------------------------------------------------
(* Signals and the timers they are of.                                     *)

\* Timers are created and not destroyed: no id is reused.
TimersStay == [][DOMAIN timers \subseteq DOMAIN timers']_vars

\* The timer with a signal's id is the one it is of.
Named(e) == e.id \in DOMAIN timers /\ timers[e.id].fd = e.fd

AllNamed ==
    /\ \A t \in Threads : \A i \in DOMAIN queue[t] :
          Named(queue[t][i]) /\ queue[t][i].from = {queue[t][i].fd}
    /\ pc \in Sending => Named(job)

\* A timer that is not destroyed stays the one it is.
LEMMA FdsStay ==
    ASSUME Typed, Next, DOMAIN timers \subseteq DOMAIN timers'
    PROVE  \A e : Named(e) => Named(e)'
  <1> SUFFICES ASSUME NEW id \in DOMAIN timers PROVE timers'[id].fd = timers[id].fd
    BY DEF Named
  <1>1. CASE Service
    <2>1. CASE Read BY <2>1 DEF Read, Typed, TimersTyped, Timer
    <2>2. CASE Record BY <2>2 DEF Record, Typed, TimersTyped, Timer
    <2>3. CASE ~Read /\ ~Record
      BY <1>1, <2>3 DEF Service, Wait, Woken, Skip, Choose, ChooseNone, merge_timer_overrun, NotMerged,
         push_pending
    <2> QED BY <2>1, <2>2, <2>3
  <1>2. CASE \E event \in Events : create(event)
    <2>1. PICK event \in Events : create(event) BY <1>2
    <2> DEFINE new == CHOOSE i \in Ids \ DOMAIN timers : \A j \in Ids \ DOMAIN timers : i <= j
               timer == [fd |-> created + 1, event |-> event, armed |-> "off", expiries |-> 0, last |-> 0]
    <2>2. /\ timers' = [i \in DOMAIN timers \cup {new} |-> IF i = new THEN timer ELSE timers[i]]
          /\ Ids \ DOMAIN timers # {}
      BY <2>1 DEF create
    <2>3. new \notin DOMAIN timers
      <3>1. Ids \ DOMAIN timers \in SUBSET Nat BY DEF Ids
      <3>2. \E i \in Ids \ DOMAIN timers : \A j \in Ids \ DOMAIN timers : i <= j
        BY <2>2, <3>1, Least
      <3> QED BY <3>2
    <2> HIDE DEF new, timer
    <2> QED BY <2>2, <2>3
  <1>3. CASE \E i \in Ids : remove(i) \/ Expire(i) \/ \E how \in Arms : set(i, how)
    <2>1. PICK i \in Ids : remove(i) \/ Expire(i) \/ \E how \in Arms : set(i, how)
      BY <1>3
    <2>2. CASE remove(i) BY <2>2 DEF remove, Restrict
    <2>3. CASE Expire(i) BY <2>3 DEF Expire, Typed, TimersTyped, Timer
    <2>4. CASE \E how \in Arms : set(i, how) BY <2>4 DEF set, Typed, TimersTyped, Timer
    <2> QED BY <2>1, <2>2, <2>3, <2>4
  <1>4. CASE \E t \in Threads : Take(t) \/ Fold(t) \/ TakeBit(t) \/ Mask(t) \/ End(t) \/ Reap(t)
    BY <1>4 DEF Take, Fold, TakeBit, Mask, End, Reap
  <1>5. CASE (\E t \in Threads : Fork(t)) \/ ExecClear \/ stop
    <2>1. timers' = <<>> BY <1>5 DEF Fork, ExecClear, stop
    <2>2. DOMAIN timers' = {} BY <2>1
    <2> QED BY <2>2
  <1>6. CASE ExecPending \/ Joined
    BY <1>6 DEF ExecPending, Joined
  <1> QED BY <1>1, <1>2, <1>3, <1>4, <1>5, <1>6 DEF Next

\* The service thread sends what it has read, under the id it has read.
LEMMA JobNamed ==
    ASSUME Typed, AllNamed, Next, \A e : Named(e) => Named(e)'
    PROVE  pc' \in Sending => Named(job)'
  <1>1. CASE Read
    <2>1. PICK id \in DOMAIN timers : Reads(id) BY <1>1, ReadIs
    <2>2. job'.id = id /\ job'.fd = timers[id].fd BY <2>1 DEF Reads
    <2>3. id \in DOMAIN timers' /\ timers'[id].fd = timers[id].fd
      <3>1. timers' = [timers EXCEPT ![id].expiries = 0] BY <2>1 DEF Reads
      <3>2. timers[id] \in Timer BY <2>1 DEF Typed, TimersTyped
      <3> QED BY <3>1, <3>2 DEF Timer
    <2> QED BY <2>2, <2>3 DEF Named
  <1>2. CASE ~Read
    <2>1. ASSUME pc' \in Sending
          PROVE  pc \in Sending /\ job'.id = job.id /\ job'.fd = job.fd
      <3>1. CASE Choose
        <4>1. pc = "choose" /\ job' = [job EXCEPT !.target = First(Takers)] BY <3>1 DEF Choose, At
        <4> QED BY <4>1 DEF Sending
      <3>2. CASE ~Choose
        BY <1>2, <2>1, <3>2 DEF Next, Service, Wait, Woken, Skip, ChooseNone, merge_timer_overrun,
           NotMerged, push_pending, Record, At, Serves, Sending, create, start_locked, remove, Expire, set, Take,
           Fold, TakeBit, Mask, End, Reap, Fork, ExecClear, ExecPending, stop, Joined, service
      <3> QED BY <3>1, <3>2
    <2> SUFFICES ASSUME pc' \in Sending PROVE Named(job)' OBVIOUS
    <2>2. Named(job) BY <2>1 DEF AllNamed
    <2>3. PICK e : e = job OBVIOUS
    <2>4. Named(e)' BY <2>2, <2>3
    <2> QED BY <2>1, <2>3, <2>4 DEF Named
  <1> QED BY <1>1, <1>2

\* Every queued signal has the id of its timer, and counts its timer's
\* expiries only.
LEMMA NamedStep ==
    ASSUME Typed, AllNamed, Next, DOMAIN timers \subseteq DOMAIN timers'
    PROVE  AllNamed'
  <1> DEFINE Own(e) == Named(e) /\ e.from = {e.fd}
  <1>0. \A e : Named(e) => Named(e)' BY FdsStay
  <1>1. pc' \in Sending => Named(job)' BY <1>0, JobNamed
  <1>2. queue \in [Threads -> Seq(Entry)] BY DEF Typed, SignalsTyped
  <1>3. \A t \in Threads : \A i \in DOMAIN queue[t] : Own(queue[t][i]) BY DEF AllNamed
  <1>4. \A t \in Threads : \A i \in DOMAIN queue'[t] : Own(queue'[t][i])
    <2>1. CASE push_pending
      <3> DEFINE t == job.target
                 e == [fd |-> job.fd, id |-> job.id, overrun |-> job.missed, from |-> {job.fd}]
      <3>1. pc = "push" /\ t \in Threads
        BY <2>1 DEF push_pending, At, Typed, ServiceTyped
      <3>2. queue' = queue \/ queue' = [queue EXCEPT ![t] = Append(@, e)] BY <2>1 DEF push_pending
      <3>3. Own(e)
        <4>1. Named(job) BY <3>1 DEF AllNamed, Sending
        <4> QED BY <4>1 DEF Named
      <3> HIDE DEF e, Own
      <3>4. PICK q : q = Append(queue[t], e) OBVIOUS
      <3>5. queue' = queue \/ queue' = [queue EXCEPT ![t] = q] BY <3>2, <3>4
      <3>6. queue[t] \in Seq(Entry) BY <1>2, <3>1
      <3>7. \A j \in DOMAIN q : q[j] = e \/ (j \in DOMAIN queue[t] /\ q[j] = queue[t][j])
        BY <3>4, <3>6, AppendIs
      <3> QED BY <1>2, <1>3, <3>1, <3>3, <3>5, <3>7
    <2>2. CASE merge_timer_overrun
      <3>1. PICK i \in DOMAIN queue[job.target] : Merges(i) BY <2>2, MergeIs
      <3> DEFINE t == job.target
                 entry == queue[t][i]
                 n == entry.overrun + 1 + job.missed
      <3>2. PICK e : e = [entry EXCEPT !.overrun = Capped(n), !.from = entry.from \cup {job.fd}]
        OBVIOUS
      <3>3. /\ t \in Threads /\ queue' = [queue EXCEPT ![t][i] = e] /\ entry.id = job.id /\ pc = "merge"
            /\ entry \in Entry
        BY <3>1, <3>2 DEF Merges
      <3>4. entry.fd = job.fd /\ entry.from = {entry.fd}
        <4>1. Named(job) BY <3>3 DEF AllNamed, Sending
        <4>2. Own(entry) BY <1>3, <3>3
        <4> QED BY <3>3, <4>1, <4>2 DEF Named
      <3>5. e.id = entry.id /\ e.fd = entry.fd /\ e.from = {e.fd}
        <4>1. entry.from \cup {job.fd} = {entry.fd} BY <3>4
        <4>2. PICK s : s = {entry.fd} OBVIOUS
        <4>3. e = [entry EXCEPT !.overrun = Capped(n), !.from = s] BY <3>2, <4>1, <4>2
        <4>4. PICK o : o = Capped(n) OBVIOUS
        <4>5. e = [entry EXCEPT !.overrun = o, !.from = s] BY <4>3, <4>4
        <4> QED BY <3>3, <4>2, <4>5 DEF Entry
      <3>6. Own(e)
        <4>1. Own(entry) BY <1>3, <3>3
        <4> QED BY <3>5, <4>1 DEF Named
      <3> HIDE DEF Own
      <3>7. PICK q : q = [queue[t] EXCEPT ![i] = e] OBVIOUS
      <3>8. queue' = [queue EXCEPT ![t] = q] BY <3>3, <3>7
      <3>9. DOMAIN q = DOMAIN queue[t] /\ \A j \in DOMAIN q : q[j] = e \/ q[j] = queue[t][j] BY <3>7
      <3> QED BY <1>2, <1>3, <3>3, <3>6, <3>8, <3>9
    <2>3. CASE ~push_pending /\ ~merge_timer_overrun
      <3>1. \A u \in Threads : Later(queue'[u], queue[u]) BY <2>3, QueueShrinks
      <3>2. ASSUME NEW u \in Threads, NEW i \in DOMAIN queue'[u]
            PROVE  \E j \in DOMAIN queue[u] : queue'[u][i] = queue[u][j]
        BY <3>1, <3>2 DEF Later
      <3> HIDE DEF Own
      <3> QED BY <1>3, <3>2
    <2> QED BY <2>1, <2>2, <2>3
  <1>5. \A t \in Threads : \A i \in DOMAIN queue'[t] :
            Named(queue[t][i])' /\ queue'[t][i].from = {queue'[t][i].fd}
    <2> SUFFICES ASSUME NEW t \in Threads, NEW i \in DOMAIN queue'[t]
                 PROVE  Named(queue[t][i])' /\ queue'[t][i].from = {queue'[t][i].fd}
      OBVIOUS
    <2>1. PICK e : e = queue'[t][i] OBVIOUS
    <2>2. Named(e) /\ e.from = {e.fd} BY <1>4, <2>1
    <2>3. Named(e)' BY <1>0, <2>2
    <2> QED BY <2>1, <2>2, <2>3 DEF Named
  <1> QED BY <1>1, <1>5 DEF AllNamed

\* As long as no timer is destroyed, a new expiry raises the overrun of its
\* own timer's signal and of no other (merge_timer_overrun): what comes of a
\* reused id needs a timer_delete, an execve or a fork.
THEOREM OwnSignals == Spec /\ TimersStay => []MergesOwn
  <1>1. Init => AllNamed
    <2> SUFFICES ASSUME Init PROVE AllNamed OBVIOUS
    <2>1. pc = "none" /\ \A t \in Threads : DOMAIN queue[t] = {} BY DEF Init
    <2> QED BY <2>1 DEF AllNamed, Sending
  <1>2. Typed /\ AllNamed /\ [Next]_vars /\ [DOMAIN timers \subseteq DOMAIN timers']_vars => AllNamed'
    <2>1. AllNamed /\ UNCHANGED vars => AllNamed'
      BY DEF vars, service, signals, AllNamed, Named, Sending
    <2> QED BY <2>1, NamedStep
  <1>3. AllNamed => MergesOwn BY DEF AllNamed, MergesOwn
  <1> QED BY <1>1, <1>2, <1>3, AlwaysTyped, PTL DEF Spec, TimersStay

-----------------------------------------------------------------------------
(* The account of the expiries.                                            *)

\* The account as a sum.
LEMMA FdsAreFinite == IsFiniteSet(Fds)
  BY Facts, FS_Interval DEF Fds

LEMMA TakenSum ==
    ASSUME NEW f \in [Fds -> Nat]
    PROVE  FoldFunction(LAMBDA n, sum : n + sum, 0, f) = Sum(f, Fds)
  BY DEF FoldFunction, Sum, SumFunctionOnSet, FoldFunctionOnSet, MapThenFoldSet

Balanced == Sum(taken, Fds) = Flying + HeldBy(queue, Threads) + told + unkept

\* The account, with sums for the folds.
LEMMA BalancedIs == ASSUME Typed PROVE Accounted <=> Balanced
  <1>1. taken \in [Fds -> Nat] BY DEF Typed, HistoryTyped
  <1>2. FoldFunction(LAMBDA n, sum : n + sum, 0, taken) = Sum(taken, Fds) BY <1>1, TakenSum
  <1>3. Lost(Threads) = HeldBy(queue, Threads) BY LostIs
  <1> QED BY <1>2, <1>3 DEF Accounted, Balanced

\* Nothing to account for.
LEMMA InitialBalance == Init => Balanced
  <1> SUFFICES ASSUME Init PROVE Balanced OBVIOUS
  <1>1. taken = [f \in Fds |-> 0] /\ pc = "none" /\ told = 0 /\ unkept = 0 BY DEF Init
  <1>2. Sum(taken, Fds) = 0 BY <1>1, FdsAreFinite, SumZero
  <1>3. queue \in Queues /\ \A t \in Threads : queue[t] = <<>> BY InitialTyped, QueuesAre DEF Init
  <1>4. \A t \in Threads : Weights(queue)[t] = 0 BY <1>3, WeightEmpty DEF Weights
  <1>5. Threads \in SUBSET Threads OBVIOUS
  <1>6. HeldBy(queue, Threads) = Sum(Weights(queue), Threads) BY <1>3, <1>5, HeldIs
  <1>7. HeldBy(queue, Threads) = 0 BY <1>4, <1>6, ThreadsFinite, SumZero
  <1> QED BY <1>1, <1>2, <1>7 DEF Balanced, Flying

\* Numbers, and the queues as they are after the step.
LEMMA Amounts ==
    ASSUME Typed
    PROVE  /\ queue \in Queues /\ HeldBy(queue, Threads) \in Nat /\ Flying \in Nat
           /\ told \in Nat /\ unkept \in Nat /\ Threads \in SUBSET Threads
  <1>1. queue \in Queues /\ Flying \in Nat BY QueuesAre, FlyingNat
  <1>2. Threads \in SUBSET Threads OBVIOUS
  <1>3. HeldBy(queue, Threads) \in Nat BY <1>1, <1>2, HeldNat
  <1> QED BY <1>1, <1>2, <1>3 DEF Typed, HistoryTyped

\* A read timer's expiries are in flight, but those past INT_MAX.
LEMMA ReadBalanced == ASSUME Typed, Balanced, Read PROVE Balanced'
  <1>0. PICK id \in DOMAIN timers : Reads(id) BY ReadIs
  <1> DEFINE f == timers[id].fd
             e == timers[id].expiries
  <1>1. /\ f \in Fds /\ e \in Nat \ {0} /\ pc = "serve" /\ pc' = "choose" /\ job'.missed = Capped(e - 1)
        /\ taken' = [taken EXCEPT ![f] = @ + e] /\ unkept' = unkept + Past(e - 1)
        /\ Capped(e - 1) \in 0 .. IntMax /\ Past(e - 1) \in Nat /\ Capped(e - 1) + Past(e - 1) = e - 1
    BY <1>0 DEF Reads
  <1>2. UNCHANGED <<queue, told>> BY DEF Read
  <1>3. taken \in [Fds -> Nat] /\ taken' \in [Fds -> Nat] BY <1>1 DEF Typed, HistoryTyped
  <1> HIDE DEF e, f
  <1>4. /\ Counts(taken, Fds) /\ Counts(taken', Fds) /\ \A x \in Fds \ {f} : taken[x] = taken'[x]
        /\ taken'[f] = taken[f] + e /\ taken[f] \in Nat
    BY <1>1, <1>3 DEF Counts
  <1>5. Sum(taken', Fds) + taken[f] = Sum(taken, Fds) + taken'[f]
    <2>1. PICK g : g = taken' OBVIOUS
    <2>2. Counts(g, Fds) /\ \A x \in Fds \ {f} : taken[x] = g[x] BY <1>4, <2>1
    <2>3. Sum(g, Fds) + taken[f] = Sum(taken, Fds) + g[f]
      BY <1>1, <1>4, <2>2, FdsAreFinite, SumChange
    <2> QED BY <2>1, <2>3
  <1>6. Sum(taken', Fds) \in Nat /\ Sum(taken, Fds) \in Nat BY <1>4, FdsAreFinite, SumNat
  <1>7. Sum(taken', Fds) = Sum(taken, Fds) + e BY <1>1, <1>4, <1>5, <1>6
  <1>8. Flying = 0 /\ Flying' = Capped(e - 1) + 1 BY <1>1 DEF Flying
  <1>9. Sum(taken, Fds) = Flying + HeldBy(queue, Threads) + told + unkept BY DEF Balanced
  <1>10. HeldBy(queue', Threads) = HeldBy(queue, Threads) /\ told' = told BY <1>2
  <1>11. PICK h \in Nat : h = HeldBy(queue, Threads) BY Amounts
  <1>12. PICK c \in Nat : c = Capped(e - 1) BY <1>1, Facts
  <1>13. PICK p \in Nat : p = Past(e - 1) BY <1>1
  <1>14. c + p = e - 1 BY <1>1, <1>12, <1>13
  <1>15. Sum(taken', Fds) = (c + 1) + h + told + (unkept + p)
    <2>1. Sum(taken, Fds) = 0 + h + told + unkept BY <1>8, <1>9, <1>11
    <2>2. e = c + p + 1 BY <1>1, <1>14
    <2>3. Sum(taken', Fds) = (0 + h + told + unkept) + (c + p + 1) BY <1>7, <2>1, <2>2
    <2> QED BY <2>3, Amounts
  <1>16. Sum(taken', Fds) = Flying' + HeldBy(queue', Threads) + told' + unkept'
    BY <1>1, <1>8, <1>10, <1>11, <1>12, <1>13, <1>15
  <1> QED BY <1>16 DEF Balanced

\* The expiry in flight joins the overrun of the signal it finds.
LEMMA MergeBalanced == ASSUME Typed, Balanced, merge_timer_overrun PROVE Balanced'
  <1>0. PICK i \in DOMAIN queue[job.target] : Merges(i) BY MergeIs
  <1> DEFINE t == job.target
             entry == queue[t][i]
             n == entry.overrun + 1 + job.missed
  <1>1. /\ t \in Threads /\ entry \in Entry /\ Capped(n) \in 0 .. IntMax /\ Past(n) \in Nat
        /\ Capped(n) + Past(n) = n /\ job.fd \in Fds /\ unkept' = unkept + Past(n)
        /\ queue' = [queue EXCEPT ![t][i] =
                      [entry EXCEPT !.overrun = Capped(n), !.from = entry.from \cup {job.fd}]]
        /\ pc = "merge" /\ pc' = "record"
    BY <1>0 DEF Merges
  <1>2. UNCHANGED <<told, taken>> BY DEF merge_timer_overrun
  <1>3. PICK e : e = [entry EXCEPT !.overrun = Capped(n), !.from = entry.from \cup {job.fd}] OBVIOUS
  <1>4. PICK o \in 0 .. IntMax : o = Capped(n) BY <1>1
  <1>5. e \in Entry /\ e.overrun = o
    <2>1. PICK s \in SUBSET Fds : s = entry.from \cup {job.fd} BY <1>1 DEF Entry
    <2>2. e = [entry EXCEPT !.overrun = o, !.from = s] BY <1>3, <1>4, <2>1
    <2> QED BY <1>1, <2>2 DEF Entry
  <1>6. PICK q : q = [queue[t] EXCEPT ![i] = e] OBVIOUS
  <1>7. queue' = [queue EXCEPT ![t] = q] BY <1>1, <1>3, <1>6
  <1>8. queue \in Queues /\ queue[t] \in Seq(Entry) BY <1>1, Amounts DEF Queues
  <1>9. q \in Seq(Entry) BY <1>5, <1>6, <1>8
  <1>10. queue' \in Queues BY <1>1, <1>7, <1>8, <1>9 DEF Queues
  <1>11. Weight(q) + entry.overrun = Weight(queue[t]) + e.overrun
    BY <1>5, <1>6, <1>8, WeightReplace
  <1>12. HeldBy(queue', Threads) + Weight(queue[t]) = HeldBy(queue, Threads) + Weight(queue'[t])
    <2>1. \A u \in Threads \ {t} : queue[u] = queue'[u] BY <1>7, <1>8 DEF Queues
    <2> QED BY <1>1, <1>8, <1>10, <2>1, HeldChange
  <1>13. queue'[t] = q BY <1>1, <1>7, <1>8 DEF Queues
  <1>14. PICK a \in Nat : a = Weight(queue[t]) BY <1>8, WeightNat
  <1>15. PICK b \in Nat : b = Weight(q) BY <1>9, WeightNat
  <1>16. PICK x \in Nat : x = entry.overrun BY <1>1 DEF Entry
  <1>17. PICK h \in Nat : h = HeldBy(queue, Threads) BY Amounts
  <1>18. PICK k \in Nat : k = HeldBy(queue', Threads)
    <2>1. Threads \in SUBSET Threads OBVIOUS
    <2> QED BY <1>10, <2>1, HeldNat
  <1>19. PICK m \in Nat : m = job.missed BY DEF Typed, ServiceTyped
  <1>20. PICK p \in Nat : p = Past(n) BY <1>1
  <1>21. b + x = a + o /\ k + a = h + b /\ o + p = x + 1 + m
    BY <1>1, <1>4, <1>5, <1>11, <1>12, <1>13, <1>14, <1>15, <1>16, <1>17, <1>18, <1>19, <1>20
  <1>22. Flying = m + 1 /\ Flying' = 0 BY <1>1, <1>19 DEF Flying
  <1>23. Sum(taken, Fds) = (m + 1) + h + told + unkept BY <1>17, <1>22 DEF Balanced
  <1>24. Sum(taken, Fds) = 0 + k + told + (unkept + p)
    <2>1. o \in Nat BY <1>4, Facts
    <2> QED BY <1>21, <1>23, <2>1, Amounts
  <1>25. Sum(taken', Fds) = Flying' + HeldBy(queue', Threads) + told' + unkept'
    BY <1>1, <1>2, <1>18, <1>20, <1>22, <1>24
  <1> QED BY <1>25 DEF Balanced

\* It is queued, or a full queue keeps its bit only.
LEMMA PushBalanced == ASSUME Typed, Balanced, push_pending PROVE Balanced'
  <1> DEFINE t == job.target
  <1>1. /\ pc = "push" /\ pc' = "record" /\ t \in Threads /\ job.fd \in Fds
        /\ job.id \in Ids /\ job.missed \in 0 .. IntMax
        /\ UNCHANGED <<told, taken>>
    BY DEF push_pending, At, Serves, Typed, ServiceTyped, Sending
  <1>2. PICK m \in Nat : m = job.missed BY <1>1, Facts
  <1>3. Flying = m + 1 /\ Flying' = 0 BY <1>1, <1>2 DEF Flying
  <1>4. PICK h \in Nat : h = HeldBy(queue, Threads) BY Amounts
  <1>5. Sum(taken, Fds) = (m + 1) + h + told + unkept BY <1>3, <1>4 DEF Balanced
  <1>6. CASE Room
    <2> DEFINE e == [fd |-> job.fd, id |-> job.id, overrun |-> job.missed, from |-> {job.fd}]
    <2>1. queue' = [queue EXCEPT ![t] = Append(@, e)] /\ unkept' = unkept BY <1>6 DEF push_pending
    <2>2. e \in Entry /\ e.overrun = m BY <1>1, <1>2 DEF Entry
    <2> HIDE DEF e
    <2>3. queue \in Queues /\ queue[t] \in Seq(Entry) BY <1>1, Amounts DEF Queues
    <2>4. PICK q : q = Append(queue[t], e) OBVIOUS
    <2>5. q \in Seq(Entry) BY <2>2, <2>3, <2>4
    <2>6. queue' = [queue EXCEPT ![t] = q] BY <2>1, <2>4
    <2>7. queue' \in Queues BY <1>1, <2>3, <2>5, <2>6 DEF Queues
    <2>8. Weight(q) = Weight(queue[t]) + e.overrun + 1 BY <2>2, <2>3, <2>4, WeightAppend
    <2>9. HeldBy(queue', Threads) + Weight(queue[t]) = HeldBy(queue, Threads) + Weight(queue'[t])
      <3>1. \A u \in Threads \ {t} : queue[u] = queue'[u] BY <2>3, <2>6 DEF Queues
      <3> QED BY <1>1, <2>3, <2>7, <3>1, HeldChange
    <2>10. queue'[t] = q BY <1>1, <2>3, <2>6 DEF Queues
    <2>11. PICK a \in Nat : a = Weight(queue[t]) BY <2>3, WeightNat
    <2>12. PICK k \in Nat : k = HeldBy(queue', Threads)
      <3>1. Threads \in SUBSET Threads OBVIOUS
      <3> QED BY <2>7, <3>1, HeldNat
    <2>13. k + a = h + (a + m + 1) BY <1>4, <2>2, <2>8, <2>9, <2>10, <2>11, <2>12
    <2>14. Sum(taken, Fds) = 0 + k + told + unkept BY <1>5, <2>13, Amounts
    <2>15. Sum(taken', Fds) = Flying' + HeldBy(queue', Threads) + told' + unkept'
      BY <1>1, <1>3, <2>1, <2>12, <2>14
    <2> QED BY <2>15 DEF Balanced
  <1>7. CASE ~Room
    <2>1. queue' = queue /\ unkept' = unkept + m + 1 BY <1>2, <1>7 DEF push_pending
    <2>2. Sum(taken, Fds) = 0 + h + told + (unkept + m + 1) BY <1>5, Amounts
    <2>3. Sum(taken', Fds) = Flying' + HeldBy(queue', Threads) + told' + unkept'
      BY <1>1, <1>3, <1>4, <2>1, <2>2
    <2> QED BY <2>3 DEF Balanced
  <1> QED BY <1>6, <1>7

\* Nothing moves.
LEMMA StillBalanced ==
    ASSUME Balanced, UNCHANGED <<taken, queue, told, unkept>>, Flying' = Flying
    PROVE  Balanced'
  <1>1. Sum(taken, Fds) = Flying + HeldBy(queue, Threads) + told + unkept BY DEF Balanced
  <1>2. Sum(taken', Fds) = Flying' + HeldBy(queue', Threads) + told' + unkept' BY <1>1
  <1> QED BY <1>2 DEF Balanced

\* The service thread moves an expiry, and drops none.
LEMMA ServiceBalanced == ASSUME Typed, Balanced, Service PROVE Balanced'
  <1>1. CASE Read BY <1>1, ReadBalanced
  <1>2. CASE merge_timer_overrun BY <1>2, MergeBalanced
  <1>3. CASE push_pending BY <1>3, PushBalanced
  <1>4. CASE ChooseNone
    <2>1. /\ pc = "choose" /\ pc' = "record" /\ unkept' = unkept + job.missed + 1
          /\ UNCHANGED <<queue, told, taken>>
      BY <1>4 DEF ChooseNone, At, Serves
    <2>2. PICK m \in Nat : m = job.missed BY DEF Typed, ServiceTyped
    <2>3. PICK h \in Nat : h = HeldBy(queue, Threads) BY Amounts
    <2>4. Flying = m + 1 /\ Flying' = 0 BY <2>1, <2>2 DEF Flying
    <2>5. Sum(taken, Fds) = (m + 1) + h + told + unkept BY <2>3, <2>4 DEF Balanced
    <2>6. Sum(taken, Fds) = 0 + h + told + (unkept + m + 1) BY <2>5, Amounts
    <2>7. Sum(taken', Fds) = Flying' + HeldBy(queue', Threads) + told' + unkept'
      BY <2>1, <2>2, <2>3, <2>4, <2>6
    <2> QED BY <2>7 DEF Balanced
  <1>5. CASE Choose
    <2>1. pc = "choose" /\ pc' = "merge" /\ job' = [job EXCEPT !.target = First(Takers)]
          /\ UNCHANGED <<taken, queue, told, unkept>>
      BY <1>5 DEF Choose, At, Serves, signals
    <2>2. job'.missed = job.missed BY <2>1
    <2>3. Flying' = Flying BY <2>1, <2>2 DEF Flying
    <2> QED BY <2>1, <2>3, StillBalanced
  <1>6. CASE Wait \/ Woken \/ Skip \/ NotMerged \/ Record
    <2>1. Flying' = Flying /\ UNCHANGED <<taken, queue, told, unkept>>
      BY <1>6 DEF Wait, Woken, Skip, NotMerged, Record, At, Serves, signals, Flying
    <2> QED BY <2>1, StillBalanced
  <1> QED BY <1>1, <1>2, <1>3, <1>4, <1>5, <1>6 DEF Service

\* The guest takes a signal, and with it what its overrun tells, or turns it
\* into a bit that does not keep it.
LEMMA TakeBalanced == ASSUME Typed, Balanced, NEW t \in Threads, Take(t) \/ Fold(t) PROVE Balanced'
  <1>1. /\ queue[t] # <<>> /\ queue' = [queue EXCEPT ![t] = Tail(@)] /\ UNCHANGED <<service, taken>>
        /\ \/ told' = told + Head(queue[t]).overrun + 1 /\ unkept' = unkept
           \/ unkept' = unkept + Head(queue[t]).overrun + 1 /\ told' = told
    BY DEF Take, Fold
  <1>2. queue \in Queues /\ queue[t] \in Seq(Entry) BY Amounts DEF Queues
  <1>3. PICK q : q = Tail(queue[t]) OBVIOUS
  <1>4. q \in Seq(Entry) /\ Head(queue[t]) \in Entry BY <1>1, <1>2, <1>3
  <1>5. queue' = [queue EXCEPT ![t] = q] BY <1>1, <1>3
  <1>6. queue' \in Queues /\ queue'[t] = q BY <1>2, <1>4, <1>5 DEF Queues
  <1>7. Weight(queue[t]) = Weight(q) + Head(queue[t]).overrun + 1 BY <1>1, <1>2, <1>3, WeightTail
  <1>8. HeldBy(queue', Threads) + Weight(queue[t]) = HeldBy(queue, Threads) + Weight(queue'[t])
    <2>1. \A u \in Threads \ {t} : queue[u] = queue'[u] BY <1>2, <1>5 DEF Queues
    <2> QED BY <1>2, <1>6, <2>1, HeldChange
  <1>9. PICK b \in Nat : b = Weight(q) BY <1>4, WeightNat
  <1>10. PICK x \in Nat : x = Head(queue[t]).overrun BY <1>4 DEF Entry
  <1>11. PICK h \in Nat : h = HeldBy(queue, Threads) BY Amounts
  <1>12. PICK k \in Nat : k = HeldBy(queue', Threads)
    <2>1. Threads \in SUBSET Threads OBVIOUS
    <2> QED BY <1>6, <2>1, HeldNat
  <1>13. k + (b + x + 1) = h + b BY <1>6, <1>7, <1>8, <1>9, <1>10, <1>11, <1>12
  <1>14. Flying' = Flying BY <1>1 DEF service, Flying
  <1>15. Sum(taken, Fds) = Flying + h + told + unkept BY <1>11 DEF Balanced
  <1>16. /\ Sum(taken, Fds) = Flying + k + (told + x + 1) + unkept
         /\ Sum(taken, Fds) = Flying + k + told + (unkept + x + 1)
    BY <1>13, <1>15, Amounts
  <1>17. Sum(taken', Fds) = Flying' + HeldBy(queue', Threads) + told' + unkept'
    BY <1>1, <1>10, <1>12, <1>14, <1>16
  <1> QED BY <1>17 DEF Balanced

\* The queues of S, and what else is lost, are not kept.
LEMMA LostBalanced ==
    ASSUME Typed, Typed', Balanced, NEW S \in SUBSET Threads, NEW n \in Nat,
           \A t \in Threads : queue'[t] = IF t \in S THEN <<>> ELSE queue[t],
           unkept' = unkept + Lost(S) + n, Flying' + n = Flying, UNCHANGED <<taken, told>>
    PROVE  Balanced'
  <1>1. queue \in Queues BY Amounts
  <1>2. queue' \in Queues BY DEF Typed, SignalsTyped, Queues
  <1>3. HeldBy(queue, Threads) = HeldBy(queue', Threads) + HeldBy(queue, S) BY <1>1, <1>2, HeldGone
  <1>4. Lost(S) = HeldBy(queue, S) BY LostIs
  <1>5. PICK l \in Nat : l = HeldBy(queue, S) BY <1>1, HeldNat
  <1>6. PICK k \in Nat : k = HeldBy(queue', Threads)
    <2>1. Threads \in SUBSET Threads OBVIOUS
    <2> QED BY <1>2, <2>1, HeldNat
  <1>7. PICK g \in Nat : g = Flying' BY DEF Typed, ServiceTyped, Flying
  <1>8. Sum(taken, Fds) = (g + n) + (k + l) + told + unkept
    BY <1>3, <1>5, <1>6, <1>7 DEF Balanced
  <1>9. Sum(taken, Fds) = g + k + told + (unkept + l + n) BY <1>8, Amounts
  <1>10. Sum(taken', Fds) = Flying' + HeldBy(queue', Threads) + told' + unkept'
    BY <1>4, <1>5, <1>6, <1>7, <1>9
  <1> QED BY <1>10 DEF Balanced

\* Every step keeps the account.
LEMMA BalancedStep == ASSUME Typed, Typed', Serving, Balanced, Next PROVE Balanced'
  <1>1. CASE Service BY <1>1, ServiceBalanced
  <1>2. CASE \E event \in Events : create(event)
    <2>1. PICK event \in Events : create(event) BY <1>2
    <2>2. UNCHANGED <<job, signals, taken>> BY <2>1 DEF create
    <2>3. pc' = pc \/ (pc' = "serve" /\ ~handle /\ stopping = "no") BY <2>1 DEF create, start_locked, Guest
    <2>4. Flying' = Flying BY <2>2, <2>3 DEF Serving, Flying
    <2> QED BY <2>2, <2>4, StillBalanced DEF signals
  <1>3. CASE \E id \in Ids : remove(id) \/ Expire(id) \/ \E how \in Arms : set(id, how)
    <2>1. UNCHANGED <<service, signals, taken>> BY <1>3 DEF remove, Expire, set
    <2> QED BY <2>1, StillBalanced DEF service, signals, Flying
  <1>4. CASE \E t \in Threads : Take(t) \/ Fold(t) BY <1>4, TakeBalanced
  <1>5. CASE \E t \in Threads : TakeBit(t) \/ Mask(t) \/ End(t)
    <2>1. UNCHANGED <<service, queue, told, unkept, taken>> BY <1>5 DEF TakeBit, Mask, End, signals
    <2> QED BY <2>1, StillBalanced DEF service, Flying
  <1>6. CASE \E t \in Threads : Reap(t)
    <2>1. PICK t \in Threads : Reap(t) BY <1>6
    <2>2. Gone({t}) /\ unkept' = unkept + Lost({t}) /\ UNCHANGED <<service, taken, told>> BY <2>1 DEF Reap
    <2>3. \A u \in Threads : queue'[u] = IF u \in {t} THEN <<>> ELSE queue[u] BY <2>2, GoneTyped
    <2>4. Flying' + 0 = Flying BY <2>2, Amounts DEF service, Flying
    <2>5. Lost({t}) \in Nat BY LostNat
    <2>6. unkept' = unkept + Lost({t}) + 0 BY <2>2, <2>5, Amounts
    <2> QED BY <2>2, <2>3, <2>4, <2>6, LostBalanced
  <1>7. CASE \E t \in Threads : Fork(t)
    <2>1. PICK t \in Threads : Fork(t) BY <1>7
    <2> DEFINE left == IF t = Main THEN Threads ELSE {t} \cup Workers
    <2>2. /\ pc' = "none" /\ Gone(left) /\ unkept' = unkept + Lost(left) + Flying
          /\ UNCHANGED <<taken, told>>
      BY <2>1 DEF Fork
    <2>3. left \in SUBSET Threads BY Facts
    <2> HIDE DEF left
    <2>4. \A u \in Threads : queue'[u] = IF u \in left THEN <<>> ELSE queue[u] BY <2>2, GoneTyped
    <2>5. Flying' = 0 BY <2>2 DEF Flying
    <2>6. PICK n \in Nat : n = Flying BY Amounts
    <2>7. Flying' + n = Flying /\ unkept' = unkept + Lost(left) + n BY <2>2, <2>5, <2>6
    <2> QED BY <2>2, <2>3, <2>4, <2>7, LostBalanced
  <1>8. CASE ExecClear
    <2>1. Gone(Workers) /\ unkept' = unkept + Lost(Workers) /\ UNCHANGED <<service, taken, told>>
      BY <1>8 DEF ExecClear
    <2>2. Workers \in SUBSET Threads BY Facts
    <2>3. \A u \in Threads : queue'[u] = IF u \in Workers THEN <<>> ELSE queue[u] BY <2>1, GoneTyped
    <2>4. Flying' + 0 = Flying BY <2>1, Amounts DEF service, Flying
    <2>5. Lost(Workers) \in Nat BY <2>2, LostNat
    <2>6. unkept' = unkept + Lost(Workers) + 0 BY <2>1, <2>5, Amounts
    <2> QED BY <2>1, <2>2, <2>3, <2>4, <2>6, LostBalanced
  <1>9. CASE ExecPending
    <2>1. UNCHANGED <<service, taken, told>> BY <1>9 DEF ExecPending
    <2>2. CASE Main \in blocked
      <3>1. UNCHANGED <<queue, unkept>> BY <1>9, <2>2 DEF ExecPending
      <3> QED BY <2>1, <3>1, StillBalanced DEF service, Flying
    <2>3. CASE Main \notin blocked
      <3>1. queue' = [queue EXCEPT ![Main] = <<>>] /\ unkept' = unkept + Lost({Main})
        BY <1>9, <2>3 DEF ExecPending
      <3>2. {Main} \in SUBSET Threads BY Facts
      <3>3. \A u \in Threads : queue'[u] = IF u \in {Main} THEN <<>> ELSE queue[u]
        <4>1. queue \in [Threads -> Seq(Entry)] BY DEF Typed, SignalsTyped
        <4>2. PICK q : q = <<>> OBVIOUS
        <4>3. queue' = [queue EXCEPT ![Main] = q] BY <3>1, <4>2
        <4> QED BY <4>1, <4>2, <4>3
      <3>4. Flying' + 0 = Flying BY <2>1, Amounts DEF service, Flying
      <3>5. Lost({Main}) \in Nat BY <3>2, LostNat
      <3>6. unkept' = unkept + Lost({Main}) + 0 BY <3>1, <3>5, Amounts
      <3> QED BY <2>1, <3>2, <3>3, <3>4, <3>6, LostBalanced
    <2> QED BY <2>2, <2>3
  <1>10. CASE stop \/ Joined
    <2>1. UNCHANGED <<service, signals, taken>> BY <1>10 DEF stop, Joined
    <2> QED BY <2>1, StillBalanced DEF service, signals, Flying
  <1> QED BY <1>1, <1>2, <1>3, <1>4, <1>5, <1>6, <1>7, <1>8, <1>9, <1>10 DEF Next

\* Every expiry read from a timer is in flight, queued, reported or known
\* not to be kept, exactly once: through merges, full queues, ended threads,
\* fork and execve (GuestTimers::run, merge_timer_overrun).
THEOREM ExpiriesAccounted == Spec => []Accounted
  <1>1. Init => Typed /\ Serving /\ Balanced
    BY InitialTyped, InitialBalance DEF Init, Serving, Quiet
  <1>2. Typed /\ Typed' /\ Serving /\ Balanced /\ [Next]_vars => Balanced'
    <2>1. Balanced /\ UNCHANGED vars => Balanced'
      BY StillBalanced DEF vars, service, signals, Flying
    <2> QED BY <2>1, BalancedStep
  <1>3. Typed /\ Balanced => Accounted BY BalancedIs
  <1> QED BY <1>1, <1>2, <1>3, AlwaysTyped, AlwaysServing, PTL DEF Spec
=============================================================================
