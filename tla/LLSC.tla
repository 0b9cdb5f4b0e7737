-------------------------------- MODULE LLSC --------------------------------
(***************************************************************************)
(* What the guest is promised of load-exclusive and store-exclusive: each  *)
(* takes effect in one step; a store-exclusive or store-release breaks     *)
(* every reservation in its bucket; a store-exclusive succeeds only on an  *)
(* unbroken reservation whose value is still in memory.  A reservation may *)
(* be lost at any time.                                                    *)
(***************************************************************************)
CONSTANTS Threads, Cells, Values, Accesses, BucketOf

VARIABLES mem,     \* guest memory
          resv,    \* each thread's reservation: held or not, and of what
          ret      \* the store a thread has performed and not returned from

vars == <<mem, resv, ret>>

Loaded == UNION {[a -> Values] : a \in Accesses}

None == [held |-> FALSE, acc |-> {}, value |-> <<>>]

Init ==
    /\ mem \in [Cells -> Values]
    /\ resv = [t \in Threads |-> None]
    /\ ret = [t \in Threads |-> "none"]

\* Stores v at access a and breaks every reservation that shares its bucket.
Perform(t, a, v) ==
    /\ mem' = [c \in Cells |-> IF c \in a THEN v[c] ELSE mem[c]]
    /\ resv' = [u \in Threads |-> IF resv[u].held /\ BucketOf[resv[u].acc] = BucketOf[a]
                                     THEN [resv[u] EXCEPT !.held = FALSE] ELSE resv[u]]

\* A new reservation, which may be lost as soon as it is made.
LoadExclusive(t, a) ==
    /\ ret[t] = "none"
    /\ \E held \in BOOLEAN :
          resv' = [resv EXCEPT ![t] = [held |-> held, acc |-> a, value |-> [c \in a |-> mem[c]]]]
    /\ UNCHANGED <<mem, ret>>

\* The only way a thread comes to report a successful store-exclusive.
StoreExclusive(t, v) ==
    /\ ret[t] = "none"
    /\ resv[t].held
    /\ resv[t].value = [c \in resv[t].acc |-> mem[c]]
    /\ Perform(t, resv[t].acc, v)
    /\ ret' = [ret EXCEPT ![t] = "exclusive"]

StoreRelease(t, a, v) ==
    /\ ret[t] = "none"
    /\ Perform(t, a, v)
    /\ ret' = [ret EXCEPT ![t] = "release"]

\* The instruction completes; a store-exclusive has used its reservation up.
Return(t) ==
    /\ ret[t] # "none"
    /\ ret' = [ret EXCEPT ![t] = "none"]
    /\ resv' \in {resv, [resv EXCEPT ![t] = None]}
    /\ UNCHANGED mem

\* A plain store breaks no reservation.
Store(c, v) == mem' = [mem EXCEPT ![c] = v] /\ UNCHANGED <<resv, ret>>

\* A reservation is lost, or a failed store-exclusive or a signal drops it.
Lose(t) ==
    /\ \E r \in {None, [resv[t] EXCEPT !.held = FALSE]} : resv' = [resv EXCEPT ![t] = r]
    /\ UNCHANGED <<mem, ret>>

\* In a fork child a store whose thread did not come along counts as a plain
\* store: the reservation it broke may stand again.
Fork(t) ==
    /\ ret[t] = "none"
    /\ \E held \in BOOLEAN :
          resv' = [u \in Threads |-> IF u = t THEN [resv[t] EXCEPT !.held = held] ELSE None]
    /\ ret' = [u \in Threads |-> "none"]
    /\ UNCHANGED mem

Next ==
    \/ \E t \in Threads, a \in Accesses :
          LoadExclusive(t, a) \/ \E v \in [a -> Values] : StoreRelease(t, a, v)
    \/ \E t \in Threads : \E v \in Loaded : StoreExclusive(t, v)
    \/ \E t \in Threads : Return(t) \/ Lose(t) \/ Fork(t)
    \/ \E c \in Cells, v \in Values : Store(c, v)

Spec == Init /\ [][Next]_vars
=============================================================================
