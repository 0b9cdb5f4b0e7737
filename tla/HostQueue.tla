----------------------------- MODULE HostQueue -----------------------------
(***************************************************************************)
(* Emulator::HostSignalQueue: the lock-free bounded queue between host     *)
(* signal handlers (push) and the drains of the guest threads (pop).  Each *)
(* atomic load, compare-exchange and store is a step, and so is each       *)
(* access to the plain field Cell::sig.  Positions do not wrap here: 2^64  *)
(* pushes are out of reach, so the signed difference of the code is minus. *)
(* A handler that interrupts a push or a pop of its own thread is one more *)
(* interleaving of two callers.  val and taken are history: what was put   *)
(* at each position, and what was got from it.                             *)
(***************************************************************************)
EXTENDS Integers

CONSTANTS Producers,  \* the handler calls that push
          Consumers,  \* the drains that pop
          Values,     \* signal numbers
          NoSignal,   \* the zero of an empty cell
          Cap,        \* HOST_SIGNAL_QUEUE_CAP
          MaxTail     \* bound on the positions claimed

ASSUME QueueAssumption ==
    /\ Cap \in Nat /\ Cap > 1  \* a released cell must differ from a published one
    /\ MaxTail \in Nat
    /\ Producers \cap Consumers = {}

VARIABLES
    head, tail,  \* head_ and tail_
    seq, sig,    \* Cell::seq and Cell::sig
    at,          \* where a producer or consumer is
    pos,         \* its local pos
    arg,         \* a producer's signo
    val,         \* per position: the value its producer was given
    taken        \* per position: the values pop returned from it

vars == <<head, tail, seq, sig, at, pos, arg, val, taken>>

Callers == Producers \cup Consumers

Positions == 0..(MaxTail - 1)

Cells == 0..(Cap - 1)

cell(n) == n % Cap

Places == {"idle", "look", "claim", "write", "publish", "read", "release"}

\* Types, and the queue never holds more than its cells, counting the ones
\* that a pop has claimed and not released.
TypeOK ==
    /\ head <= tail /\ tail <= head + Cap
    /\ \A c \in Consumers : at[c] \in {"read", "release"} => tail <= pos[c] + Cap
    /\ head \in 0..MaxTail /\ tail \in 0..MaxTail
    /\ seq \in [Cells -> Nat] /\ sig \in [Cells -> Values \cup {NoSignal}]
    /\ at \in [Callers -> Places] /\ pos \in [Callers -> 0..MaxTail]
    /\ arg \in [Producers -> Values \cup {NoSignal}]
    /\ val \in [Positions -> Values \cup {NoSignal}]
    /\ taken \in [Positions -> SUBSET (Consumers \X (Values \cup {NoSignal}))]

Init ==
    /\ head = 0 /\ tail = 0
    /\ seq = [i \in Cells |-> i] /\ sig = [i \in Cells |-> NoSignal]
    /\ at = [c \in Callers |-> "idle"] /\ pos = [c \in Callers |-> 0]
    /\ arg = [p \in Producers |-> NoSignal]
    /\ val = [n \in Positions |-> NoSignal] /\ taken = [n \in Positions |-> {}]

-----------------------------------------------------------------------------
(* push. *)

Goto(c, from, to) == at[c] = from /\ at' = [at EXCEPT ![c] = to]

Reload(c, n) == pos' = [pos EXCEPT ![c] = n]

PushStart(p, v) ==
    /\ Goto(p, "idle", "look")
    /\ Reload(p, tail) /\ arg' = [arg EXCEPT ![p] = v]
    /\ UNCHANGED <<head, tail, seq, sig, val, taken>>

\* The cell is ready for this position.
PushReady(p) ==
    /\ seq[cell(pos[p])] = pos[p] /\ Goto(p, "look", "claim")
    /\ UNCHANGED <<head, tail, seq, sig, pos, arg, val, taken>>

\* Another producer has it.
PushStale(p) ==
    /\ seq[cell(pos[p])] > pos[p] /\ Goto(p, "look", "look")
    /\ Reload(p, tail)
    /\ UNCHANGED <<head, tail, seq, sig, arg, val, taken>>

\* push returns false, and queue_host_signal drops the signal.
PushFull(p) ==
    /\ seq[cell(pos[p])] < pos[p] /\ Goto(p, "look", "idle")
    /\ UNCHANGED <<head, tail, seq, sig, pos, arg, val, taken>>

\* A mistaken variant: the cell is published with the claim.
PushClaimPublished(p) ==
    /\ tail = pos[p] /\ tail < MaxTail /\ Goto(p, "claim", "write")
    /\ tail' = tail + 1 /\ val' = [val EXCEPT ![tail] = arg[p]]
    /\ seq' = [seq EXCEPT ![cell(pos[p])] = pos[p] + 1]
    /\ UNCHANGED <<head, sig, pos, arg, taken>>

PushClaim(p) ==
    /\ tail = pos[p] /\ tail < MaxTail /\ Goto(p, "claim", "write")
    /\ tail' = tail + 1 /\ val' = [val EXCEPT ![tail] = arg[p]]
    /\ UNCHANGED <<head, seq, sig, pos, arg, taken>>

\* compare_exchange_weak fails, perhaps spuriously, and reloads pos.
PushMiss(p) ==
    /\ Goto(p, "claim", "look") /\ Reload(p, tail)
    /\ UNCHANGED <<head, tail, seq, sig, arg, val, taken>>

PushWrite(p) ==
    /\ Goto(p, "write", "publish")
    /\ sig' = [sig EXCEPT ![cell(pos[p])] = arg[p]]
    /\ UNCHANGED <<head, tail, seq, pos, arg, val, taken>>

\* A mistaken variant: the number of the position, not of the next one.
PushPublishSame(p) ==
    /\ Goto(p, "publish", "idle")
    /\ seq' = [seq EXCEPT ![cell(pos[p])] = pos[p]]
    /\ UNCHANGED <<head, tail, sig, pos, arg, val, taken>>

PushPublish(p) ==
    /\ Goto(p, "publish", "idle")
    /\ seq' = [seq EXCEPT ![cell(pos[p])] = pos[p] + 1]
    /\ UNCHANGED <<head, tail, sig, pos, arg, val, taken>>

-----------------------------------------------------------------------------
(* pop. *)

PopStart(c) ==
    /\ Goto(c, "idle", "look") /\ Reload(c, head)
    /\ UNCHANGED <<head, tail, seq, sig, arg, val, taken>>

PopReady(c) ==
    /\ seq[cell(pos[c])] = pos[c] + 1 /\ Goto(c, "look", "claim")
    /\ UNCHANGED <<head, tail, seq, sig, pos, arg, val, taken>>

PopStale(c) ==
    /\ seq[cell(pos[c])] > pos[c] + 1 /\ Goto(c, "look", "look")
    /\ Reload(c, head)
    /\ UNCHANGED <<head, tail, seq, sig, arg, val, taken>>

PopEmpty(c) ==
    /\ seq[cell(pos[c])] < pos[c] + 1 /\ Goto(c, "look", "idle")
    /\ UNCHANGED <<head, tail, seq, sig, pos, arg, val, taken>>

\* A mistaken variant: head_ is stored without a comparison.
PopClaimStores(c) ==
    /\ Goto(c, "claim", "read")
    /\ head' = pos[c] + 1
    /\ UNCHANGED <<tail, seq, sig, pos, arg, val, taken>>

PopClaim(c) ==
    /\ head = pos[c] /\ Goto(c, "claim", "read")
    /\ head' = head + 1
    /\ UNCHANGED <<tail, seq, sig, pos, arg, val, taken>>

PopMiss(c) ==
    /\ Goto(c, "claim", "look") /\ Reload(c, head)
    /\ UNCHANGED <<head, tail, seq, sig, arg, val, taken>>

PopRead(c) ==
    /\ Goto(c, "read", "release")
    /\ taken' = [taken EXCEPT ![pos[c]] = @ \cup {<<c, sig[cell(pos[c])]>>}]
    /\ UNCHANGED <<head, tail, seq, sig, pos, arg, val>>

PopRelease(c) ==
    /\ Goto(c, "release", "idle")
    /\ seq' = [seq EXCEPT ![cell(pos[c])] = pos[c] + Cap]
    /\ UNCHANGED <<head, tail, sig, pos, arg, val, taken>>

-----------------------------------------------------------------------------
PushSteps(p) ==
    \/ PushReady(p) \/ PushStale(p) \/ PushFull(p) \/ PushClaim(p) \/ PushMiss(p)
    \/ PushWrite(p) \/ PushPublish(p)

PopSteps(c) ==
    \/ PopStart(c) \/ PopReady(c) \/ PopStale(c) \/ PopEmpty(c) \/ PopClaim(c) \/ PopMiss(c)
    \/ PopRead(c) \/ PopRelease(c)

Next ==
    \/ \E p \in Producers : PushSteps(p) \/ \E v \in Values : PushStart(p, v)
    \/ \E c \in Consumers : PopSteps(c)

Spec == Init /\ [][Next]_vars

\* Handlers and drains run on; drains are repeated; a compare-exchange that
\* can succeed again and again does not fail for ever.
FairSpec ==
    /\ Spec
    /\ \A p \in Producers : WF_vars(PushSteps(p)) /\ SF_vars(PushClaim(p))
    /\ \A c \in Consumers : WF_vars(PopSteps(c)) /\ SF_vars(PopClaim(c))

-----------------------------------------------------------------------------
\* The plain field Cell::sig is never written while another caller reads or
\* writes the same cell: the sequence numbers alone keep it from a data race.
NoRace ==
    \A p \in Producers, c \in Callers :
        at[p] = "write" /\ c # p /\ at[c] \in {"write", "read"} => cell(pos[p]) # cell(pos[c])

\* What pop returns from a position is what push was given for it, and only
\* one pop returns it.
ExactlyOnce ==
    \A n \in Positions : \A x \in taken[n] :
        x[2] = val[n] /\ n < head /\ \A y \in taken[n] : y = x

\* Every signal that a push has claimed a position for is popped.
AllPopped == \A n \in Positions : (tail > n) ~> (taken[n] # {})

\* push "Returns false if the queue is full": never while it is empty.
FailsOnlyWhenFull == [][\A p \in Producers : PushFull(p) => head < tail]_vars
=============================================================================
