-------------------------- MODULE ExclusiveMonitor --------------------------
(***************************************************************************)
(* The global exclusive monitor behind the guest's LL/SC atomics           *)
(* (System/Core/ExclusiveMonitor.hpp), as the interpreter's handlers, the  *)
(* JIT's C++ helpers and the JIT's native sequences use it.                *)
(*                                                                         *)
(* A bucket word is a lock bit (bit 0) and a version (the rest).  A CPU's  *)
(* reservation is its tag: the access, the value loaded and the bucket's   *)
(* version at load-exclusive time.                                         *)
(*                                                                         *)
(* An access is the set of cells (elements of guest memory) it touches, so *)
(* that accesses of different widths overlap; its bucket is that of its    *)
(* base address.                                                           *)
(***************************************************************************)
EXTENDS Naturals

CONSTANTS Threads,      \* guest CPUs, one host thread each
          Cells,        \* guest memory, in the smallest unit an access touches
          Values,       \* what a cell can hold
          Accesses,     \* the (address, width) pairs, each the set of its cells
          Buckets,      \* the table of bucket words
          BucketOf,     \* index(addr): the bucket of an access's base address
          MaxWord       \* bound: no store begins on a bucket word past it

ASSUME MonitorAssumption ==
    /\ Accesses \subseteq SUBSET Cells
    /\ BucketOf \in [Accesses -> Buckets]
    /\ MaxWord \in Nat

VARIABLES
    mem,      \* guest memory
    word,     \* buckets[i].word
    tag,      \* CPU::excl_tag_*, excl_value, excl_ver
    pc,       \* where each thread is in the instruction it executes
    op,       \* that instruction and its host-side locals
    alive,    \* the threads this process has
    passed    \* history: the accesses of the store-exclusives and
              \* store-releases completed since the thread's load-exclusive

vars == <<mem, word, tag, pc, op, alive, passed>>

-----------------------------------------------------------------------------
(* Bucket words. *)

Locked(w) == w % 2 = 1

version_of(w) == w - (w % 2)

\* Mutant: a release that never bumps the version.
UnlockedNoBump(w, bump) == version_of(w)

\* The two ways to release: fetch_add(1) carries the set lock bit into the
\* version, fetch_and(~1) keeps the version.
Unlocked(w, bump) == IF bump THEN w + 1 ELSE version_of(w)

-----------------------------------------------------------------------------
(* Types. *)

Loaded == UNION {[a -> Values] : a \in Accesses}

Tags == [valid : BOOLEAN, acc : Accesses \cup {{}}, value : Loaded \cup {<<>>}, ver : Nat]

\* The fields of an invalid tag are never read.
NoTag == [valid |-> FALSE, acc |-> {}, value |-> <<>>, ver |-> 0]

Kinds == {"ldxr", "stxr", "stlr"}

\* val: the register to store (nothing for a load).  tmp: the version an
\* interpreted LDXR read, or the word a native unlock read.  bump: Hold::bump_.
\* then: what follows the unlock.
Ops == [kind : Kinds, native : BOOLEAN, acc : Accesses, val : Loaded \cup {<<>>},
        tmp : Nat, bump : BOOLEAN, then : {"done", "retry", "signal"}]

NewOp(kind, native, a, v) ==
    [kind |-> kind, native |-> native, acc |-> a, val |-> v,
     tmp |-> 0, bump |-> FALSE, then |-> "done"]

\* Between instructions.
NoOp == NewOp("none", FALSE, {}, <<>>)

Pcs == {"idle", "version", "value", "tag", "lock", "held", "write",
        "unlock", "writeback"}

\* The instructions that can be at a program counter.
KindFits(kind, at) ==
    /\ kind = "none" <=> at = "idle"
    /\ kind = "ldxr" <=> at \in {"version", "value"}
    /\ at \in {"tag", "held"} => kind = "stxr"

StateOK ==
    /\ mem \in [Cells -> Values]
    /\ word \in [Buckets -> Nat]
    /\ alive \in SUBSET Threads

TagsOK ==
    /\ tag \in [Threads -> Tags]
    /\ passed \in [Threads -> SUBSET Accesses]
    /\ \A t \in Threads : tag[t].valid => /\ tag[t].acc \in Accesses
                                          /\ tag[t].value \in [tag[t].acc -> Values]

OpsOK ==
    /\ pc \in [Threads -> Pcs]
    /\ op \in [Threads -> Ops \cup {NoOp}]
    /\ \A t \in Threads :
          /\ pc[t] # "idle" => op[t] \in Ops
          /\ KindFits(op[t].kind, pc[t])
          /\ op[t].kind \in {"stxr", "stlr"} => op[t].val \in [op[t].acc -> Values]

TypeOK == StateOK /\ TagsOK /\ OpsOK

-----------------------------------------------------------------------------
BucketOfOp(t) == BucketOf[op[t].acc]

\* What a load of access a returns.
MemRead(a) == [c \in a |-> mem[c]]

MemWrite(a, v) == [c \in Cells |-> IF c \in a THEN v[c] ELSE mem[c]]

excl_mark(t, a, v, ver) ==
    /\ tag' = [tag EXCEPT ![t] = [valid |-> TRUE, acc |-> a, value |-> v, ver |-> ver]]
    /\ passed' = [passed EXCEPT ![t] = {}]

excl_clear(t) ==
    /\ tag' = [tag EXCEPT ![t] = NoTag]
    /\ passed' = [passed EXCEPT ![t] = {}]

Done(t) == op' = [op EXCEPT ![t] = NoOp]

excl_check(t, a) == tag[t].valid /\ tag[t].acc = a

Goto(t, from, to) == pc[t] = from /\ t \in alive /\ pc' = [pc EXCEPT ![t] = to]

Init ==
    /\ mem \in [Cells -> Values]
    /\ word = [b \in Buckets |-> 0]
    /\ tag = [t \in Threads |-> NoTag]
    /\ pc = [t \in Threads |-> "idle"]
    /\ op = [t \in Threads |-> NoOp]
    /\ alive = Threads
    /\ passed = [t \in Threads |-> {}]

-----------------------------------------------------------------------------
(* Decoding one exclusive or store-release instruction.  The native        *)
(* store-exclusive looks at the tag before it takes the bucket; the        *)
(* interpreter and jit_stxr take the bucket first.                         *)

FirstStep(kind, native) ==
    CASE kind = "ldxr"              -> "version"
      [] kind = "stxr" /\ native    -> "tag"
      [] OTHER                      -> "lock"

Issue(t, kind, native, a, v) ==
    /\ kind # "ldxr" => word[BucketOf[a]] <= MaxWord
    /\ Goto(t, "idle", FirstStep(kind, native))
    /\ op' = [op EXCEPT ![t] = NewOp(kind, native, a, v)]
    /\ UNCHANGED <<mem, word, tag, alive, passed>>

\* LDXR/LDAXR/LDXP, first the version (even of a locked bucket).  The native
\* sequence stores it into the CPU's tag at once, the C++ ones keep a local.
LdxrVersion(t) ==
    /\ Goto(t, "version", "value")
    /\ LET ver == version_of(word[BucketOfOp(t)]) IN
          IF op[t].native
             THEN tag' = [tag EXCEPT ![t].ver = ver] /\ UNCHANGED op
             ELSE op' = [op EXCEPT ![t].tmp = ver] /\ UNCHANGED tag
    /\ UNCHANGED <<mem, word, alive, passed>>

\* ... then the value, which completes the reservation.
LdxrValue(t) ==
    /\ Goto(t, "value", "idle")
    /\ excl_mark(t, op[t].acc, MemRead(op[t].acc), IF op[t].native THEN tag[t].ver ELSE op[t].tmp)
    /\ Done(t)
    /\ UNCHANGED <<mem, word, alive>>

\* The load faults.  A native fault resumes at the generic stub, which runs
\* the instruction again in the interpreter; there it raises a signal, whose
\* delivery clears the tag.
LdxrFault(t) ==
    \/ /\ op[t].native
       /\ Goto(t, "value", "version")
       /\ op' = [op EXCEPT ![t].native = FALSE]
       /\ UNCHANGED <<mem, word, tag, alive, passed>>
    \/ /\ ~op[t].native
       /\ Goto(t, "value", "idle")
       /\ excl_clear(t)
       /\ Done(t)
       /\ UNCHANGED <<mem, word, alive>>

\* The native store-exclusive's check of the tag, without the bucket.
StxrTag(t) ==
    \/ /\ excl_check(t, op[t].acc)
       /\ Goto(t, "tag", "lock")
       /\ UNCHANGED <<mem, word, tag, op, alive, passed>>
    \/ /\ ~excl_check(t, op[t].acc)
       /\ Goto(t, "tag", "idle")
       /\ excl_clear(t)
       /\ Done(t)
       /\ UNCHANGED <<mem, word, alive>>

\* Hold's constructor, `lock bts` and jit_excl_lock_slow.  A failed attempt
\* ORs a bit that is already set: a stuttering step.
Lock(t) ==
    /\ Goto(t, "lock", IF op[t].kind = "stxr" THEN "held" ELSE "write")
    /\ ~Locked(word[BucketOfOp(t)])
    /\ word' = [word EXCEPT ![BucketOfOp(t)] = @ + 1]
    /\ UNCHANGED <<mem, tag, op, alive, passed>>

\* The reservation must be this CPU's and still current in the bucket.
StxrCheck(t) ==
    LET ok == /\ op[t].native \/ excl_check(t, op[t].acc)
              /\ version_of(word[BucketOfOp(t)]) = tag[t].ver
    IN /\ Goto(t, "held", IF ok THEN "write" ELSE "unlock")
       /\ UNCHANGED <<mem, word, tag, op, alive, passed>>

\* Mutant: trusts the version and stores without the compare.
WriteBlind(t) ==
    /\ Goto(t, "write", "unlock")
    /\ mem' = MemWrite(op[t].acc, op[t].val)
    /\ op' = [op EXCEPT ![t].bump = TRUE]
    /\ UNCHANGED <<word, tag, alive, passed>>

\* The compare-and-swap of the loaded value, or the store-release's store.
Write(t) ==
    LET ok == op[t].kind = "stxr" => MemRead(op[t].acc) = tag[t].value
    IN /\ Goto(t, "write", "unlock")
       /\ mem' = IF ok THEN MemWrite(op[t].acc, op[t].val) ELSE mem
       /\ op' = [op EXCEPT ![t].bump = ok]
       /\ UNCHANGED <<word, tag, alive, passed>>

\* Mutant: the fault site keeps the generic stub, which does not unlock.
WriteFaultLeaks(t) ==
    /\ Goto(t, "write", "idle")
    /\ excl_clear(t)
    /\ Done(t)
    /\ UNCHANGED <<mem, word, alive>>

\* The access faults while the bucket is held: nothing is written and the
\* version is kept.  Native code then retries in the interpreter, the others
\* raise a signal.
WriteFault(t) ==
    /\ Goto(t, "write", "unlock")
    /\ op' = [op EXCEPT ![t].then = IF op[t].native THEN "retry" ELSE "signal"]
    /\ UNCHANGED <<mem, word, tag, alive, passed>>

\* What follows the unlock: the tag is cleared by a store-exclusive and by the
\* delivery of a signal; a retry starts again in the interpreter.
ClearsTag(t) == op[t].then = "signal" \/ (op[t].then = "done" /\ op[t].kind = "stxr")

\* History: the store completes, for every other reservation there is.
Completes(t) ==
    [u \in Threads |-> {a \in passed[u] \cup {op[t].acc} :
                           tag'[u].valid /\ (a \in passed[u] \/ op[t].bump)}]

Finish(t, from) ==
    /\ Goto(t, from, IF op[t].then = "retry" THEN "lock" ELSE "idle")
    /\ tag' = IF ClearsTag(t) THEN [tag EXCEPT ![t] = NoTag] ELSE tag
    /\ op' = [op EXCEPT ![t] = IF op[t].then = "retry"
                                   THEN NewOp(op[t].kind, FALSE, op[t].acc, op[t].val) ELSE NoOp]
    /\ passed' = Completes(t)
    /\ UNCHANGED <<mem, alive>>

\* Hold's destructor: one atomic instruction.
Unlock(t) ==
    /\ ~op[t].native
    /\ Finish(t, "unlock")
    /\ word' = [word EXCEPT ![BucketOfOp(t)] = Unlocked(@, op[t].bump)]

\* The native unlock is an unlocked `add` or `and`: a read ...
UnlockRead(t) ==
    /\ op[t].native
    /\ Goto(t, "unlock", "writeback")
    /\ op' = [op EXCEPT ![t].tmp = word[BucketOfOp(t)]]
    /\ UNCHANGED <<mem, word, tag, alive, passed>>

\* ... and a write of the whole word.
UnlockWrite(t) ==
    /\ Finish(t, "writeback")
    /\ word' = [word EXCEPT ![BucketOfOp(t)] = Unlocked(op[t].tmp, op[t].bump)]

-----------------------------------------------------------------------------
(* What else touches the monitor's state. *)

\* A plain store, or an LSE atomic that writes: no bucket is taken.
Store(t, c, v) ==
    /\ t \in alive /\ pc[t] = "idle"
    /\ mem' = [mem EXCEPT ![c] = v]
    /\ UNCHANGED <<word, tag, pc, op, alive, passed>>

\* CLREX, the delivery of an asynchronous signal and the return from its
\* handler.
Clear(t) ==
    /\ t \in alive /\ pc[t] = "idle"
    /\ excl_clear(t)
    /\ UNCHANGED <<mem, word, pc, op, alive>>

\* The threads a fork child does not have, and their state.
OnlyCaller(t) ==
    /\ alive' = {t}
    /\ pc' = [u \in Threads |-> "idle"]
    /\ op' = [u \in Threads |-> NoOp]
    /\ tag' = [u \in Threads |-> IF u = t THEN tag[t] ELSE NoTag]
    /\ passed' = [u \in Threads |-> IF u = t THEN passed[t] ELSE {}]

\* Mutant: the child keeps the inherited lock bits.
ForkKeepsLocks(t) ==
    /\ t \in alive /\ pc[t] = "idle"
    /\ OnlyCaller(t)
    /\ UNCHANGED <<mem, word>>

\* Mutant: the child starts with a fresh table.
ForkFreshTable(t) ==
    /\ t \in alive /\ pc[t] = "idle"
    /\ OnlyCaller(t)
    /\ word' = [b \in Buckets |-> 0]
    /\ UNCHANGED mem

\* fork, seen from the child: only the caller's thread exists, and the buckets
\* the others had locked are unlocked without a bump.
Fork(t) ==
    /\ t \in alive /\ pc[t] = "idle"
    /\ OnlyCaller(t)
    /\ word' = [b \in Buckets |-> version_of(word[b])]
    /\ UNCHANGED mem

\* clone: a new thread, with a fresh monitor.
Spawn(t, u) ==
    /\ t \in alive /\ pc[t] = "idle"
    /\ u \notin alive
    /\ alive' = alive \cup {u}
    /\ excl_clear(u)
    /\ UNCHANGED <<mem, word, pc, op>>

-----------------------------------------------------------------------------
Instruction(t) ==
    \E native \in BOOLEAN, a \in Accesses :
        \/ Issue(t, "ldxr", native, a, <<>>)
        \/ \E kind \in {"stxr", "stlr"}, v \in [a -> Values] : Issue(t, kind, native, a, v)

\* The steps of a thread between its taking a bucket and its releasing it.
Holding(t) ==
    \/ StxrCheck(t) \/ Write(t) \/ WriteFault(t)
    \/ Unlock(t) \/ UnlockRead(t) \/ UnlockWrite(t)

Next ==
    \E t \in Threads :
        \/ Instruction(t)
        \/ LdxrVersion(t) \/ LdxrValue(t) \/ LdxrFault(t)
        \/ StxrTag(t) \/ Lock(t)
        \/ Holding(t)
        \/ \E c \in Cells, v \in Values : Store(t, c, v)
        \/ Clear(t) \/ Fork(t)
        \/ \E u \in Threads : Spawn(t, u)

\* A thread inside the bucket runs on: it spins, sleeps and waits for nothing.
Fairness == \A t \in Threads : WF_vars(Holding(t))

Spec == Init /\ [][Next]_vars

FairSpec == Spec /\ Fairness

-----------------------------------------------------------------------------
(* Properties. *)

\* The thread has the bucket of its instruction locked.
Holds(t, b) ==
    /\ pc[t] \in {"held", "write", "unlock", "writeback"}
    /\ BucketOfOp(t) = b

\* A bucket's lock bit is set exactly when one thread of this process is
\* inside it, although the native unlock is a plain read-modify-write that
\* other threads' attempts to lock race with, and a fork child inherits words
\* locked by threads it does not have.
OneHolder ==
    \A b \in Buckets :
        /\ Locked(word[b]) <=> \E t \in Threads : Holds(t, b)
        /\ \A t, u \in Threads : Holds(t, b) /\ Holds(u, b) => t = u

\* A store-exclusive that is about to write has missed no store-exclusive or
\* store-release to its bucket that completed after its load-exclusive, even
\* one that put the loaded value back (a recycled pointer).
MissesNoStore ==
    \A t \in Threads :
        pc[t] = "write" /\ op[t].kind = "stxr" =>
            \A a \in passed[t] : BucketOf[a] # BucketOfOp(t)

\* A bucket's version only grows: no unlock writes back an older one.
VersionsGrow ==
    [][\A b \in Buckets : version_of(word'[b]) >= version_of(word[b])]_vars

\* No bucket stays locked: the thread inside completes, faults or is gone.
BucketsReleased ==
    \A b \in Buckets : Locked(word[b]) ~> ~Locked(word[b])

\* One reservation covers both elements of a pair: a store-exclusive about to
\* write has missed no completed store that overlaps it.
ReservationCoversAccess ==
    \A t \in Threads :
        pc[t] = "write" /\ op[t].kind = "stxr" =>
            \A a \in passed[t] : a \cap op[t].acc = {}

-----------------------------------------------------------------------------
(* The inductive strengthening behind OneHolder, MissesNoStore and         *)
(* VersionsGrow.                                                           *)

\* A native unlock writes back the word that is still there.
Fresh(t) == pc[t] = "writeback" => op[t].tmp = word[BucketOfOp(t)]

\* The bump is decided by the write.
Decided(t) == op[t].bump => pc[t] \in {"unlock", "writeback"}

\* What a store-exclusive has established of its tag on the way to its write.
Checked(t) ==
    op[t].kind = "stxr" =>
        /\ pc[t] \in {"lock", "held"} /\ op[t].native => excl_check(t, op[t].acc)
        /\ pc[t] = "write" => /\ excl_check(t, op[t].acc)
                              /\ tag[t].ver = version_of(word[BucketOfOp(t)])

\* The version a load-exclusive has read is not ahead of its bucket.
ReadVersion(t) ==
    pc[t] = "value" =>
        (IF op[t].native THEN tag[t].ver ELSE op[t].tmp) <= version_of(word[BucketOfOp(t)])

\* A tag's version is not ahead of its bucket, and is behind it once a store
\* to the bucket has completed.  An interrupted native load-exclusive has
\* replaced the version, but never lets the old tag be used again.
Current(t) ==
    tag[t].valid /\ op[t].kind # "ldxr" =>
        LET b == BucketOf[tag[t].acc] IN
        /\ tag[t].ver <= version_of(word[b])
        /\ \A a \in passed[t] : BucketOf[a] = b => tag[t].ver < version_of(word[b])

\* A thread that is executing an instruction is one this process has.
Present == \A t \in Threads : pc[t] # "idle" => t \in alive

ThreadInv(t) == Fresh(t) /\ Decided(t) /\ Checked(t) /\ ReadVersion(t) /\ Current(t)

MonitorInv == TypeOK /\ OneHolder /\ \A t \in Threads : ThreadInv(t)

-----------------------------------------------------------------------------
(* Refinement: the three protocols together implement atomic LL/SC.        *)

\* The thread has written and not yet released its bucket.
Landed(t) == pc[t] \in {"unlock", "writeback"} /\ op[t].bump

\* A reservation stands while its bucket still has its version and no other
\* store has landed there.  A native load-exclusive overwrites the version of
\* an older tag before it has loaded.
Stands(t) ==
    /\ tag[t].valid
    /\ ~(op[t].kind = "ldxr" /\ pc[t] \in {"version", "value"})
    /\ version_of(word[BucketOf[tag[t].acc]]) = tag[t].ver
    /\ ~ \E u \in Threads : Landed(u) /\ BucketOfOp(u) = BucketOf[tag[t].acc]

Reservation(t) == [held |-> Stands(t), acc |-> tag[t].acc, value |-> tag[t].value]

Performed(t) ==
    CASE ~Landed(t)                          -> "none"
      [] Landed(t) /\ op[t].kind = "stxr"    -> "exclusive"
      [] Landed(t) /\ op[t].kind = "stlr"    -> "release"

Atomic == INSTANCE LLSC WITH resv <- [t \in Threads |-> Reservation(t)],
                             ret  <- [t \in Threads |-> Performed(t)]

\* Every execution of the monitor is one of atomic load- and store-exclusives.
ImplementsLLSC == Atomic!Spec
=============================================================================
