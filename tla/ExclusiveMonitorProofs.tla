----------------------- MODULE ExclusiveMonitorProofs -----------------------
(***************************************************************************)
(* Proofs about ExclusiveMonitor, for any threads, memory, accesses and    *)
(* table of buckets.                                                       *)
(***************************************************************************)
EXTENDS ExclusiveMonitor, TLAPS

-----------------------------------------------------------------------------
(* Bucket words. *)

\* Taking the lock keeps the version; the releasing bump carries into it.
LEMMA WordFacts ==
    ASSUME NEW w \in Nat
    PROVE  /\ version_of(w) \in Nat
           /\ ~Locked(version_of(w))
           /\ version_of(version_of(w)) = version_of(w)
           /\ ~Locked(w) => Locked(w + 1) /\ version_of(w + 1) = version_of(w)
           /\ Locked(w) => ~Locked(w + 1) /\ version_of(w + 1) > version_of(w)
  BY DEF version_of, Locked

\* Both ways to release a locked word.
LEMMA UnlockedFacts ==
    ASSUME NEW w \in Nat, NEW bump \in BOOLEAN, Locked(w)
    PROVE  /\ Unlocked(w, bump) \in Nat
           /\ ~Locked(Unlocked(w, bump))
           /\ version_of(Unlocked(w, bump)) >= version_of(w)
           /\ bump => version_of(Unlocked(w, bump)) > version_of(w)
  <1>1. CASE bump
    BY <1>1, WordFacts DEF Unlocked
  <1>2. CASE ~bump
    BY <1>2, WordFacts DEF Unlocked
  <1> QED BY <1>1, <1>2

-----------------------------------------------------------------------------
(* Types. *)

LEMMA LoadedFacts ==
    ASSUME NEW a \in Accesses, NEW v \in [a -> Values]
    PROVE  v \in Loaded
  BY DEF Loaded

LEMMA MemReadType ==
    ASSUME StateOK, NEW a \in Accesses
    PROVE  MemRead(a) \in [a -> Values]
  BY MonitorAssumption DEF StateOK, MemRead

\* A step that gives one thread a new instruction record o and program counter p.
LEMMA OpsStep ==
    ASSUME OpsOK, NEW t \in Threads, NEW p \in Pcs, NEW o \in Ops \cup {NoOp},
           pc' = [pc EXCEPT ![t] = p],
           op' = [op EXCEPT ![t] = o],
           p # "idle" => o \in Ops,
           KindFits(o.kind, p),
           o.kind \in {"stxr", "stlr"} => o.val \in [o.acc -> Values]
    PROVE  OpsOK'
  BY DEF OpsOK

\* A thread at one of the points of an instruction has a typed record.
LEMMA AtType ==
    ASSUME TypeOK, NEW t \in Threads, pc[t] # "idle"
    PROVE  /\ op[t] \in Ops
           /\ op[t].acc \in Accesses
           /\ BucketOfOp(t) \in Buckets
           /\ word[BucketOfOp(t)] \in Nat
  <1>1. op[t] \in Ops
    BY DEF TypeOK, OpsOK
  <1>2. op[t].acc \in Accesses
    BY <1>1 DEF Ops
  <1> QED BY <1>1, <1>2, MonitorAssumption DEF TypeOK, StateOK, BucketOfOp

LEMMA NoTagType == NoTag \in Tags /\ ~NoTag.valid
  BY DEF NoTag, Tags

LEMMA NoOpType == NoOp.kind = "none"
  BY DEF NoOp, NewOp

LEMMA IdleStep ==
    ASSUME OpsOK, NEW t \in Threads, pc' = [pc EXCEPT ![t] = "idle"], op' = [op EXCEPT ![t] = NoOp]
    PROVE  OpsOK'
  BY OpsStep, NoOpType DEF Pcs, KindFits

LEMMA ClearStep ==
    ASSUME TagsOK, NEW t \in Threads, excl_clear(t)
    PROVE  TagsOK'
  BY NoTagType DEF TagsOK, excl_clear

\* What Finish does to the types.
LEMMA FinishStep ==
    ASSUME TypeOK, NEW t \in Threads, NEW from \in {"unlock", "writeback"}, Finish(t, from)
    PROVE  TagsOK' /\ OpsOK'
  <1> USE DEF TypeOK
  <1>1. op[t] \in Ops /\ op[t].acc \in Accesses /\ op[t].bump \in BOOLEAN
    BY AtType DEF Finish, Goto, Ops
  <1>2. tag' \in [Threads -> Tags]
    BY NoTagType DEF Finish, TagsOK
  <1>3. \A u \in Threads : tag'[u].valid => tag'[u] = tag[u]
    BY NoTagType DEF Finish, TagsOK
  <1>4. passed' \in [Threads -> SUBSET Accesses]
    BY <1>1 DEF Finish, Completes, TagsOK
  <1>5. TagsOK'
    BY <1>2, <1>3, <1>4 DEF TagsOK
  <1>6. OpsOK'
    <2>1. CASE op[t].then = "retry"
      <3> DEFINE o == NewOp(op[t].kind, FALSE, op[t].acc, op[t].val)
      <3>1. o \in Ops /\ o.kind = op[t].kind /\ o.acc = op[t].acc /\ o.val = op[t].val
        BY <1>1 DEF NewOp, Ops
      <3>2. op' = [op EXCEPT ![t] = o] /\ pc' = [pc EXCEPT ![t] = "lock"]
        BY <2>1 DEF Finish, Goto
      <3>3. "lock" \in Pcs /\ (o.kind \in {"stxr", "stlr"} => o.val \in [o.acc -> Values])
        BY <3>1 DEF OpsOK, Pcs
      <3>4. KindFits(o.kind, "lock")
        BY <3>1 DEF OpsOK, KindFits, Finish, Goto
      <3> HIDE DEF o
      <3> QED BY <3>1, <3>2, <3>3, <3>4, OpsStep
    <2>2. CASE op[t].then # "retry"
      <3>1. op' = [op EXCEPT ![t] = NoOp] /\ pc' = [pc EXCEPT ![t] = "idle"]
        BY <2>2 DEF Finish, Goto
      <3> QED BY <3>1, IdleStep
    <2> QED BY <2>1, <2>2
  <1> QED BY <1>5, <1>6

LEMMA TypeInit == Init => TypeOK
  BY MonitorAssumption
     DEF Init, TypeOK, StateOK, TagsOK, OpsOK, Tags, NoTag, NoOp, NewOp, Pcs, KindFits

\* Every action preserves the type invariant.
LEMMA TypeStep ==
    ASSUME TypeOK, [Next]_vars
    PROVE  TypeOK'
  <1> USE DEF TypeOK
  <1>1. ASSUME NEW t \in Threads, Instruction(t) PROVE TypeOK'
    <2>1. PICK native \in BOOLEAN, a \in Accesses :
             \/ Issue(t, "ldxr", native, a, <<>>)
             \/ \E kind \in {"stxr", "stlr"}, v \in [a -> Values] : Issue(t, kind, native, a, v)
      BY <1>1 DEF Instruction
    <2>2. ASSUME NEW kind \in Kinds, NEW v \in Loaded \cup {<<>>}, Issue(t, kind, native, a, v),
                 kind # "ldxr" => v \in [a -> Values]
          PROVE  TypeOK'
      <3> DEFINE o == NewOp(kind, native, a, v)
                 p == FirstStep(kind, native)
      <3>1. o \in Ops /\ o.kind = kind /\ o.acc = a /\ o.val = v /\ p \in Pcs /\ KindFits(kind, p)
        BY DEF NewOp, Ops, Kinds, FirstStep, Pcs, KindFits
      <3>2. op' = [op EXCEPT ![t] = o] /\ pc' = [pc EXCEPT ![t] = p] /\ UNCHANGED <<mem, word, tag, alive, passed>>
        BY <2>2 DEF Issue, Goto
      <3> HIDE DEF o, p
      <3>3. OpsOK'
        BY <2>2, <3>1, <3>2, OpsStep
      <3> QED BY <3>2, <3>3 DEF StateOK, TagsOK
    <2> QED BY <2>1, <2>2, LoadedFacts DEF Kinds
  <1>2. ASSUME NEW t \in Threads, LdxrVersion(t) PROVE TypeOK'
    <2> DEFINE ver == version_of(word[BucketOfOp(t)])
               o == IF op[t].native THEN op[t] ELSE [op[t] EXCEPT !.tmp = ver]
    <2>1. op[t] \in Ops /\ ver \in Nat
      BY <1>2, AtType, WordFacts DEF LdxrVersion, Goto
    <2>2. o \in Ops /\ o.kind = op[t].kind /\ o.acc = op[t].acc /\ o.val = op[t].val
      BY <2>1 DEF Ops
    <2>3. op' = [op EXCEPT ![t] = o] /\ pc' = [pc EXCEPT ![t] = "value"]
      BY <1>2 DEF LdxrVersion, Goto, OpsOK
    <2>4. TagsOK'
      <3> DEFINE g == [tag[t] EXCEPT !.ver = ver]
      <3>1. g \in Tags /\ g.valid = tag[t].valid /\ g.acc = tag[t].acc /\ g.value = tag[t].value
        BY <2>1 DEF TagsOK, Tags
      <3>2. tag' = tag \/ tag' = [tag EXCEPT ![t] = g]
        BY <1>2 DEF LdxrVersion
      <3>3. passed' = passed
        BY <1>2 DEF LdxrVersion
      <3> HIDE DEF g
      <3> QED BY <3>1, <3>2, <3>3 DEF TagsOK
    <2> HIDE DEF ver, o
    <2>5. OpsOK'
      <3>1. KindFits(o.kind, "value") /\ (o.kind \in {"stxr", "stlr"} => o.val \in [o.acc -> Values])
        BY <1>2, <2>2 DEF OpsOK, KindFits, LdxrVersion, Goto
      <3> QED BY <2>2, <2>3, <3>1, OpsStep DEF Pcs
    <2> QED BY <1>2, <2>4, <2>5 DEF LdxrVersion, StateOK
  <1>3. ASSUME NEW t \in Threads, LdxrValue(t) PROVE TypeOK'
    <2>1. op[t] \in Ops /\ op[t].acc \in Accesses
      BY <1>3, AtType DEF LdxrValue, Goto
    <2>2. MemRead(op[t].acc) \in [op[t].acc -> Values] /\ MemRead(op[t].acc) \in Loaded
      BY <2>1, MemReadType, LoadedFacts
    <2>3. TagsOK'
      BY <1>3, <2>1, <2>2 DEF LdxrValue, excl_mark, TagsOK, Tags, Ops
    <2>4. OpsOK'
      BY <1>3, IdleStep DEF LdxrValue, Done, Goto
    <2> QED BY <1>3, <2>3, <2>4 DEF LdxrValue, StateOK
  <1>4. ASSUME NEW t \in Threads, LdxrFault(t) PROVE TypeOK'
    <2>1. CASE op[t].native
      <3> DEFINE o == [op[t] EXCEPT !.native = FALSE]
      <3>1. op[t] \in Ops
        BY <1>4, <2>1, AtType DEF LdxrFault, Goto
      <3>2. o \in Ops /\ o.kind = op[t].kind /\ o.acc = op[t].acc /\ o.val = op[t].val
        BY <3>1 DEF Ops
      <3>3. op' = [op EXCEPT ![t] = o] /\ pc' = [pc EXCEPT ![t] = "version"]
        BY <1>4, <2>1 DEF LdxrFault, Goto
      <3> HIDE DEF o
      <3>4. OpsOK'
        BY <1>4, <2>1, <3>2, <3>3, OpsStep DEF OpsOK, Pcs, KindFits, LdxrFault, Goto
      <3> QED BY <1>4, <2>1, <3>4 DEF LdxrFault, StateOK, TagsOK
    <2>2. CASE ~op[t].native
      <3>1. TagsOK'
        BY <1>4, <2>2, ClearStep DEF LdxrFault
      <3>2. OpsOK'
        BY <1>4, <2>2, IdleStep DEF LdxrFault, Done, Goto
      <3> QED BY <1>4, <2>2, <3>1, <3>2 DEF LdxrFault, StateOK
    <2> QED BY <2>1, <2>2
  <1>5. ASSUME NEW t \in Threads, StxrTag(t) PROVE TypeOK'
    <2>1. CASE excl_check(t, op[t].acc)
      BY <1>5, <2>1 DEF StxrTag, Goto, StateOK, TagsOK, OpsOK, Pcs, KindFits
    <2>2. CASE ~excl_check(t, op[t].acc)
      <3>1. TagsOK'
        BY <1>5, <2>2, ClearStep DEF StxrTag
      <3>2. OpsOK'
        BY <1>5, <2>2, IdleStep DEF StxrTag, Done, Goto
      <3> QED BY <1>5, <2>2, <3>1, <3>2 DEF StxrTag, StateOK
    <2> QED BY <2>1, <2>2
  <1>6. ASSUME NEW t \in Threads, Lock(t) PROVE TypeOK'
    <2>1. word[BucketOfOp(t)] \in Nat /\ BucketOfOp(t) \in Buckets
      BY <1>6, AtType DEF Lock, Goto
    <2> QED BY <1>6, <2>1 DEF Lock, Goto, StateOK, TagsOK, OpsOK, Pcs, KindFits
  <1>7. ASSUME NEW t \in Threads, StxrCheck(t) PROVE TypeOK'
    BY <1>7 DEF StxrCheck, Goto, StateOK, TagsOK, OpsOK, Pcs, KindFits
  <1>8. ASSUME NEW t \in Threads, Write(t) PROVE TypeOK'
    <2> DEFINE ok == op[t].kind = "stxr" => MemRead(op[t].acc) = tag[t].value
               o == [op[t] EXCEPT !.bump = ok]
    <2>1. op[t] \in Ops /\ op[t].kind \in Kinds
      BY <1>8, AtType DEF Write, Goto, Ops
    <2>2. o \in Ops /\ o.kind = op[t].kind /\ o.acc = op[t].acc /\ o.val = op[t].val
      BY <2>1 DEF Ops
    <2>3. op' = [op EXCEPT ![t] = o] /\ pc' = [pc EXCEPT ![t] = "unlock"]
      BY <1>8 DEF Write, Goto
    <2>4. op[t].val \in [op[t].acc -> Values]
      BY <1>8, <2>1 DEF Write, Goto, OpsOK, KindFits, Kinds
    <2>5. mem' \in [Cells -> Values]
      BY <1>8, <2>4 DEF Write, MemWrite, StateOK
    <2> HIDE DEF ok, o
    <2>6. OpsOK'
      <3>1. KindFits(o.kind, "unlock") /\ (o.kind \in {"stxr", "stlr"} => o.val \in [o.acc -> Values])
        BY <1>8, <2>2 DEF OpsOK, KindFits, Write, Goto
      <3> QED BY <2>2, <2>3, <3>1, OpsStep DEF Pcs
    <2> QED BY <1>8, <2>5, <2>6 DEF Write, StateOK, TagsOK
  <1>9. ASSUME NEW t \in Threads, WriteFault(t) PROVE TypeOK'
    <2> DEFINE o == [op[t] EXCEPT !.then = IF op[t].native THEN "retry" ELSE "signal"]
    <2>1. op[t] \in Ops
      BY <1>9, AtType DEF WriteFault, Goto
    <2>2. o \in Ops /\ o.kind = op[t].kind /\ o.acc = op[t].acc /\ o.val = op[t].val
      BY <2>1 DEF Ops
    <2>3. op' = [op EXCEPT ![t] = o] /\ pc' = [pc EXCEPT ![t] = "unlock"]
      BY <1>9 DEF WriteFault, Goto
    <2> HIDE DEF o
    <2>4. OpsOK'
      <3>1. KindFits(o.kind, "unlock") /\ (o.kind \in {"stxr", "stlr"} => o.val \in [o.acc -> Values])
        BY <1>9, <2>2 DEF OpsOK, KindFits, WriteFault, Goto
      <3> QED BY <2>2, <2>3, <3>1, OpsStep DEF Pcs
    <2> QED BY <1>9, <2>4 DEF WriteFault, StateOK, TagsOK
  <1>10. ASSUME NEW t \in Threads, Unlock(t) PROVE TypeOK'
    <2>1. word[BucketOfOp(t)] \in Nat /\ op[t] \in Ops
      BY <1>10, AtType DEF Unlock, Finish, Goto
    <2>2. word' \in [Buckets -> Nat]
      <3>1. Unlocked(word[BucketOfOp(t)], op[t].bump) \in Nat
        BY <2>1, WordFacts DEF Unlocked
      <3> QED BY <1>10, <3>1 DEF Unlock, StateOK
    <2>3. TagsOK' /\ OpsOK'
      BY <1>10, FinishStep DEF Unlock, Pcs
    <2> QED BY <1>10, <2>2, <2>3 DEF Unlock, Finish, StateOK
  <1>11. ASSUME NEW t \in Threads, UnlockRead(t) PROVE TypeOK'
    <2> DEFINE o == [op[t] EXCEPT !.tmp = word[BucketOfOp(t)]]
    <2>1. op[t] \in Ops /\ word[BucketOfOp(t)] \in Nat
      BY <1>11, AtType DEF UnlockRead, Goto
    <2>2. o \in Ops /\ o.kind = op[t].kind /\ o.acc = op[t].acc /\ o.val = op[t].val
      BY <2>1 DEF Ops
    <2>3. op' = [op EXCEPT ![t] = o] /\ pc' = [pc EXCEPT ![t] = "writeback"]
      BY <1>11 DEF UnlockRead, Goto
    <2> HIDE DEF o
    <2>4. OpsOK'
      <3>1. KindFits(o.kind, "writeback") /\ (o.kind \in {"stxr", "stlr"} => o.val \in [o.acc -> Values])
        BY <1>11, <2>2 DEF OpsOK, KindFits, UnlockRead, Goto
      <3> QED BY <2>2, <2>3, <3>1, OpsStep DEF Pcs
    <2> QED BY <1>11, <2>4 DEF UnlockRead, StateOK, TagsOK
  <1>12. ASSUME NEW t \in Threads, UnlockWrite(t) PROVE TypeOK'
    <2>1. op[t] \in Ops /\ op[t].tmp \in Nat
      BY <1>12, AtType DEF UnlockWrite, Finish, Goto, Ops
    <2>2. word' \in [Buckets -> Nat]
      <3>1. Unlocked(op[t].tmp, op[t].bump) \in Nat
        BY <2>1, WordFacts DEF Unlocked
      <3> QED BY <1>12, <3>1 DEF UnlockWrite, StateOK
    <2>3. TagsOK' /\ OpsOK'
      BY <1>12, FinishStep DEF UnlockWrite, Pcs
    <2> QED BY <1>12, <2>2, <2>3 DEF UnlockWrite, Finish, StateOK
  <1>13. ASSUME NEW t \in Threads, NEW c \in Cells, NEW v \in Values, Store(t, c, v) PROVE TypeOK'
    BY <1>13 DEF Store, StateOK, TagsOK, OpsOK
  <1>14. ASSUME NEW t \in Threads, Clear(t) PROVE TypeOK'
    BY <1>14, ClearStep DEF Clear, StateOK, OpsOK
  <1>15. ASSUME NEW t \in Threads, Fork(t) PROVE TypeOK'
    BY <1>15, WordFacts, NoTagType, NoOpType DEF Fork, OnlyCaller, StateOK, TagsOK, OpsOK, Pcs, KindFits
  <1>16. ASSUME NEW t \in Threads, NEW u \in Threads, Spawn(t, u) PROVE TypeOK'
    BY <1>16, ClearStep DEF Spawn, StateOK, OpsOK
  <1>17. CASE UNCHANGED vars
    BY <1>17 DEF vars, StateOK, TagsOK, OpsOK
  <1> QED
    BY <1>1, <1>2, <1>3, <1>4, <1>5, <1>6, <1>7, <1>8, <1>9, <1>10, <1>11, <1>12,
       <1>13, <1>14, <1>15, <1>16, <1>17 DEF Next, Holding

\* The type invariant holds in every reachable state.
THEOREM TypeCorrect == Spec => []TypeOK
  BY TypeInit, TypeStep, PTL DEF Spec

-----------------------------------------------------------------------------
(* The monitor's inductive invariant.                                      *)

\* A step of another thread: u's own state is as it was, versions have only
\* grown, no word u holds has changed, and every store that has completed
\* since has moved its bucket's version.
LEMMA OthersKeep ==
    ASSUME TypeOK, TypeOK', NEW u \in Threads, ThreadInv(u),
           pc'[u] = pc[u], op'[u] = op[u], tag'[u] = tag[u],
           \A b \in Buckets : version_of(word'[b]) >= version_of(word[b]),
           pc[u] \in {"held", "write", "unlock", "writeback"} => word'[BucketOfOp(u)] = word[BucketOfOp(u)],
           \A a \in passed'[u] :
              a \in passed[u] \/ version_of(word'[BucketOf[a]]) > version_of(word[BucketOf[a]])
    PROVE  ThreadInv(u)'
  <1>1. \A b \in Buckets : version_of(word[b]) \in Nat /\ version_of(word'[b]) \in Nat
    BY WordFacts DEF TypeOK, StateOK
  <1>2. tag[u].ver \in Nat /\ op[u].tmp \in Nat
    BY DEF TypeOK, TagsOK, OpsOK, Tags, Ops, NoOp, NewOp
  <1>3. BucketOfOp(u)' = BucketOfOp(u)
    BY DEF BucketOfOp
  <1>4. Fresh(u)' /\ Decided(u)'
    BY <1>3 DEF ThreadInv, Fresh, Decided
  <1>5. Checked(u)'
    BY <1>3 DEF ThreadInv, Checked, excl_check
  <1>6. ReadVersion(u)'
    <2>1. ASSUME pc[u] = "value" PROVE BucketOfOp(u) \in Buckets
      BY <2>1, AtType
    <2> QED BY <1>1, <1>2, <1>3, <2>1 DEF ThreadInv, ReadVersion
  <1>7. Current(u)'
    <2> SUFFICES ASSUME tag[u].valid, op[u].kind # "ldxr"
                 PROVE  /\ tag[u].ver <= version_of(word'[BucketOf[tag[u].acc]])
                        /\ \A a \in passed'[u] : BucketOf[a] = BucketOf[tag[u].acc] =>
                              tag[u].ver < version_of(word'[BucketOf[tag[u].acc]])
      BY DEF Current
    <2>1. BucketOf[tag[u].acc] \in Buckets
      BY MonitorAssumption DEF TypeOK, TagsOK
    <2>2. /\ tag[u].ver <= version_of(word[BucketOf[tag[u].acc]])
          /\ \A a \in passed[u] : BucketOf[a] = BucketOf[tag[u].acc] =>
                tag[u].ver < version_of(word[BucketOf[tag[u].acc]])
      BY DEF ThreadInv, Current
    <2> QED BY <1>1, <1>2, <2>1, <2>2
  <1> QED BY <1>4, <1>5, <1>6, <1>7 DEF ThreadInv

\* A step that leaves the words alone and moves no thread into or out of a bucket.
LEMMA HoldersKeep ==
    ASSUME OneHolder, word' = word, \A u \in Threads, b \in Buckets : Holds(u, b)' <=> Holds(u, b)
    PROVE  OneHolder'
  BY DEF OneHolder

LEMMA InvInit == Init => MonitorInv
  <1> SUFFICES ASSUME Init PROVE MonitorInv
    OBVIOUS
  <1>1. TypeOK
    BY TypeInit
  <1>2. \A b \in Buckets : ~Locked(word[b])
    BY DEF Init, Locked
  <1>3. \A t \in Threads : pc[t] = "idle" /\ ~op[t].bump /\ op[t].kind = "none" /\ ~tag[t].valid
    BY DEF Init, NoOp, NewOp, NoTag
  <1>4. OneHolder
    BY <1>2, <1>3 DEF OneHolder, Holds
  <1>5. \A t \in Threads : ThreadInv(t)
    BY <1>3 DEF ThreadInv, Fresh, Decided, Checked, ReadVersion, Current
  <1> QED BY <1>1, <1>4, <1>5 DEF MonitorInv

\* Steps outside the buckets: no word changes, t is not inside one before or
\* after, nobody else is touched.
LEMMA OutsideStep ==
    ASSUME MonitorInv, TypeOK', NEW t \in Threads, word' = word,
           \A u \in Threads \ {t} : pc'[u] = pc[u] /\ op'[u] = op[u] /\ tag'[u] = tag[u] /\ passed'[u] = passed[u],
           pc[t] \notin {"held", "write", "unlock", "writeback"},
           pc'[t] \notin {"held", "write", "unlock", "writeback"},
           ThreadInv(t)'
    PROVE  MonitorInv'
  <1>1. OneHolder'
    <2>1. \A u \in Threads, b \in Buckets : Holds(u, b)' <=> Holds(u, b)
      BY DEF Holds, BucketOfOp
    <2> QED BY <2>1, HoldersKeep DEF MonitorInv
  <1>2. ASSUME NEW u \in Threads \ {t} PROVE ThreadInv(u)'
    <2>1. \A b \in Buckets : version_of(word'[b]) >= version_of(word[b])
      BY WordFacts DEF MonitorInv, TypeOK, StateOK
    <2> QED BY <1>2, <2>1, OthersKeep DEF MonitorInv
  <1> QED BY <1>1, <1>2 DEF MonitorInv

\* Steps inside a bucket that keep it: no word changes, t stays inside, and
\* only its own program counter and instruction record move.
LEMMA InsideStep ==
    ASSUME MonitorInv, TypeOK', NEW t \in Threads, word' = word, tag' = tag, passed' = passed,
           \A u \in Threads \ {t} : pc'[u] = pc[u] /\ op'[u] = op[u],
           pc[t] \in {"held", "write", "unlock", "writeback"},
           pc'[t] \in {"held", "write", "unlock", "writeback"},
           op'[t].acc = op[t].acc,
           ThreadInv(t)'
    PROVE  MonitorInv'
  <1>1. OneHolder'
    <2>1. \A u \in Threads, b \in Buckets : Holds(u, b)' <=> Holds(u, b)
      BY DEF Holds, BucketOfOp
    <2> QED BY <2>1, HoldersKeep DEF MonitorInv
  <1>2. ASSUME NEW u \in Threads \ {t} PROVE ThreadInv(u)'
    <2>1. \A b \in Buckets : version_of(word'[b]) >= version_of(word[b])
      BY WordFacts DEF MonitorInv, TypeOK, StateOK
    <2> QED BY <1>2, <2>1, OthersKeep DEF MonitorInv
  <1> QED BY <1>1, <1>2 DEF MonitorInv

\* Leaving a bucket: whatever was read of the word is still there, so the word
\* written is an unlocked one with a version no older, newer after a store.
LEMMA LeaveStep ==
    ASSUME MonitorInv, TypeOK', NEW t \in Threads, NEW from \in {"unlock", "writeback"}, Finish(t, from),
           word' = [word EXCEPT ![BucketOfOp(t)] = Unlocked(word[BucketOfOp(t)], op[t].bump)]
    PROVE  /\ MonitorInv'
           /\ \A b \in Buckets : version_of(word'[b]) >= version_of(word[b])
  <1> DEFINE bk == BucketOfOp(t)
  <1>1. /\ op[t] \in Ops /\ op[t].acc \in Accesses /\ op[t].bump \in BOOLEAN
        /\ bk \in Buckets /\ word[bk] \in Nat /\ pc[t] = from
    BY AtType DEF MonitorInv, Finish, Goto, Ops
  <1>2. Holds(t, bk) /\ Locked(word[bk])
    BY <1>1 DEF MonitorInv, OneHolder, Holds
  <1>3. \A u \in Threads \ {t} : ~Holds(u, bk)
    BY <1>1, <1>2 DEF MonitorInv, OneHolder
  <1>4. /\ ~Locked(word'[bk])
        /\ version_of(word'[bk]) >= version_of(word[bk])
        /\ op[t].bump => version_of(word'[bk]) > version_of(word[bk])
    BY <1>1, <1>2, UnlockedFacts DEF MonitorInv, TypeOK, StateOK
  <1>5. \A b \in Buckets \ {bk} : word'[b] = word[b]
    BY DEF MonitorInv, TypeOK, StateOK
  <1>6. \A b \in Buckets : version_of(word[b]) \in Nat /\ version_of(word'[b]) \in Nat
    BY WordFacts DEF MonitorInv, TypeOK, StateOK
  <1>7. \A b \in Buckets : version_of(word'[b]) >= version_of(word[b])
    BY <1>4, <1>5, <1>6
  <1>8. \A u \in Threads \ {t} : pc'[u] = pc[u] /\ op'[u] = op[u] /\ tag'[u] = tag[u]
    BY DEF Finish, Goto, MonitorInv, TypeOK, OpsOK, TagsOK
  <1>9. \A u \in Threads : \A a \in passed'[u] :
           /\ tag'[u].valid
           /\ a \in Accesses
           /\ a \in passed[u] \/ version_of(word'[BucketOf[a]]) > version_of(word[BucketOf[a]])
    <2>1. \A u \in Threads : \A a \in passed'[u] :
             tag'[u].valid /\ a \in Accesses /\ (a \in passed[u] \/ (a = op[t].acc /\ op[t].bump))
      BY <1>1 DEF Finish, Completes, MonitorInv, TypeOK, TagsOK
    <2> QED BY <1>4, <2>1 DEF BucketOfOp
  <1>10. pc'[t] \in {"lock", "idle"} /\ (tag'[t] = tag[t] \/ ~tag'[t].valid)
    BY NoTagType DEF Finish, Goto, MonitorInv, TypeOK, OpsOK, TagsOK
  <1> HIDE DEF bk
  <1>11. OneHolder'
    <2>1. \A u \in Threads \ {t}, b \in Buckets : Holds(u, b)' <=> Holds(u, b)
      BY <1>8 DEF Holds, BucketOfOp
    <2>2. \A b \in Buckets : ~Holds(t, b)'
      BY <1>10 DEF Holds
    <2>3. \A b \in Buckets \ {bk} : ~Holds(t, b)
      BY DEF Holds, bk
    <2> QED BY <1>3, <1>4, <1>5, <2>1, <2>2, <2>3 DEF MonitorInv, OneHolder
  <1>12. ASSUME NEW u \in Threads \ {t} PROVE ThreadInv(u)'
    <2>1. pc[u] \in {"held", "write", "unlock", "writeback"} => word'[BucketOfOp(u)] = word[BucketOfOp(u)]
      <3> SUFFICES ASSUME pc[u] \in {"held", "write", "unlock", "writeback"}
                   PROVE  word'[BucketOfOp(u)] = word[BucketOfOp(u)]
        OBVIOUS
      <3>1. BucketOfOp(u) \in Buckets
        BY AtType DEF MonitorInv
      <3> QED BY <1>3, <1>5, <3>1 DEF Holds
    <2> QED BY <1>7, <1>8, <1>9, <1>12, <2>1, OthersKeep DEF MonitorInv
  <1>13. ThreadInv(t)'
    <2>1. op'[t].bump = FALSE /\ (op'[t].kind = op[t].kind \/ op'[t].kind = "none")
      BY DEF Finish, NoOp, NewOp, MonitorInv, TypeOK, OpsOK
    <2>2. op[t].kind \in {"stxr", "stlr"} /\ op'[t].kind # "ldxr"
      BY <1>1, <2>1 DEF MonitorInv, TypeOK, OpsOK, KindFits, Ops, Kinds
    <2>3. op'[t].native = FALSE
      BY DEF Finish, NoOp, NewOp, MonitorInv, TypeOK, OpsOK
    <2>4. Fresh(t)' /\ Decided(t)' /\ Checked(t)' /\ ReadVersion(t)'
      BY <1>10, <2>1, <2>3 DEF Fresh, Decided, Checked, ReadVersion
    <2>5. Current(t)'
      <3> SUFFICES ASSUME tag'[t].valid
                   PROVE  /\ tag'[t].ver <= version_of(word'[BucketOf[tag'[t].acc]])
                          /\ \A a \in passed'[t] : BucketOf[a] = BucketOf[tag'[t].acc] =>
                                tag'[t].ver < version_of(word'[BucketOf[tag'[t].acc]])
        BY DEF Current
      <3>1. tag'[t] = tag[t]
        BY <1>10
      <3>2. BucketOf[tag[t].acc] \in Buckets /\ tag[t].ver \in Nat
        BY <3>1, MonitorAssumption DEF MonitorInv, TypeOK, TagsOK, Tags
      <3>3. /\ tag[t].ver <= version_of(word[BucketOf[tag[t].acc]])
            /\ \A a \in passed[t] : BucketOf[a] = BucketOf[tag[t].acc] =>
                  tag[t].ver < version_of(word[BucketOf[tag[t].acc]])
        BY <2>2, <3>1 DEF MonitorInv, ThreadInv, Current
      <3> QED BY <1>6, <1>7, <1>9, <3>1, <3>2, <3>3
    <2> QED BY <2>4, <2>5 DEF ThreadInv
  <1> QED BY <1>7, <1>11, <1>12, <1>13 DEF MonitorInv

LEMMA PresentStep ==
    ASSUME TypeOK, Present, [Next]_vars
    PROVE  Present'
  <1>1. ASSUME NEW t \in Threads, t \in alive, NEW p, pc' = [pc EXCEPT ![t] = p], alive' = alive PROVE Present'
    BY <1>1 DEF Present, TypeOK, OpsOK
  <1>2. ASSUME alive \subseteq alive', pc' = pc PROVE Present'
    BY <1>2 DEF Present
  <1>3. ASSUME NEW t \in Threads, Instruction(t) PROVE Present'
    <2>1. PICK kind, native, a, v : a \in Accesses /\ Issue(t, kind, native, a, v)
      BY <1>3 DEF Instruction
    <2> QED BY <1>1, <2>1 DEF Issue, Goto
  <1>4. ASSUME NEW t \in Threads, LdxrVersion(t) \/ LdxrValue(t) \/ LdxrFault(t) \/ StxrTag(t) \/ Lock(t)
        PROVE  Present'
    BY <1>1, <1>4 DEF LdxrVersion, LdxrValue, LdxrFault, StxrTag, Lock, Goto
  <1>5. ASSUME NEW t \in Threads, Holding(t) PROVE Present'
    BY <1>1, <1>5 DEF Holding, StxrCheck, Write, WriteFault, Unlock, UnlockRead, UnlockWrite,
         Finish, Goto
  <1>6. ASSUME NEW t \in Threads, Fork(t) PROVE Present'
    BY <1>6 DEF Fork, OnlyCaller, Present
  <1>7. ASSUME NEW t \in Threads, Clear(t) \/ (\E c \in Cells, v \in Values : Store(t, c, v))
                                  \/ (\E u \in Threads : Spawn(t, u))
        PROVE  Present'
    BY <1>2, <1>7 DEF Clear, Store, Spawn
  <1>8. CASE UNCHANGED vars
    BY <1>2, <1>8 DEF vars
  <1> QED BY <1>3, <1>4, <1>5, <1>6, <1>7, <1>8 DEF Next

\* Every action preserves the invariant, and no version goes back.
LEMMA InvStep ==
    ASSUME MonitorInv, Present, TypeOK', [Next]_vars
    PROVE  /\ MonitorInv'
           /\ \A b \in Buckets : version_of(word'[b]) >= version_of(word[b])
  <1> DEFINE Grow == \A b \in Buckets : version_of(word'[b]) >= version_of(word[b])
  <1>0. word' = word => Grow
    BY WordFacts DEF MonitorInv, TypeOK, StateOK
  <1> USE DEF MonitorInv, TypeOK
  <1>1. ASSUME NEW t \in Threads, Instruction(t) PROVE MonitorInv' /\ Grow
    <2>1. PICK kind, native, a, v : a \in Accesses /\ Issue(t, kind, native, a, v)
      BY <1>1 DEF Instruction
    <2>2. /\ word' = word /\ tag' = tag /\ passed' = passed /\ pc[t] = "idle"
          /\ \A u \in Threads \ {t} : pc'[u] = pc[u] /\ op'[u] = op[u]
          /\ pc'[t] \in {"version", "tag", "lock"}
          /\ pc'[t] = "lock" /\ kind = "stxr" => ~native
          /\ op'[t].kind = kind /\ op'[t].native = native /\ ~op'[t].bump
      BY <2>1 DEF Issue, Goto, NewOp, FirstStep, OpsOK
    <2>3. op[t].kind = "none"
      BY <2>2 DEF OpsOK, KindFits
    <2>4. ThreadInv(t)'
      BY <2>2, <2>3 DEF ThreadInv, Fresh, Decided, Checked, ReadVersion, Current
    <2> QED BY <1>0, <2>2, <2>4, OutsideStep
  <1>2. ASSUME NEW t \in Threads, LdxrVersion(t) PROVE MonitorInv' /\ Grow
    <2>1. op[t] \in Ops /\ BucketOfOp(t) \in Buckets /\ word[BucketOfOp(t)] \in Nat
      BY <1>2, AtType DEF LdxrVersion, Goto
    <2>2. /\ word' = word /\ passed' = passed /\ pc[t] = "version" /\ pc'[t] = "value"
          /\ \A u \in Threads \ {t} : pc'[u] = pc[u] /\ op'[u] = op[u] /\ tag'[u] = tag[u]
      BY <1>2 DEF LdxrVersion, Goto, OpsOK, TagsOK
    <2>3. /\ op'[t].acc = op[t].acc /\ op'[t].kind = op[t].kind /\ op'[t].bump = op[t].bump
          /\ op'[t].native = op[t].native
          /\ (IF op'[t].native THEN tag'[t].ver ELSE op'[t].tmp) = version_of(word[BucketOfOp(t)])
      BY <1>2, <2>1 DEF LdxrVersion, OpsOK, TagsOK, Tags, Ops
    <2>4. op[t].kind = "ldxr"
      BY <2>2 DEF OpsOK, KindFits
    <2>5. version_of(word[BucketOfOp(t)]) \in Nat
      BY <2>1, WordFacts
    <2>6. ThreadInv(t)'
      BY <2>2, <2>3, <2>4, <2>5 DEF ThreadInv, Fresh, Decided, Checked, ReadVersion, Current, BucketOfOp
    <2> QED BY <1>0, <2>2, <2>6, OutsideStep
  <1>3. ASSUME NEW t \in Threads, LdxrValue(t) PROVE MonitorInv' /\ Grow
    <2>1. /\ word' = word /\ pc[t] = "value" /\ pc'[t] = "idle" /\ passed'[t] = {}
          /\ \A u \in Threads \ {t} : pc'[u] = pc[u] /\ op'[u] = op[u] /\ tag'[u] = tag[u] /\ passed'[u] = passed[u]
          /\ op'[t].kind = "none" /\ ~op'[t].bump
          /\ tag'[t].acc = op[t].acc
          /\ tag'[t].ver = IF op[t].native THEN tag[t].ver ELSE op[t].tmp
      BY <1>3 DEF LdxrValue, Goto, excl_mark, Done, NoOp, NewOp, OpsOK, TagsOK
    <2>2. tag'[t].ver <= version_of(word[BucketOf[op[t].acc]])
      BY <2>1 DEF ThreadInv, ReadVersion, BucketOfOp
    <2>3. ThreadInv(t)'
      BY <2>1, <2>2 DEF ThreadInv, Fresh, Decided, Checked, ReadVersion, Current
    <2> QED BY <1>0, <2>1, <2>3, OutsideStep
  <1>4. ASSUME NEW t \in Threads, LdxrFault(t) PROVE MonitorInv' /\ Grow
    <2>1. CASE op[t].native
      <3>1. op[t] \in Ops
        BY <1>4, <2>1, AtType DEF LdxrFault, Goto
      <3>2. /\ word' = word /\ tag' = tag /\ passed' = passed /\ pc[t] = "value" /\ pc'[t] = "version"
            /\ \A u \in Threads \ {t} : pc'[u] = pc[u] /\ op'[u] = op[u]
            /\ op'[t].kind = op[t].kind /\ op'[t].bump = op[t].bump
        BY <1>4, <2>1, <3>1 DEF LdxrFault, Goto, OpsOK, Ops
      <3>3. op[t].kind = "ldxr"
        BY <3>2 DEF OpsOK, KindFits
      <3>4. ThreadInv(t)'
        BY <3>2, <3>3 DEF ThreadInv, Fresh, Decided, Checked, ReadVersion, Current
      <3> QED BY <1>0, <3>2, <3>4, OutsideStep
    <2>2. CASE ~op[t].native
      <3>1. /\ word' = word /\ pc[t] = "value" /\ pc'[t] = "idle"
            /\ \A u \in Threads \ {t} : pc'[u] = pc[u] /\ op'[u] = op[u] /\ tag'[u] = tag[u] /\ passed'[u] = passed[u]
            /\ op'[t].kind = "none" /\ ~op'[t].bump /\ ~tag'[t].valid
        BY <1>4, <2>2, NoTagType DEF LdxrFault, Goto, excl_clear, Done, NoOp, NewOp, OpsOK, TagsOK
      <3>2. ThreadInv(t)'
        BY <3>1 DEF ThreadInv, Fresh, Decided, Checked, ReadVersion, Current
      <3> QED BY <1>0, <3>1, <3>2, OutsideStep
    <2> QED BY <2>1, <2>2
  <1>5. ASSUME NEW t \in Threads, StxrTag(t) PROVE MonitorInv' /\ Grow
    <2>1. CASE excl_check(t, op[t].acc)
      <3>1. /\ word' = word /\ tag' = tag /\ passed' = passed /\ pc[t] = "tag" /\ pc'[t] = "lock" /\ op' = op
            /\ \A u \in Threads \ {t} : pc'[u] = pc[u]
        BY <1>5, <2>1 DEF StxrTag, Goto, OpsOK
      <3>2. ThreadInv(t)'
        BY <2>1, <3>1 DEF ThreadInv, Fresh, Decided, Checked, ReadVersion, Current, excl_check
      <3> QED BY <1>0, <3>1, <3>2, OutsideStep
    <2>2. CASE ~excl_check(t, op[t].acc)
      <3>1. /\ word' = word /\ pc[t] = "tag" /\ pc'[t] = "idle"
            /\ \A u \in Threads \ {t} : pc'[u] = pc[u] /\ op'[u] = op[u] /\ tag'[u] = tag[u] /\ passed'[u] = passed[u]
            /\ op'[t].kind = "none" /\ ~op'[t].bump /\ ~tag'[t].valid
        BY <1>5, <2>2, NoTagType DEF StxrTag, Goto, excl_clear, Done, NoOp, NewOp, OpsOK, TagsOK
      <3>2. ThreadInv(t)'
        BY <3>1 DEF ThreadInv, Fresh, Decided, Checked, ReadVersion, Current
      <3> QED BY <1>0, <3>1, <3>2, OutsideStep
    <2> QED BY <2>1, <2>2
  <1>6. ASSUME NEW t \in Threads, Lock(t) PROVE MonitorInv' /\ Grow
    <2> DEFINE bk == BucketOfOp(t)
    <2>1. op[t] \in Ops /\ bk \in Buckets /\ word[bk] \in Nat /\ pc[t] = "lock" /\ ~Locked(word[bk])
      BY <1>6, AtType DEF Lock, Goto
    <2>2. /\ tag' = tag /\ passed' = passed /\ op' = op
          /\ \A u \in Threads \ {t} : pc'[u] = pc[u]
          /\ pc'[t] = IF op[t].kind = "stxr" THEN "held" ELSE "write"
          /\ word'[bk] = word[bk] + 1
          /\ \A b \in Buckets \ {bk} : word'[b] = word[b]
      BY <1>6, <2>1 DEF Lock, Goto, OpsOK, StateOK
    <2>3. Locked(word'[bk]) /\ version_of(word'[bk]) = version_of(word[bk])
      BY <2>1, <2>2, WordFacts
    <2>4. \A b \in Buckets : version_of(word'[b]) = version_of(word[b]) /\ version_of(word[b]) \in Nat
      BY <2>2, <2>3, WordFacts DEF StateOK
    <2>5. \A u \in Threads : ~Holds(u, bk)
      BY <2>1 DEF OneHolder
    <2> HIDE DEF bk
    <2>6. OneHolder'
      <3>1. \A u \in Threads \ {t}, b \in Buckets : Holds(u, b)' <=> Holds(u, b)
        BY <2>2 DEF Holds, BucketOfOp
      <3>2. \A b \in Buckets : Holds(t, b)' <=> b = bk
        BY <2>2 DEF Holds, BucketOfOp, bk
      <3>3. \A b \in Buckets : ~Holds(t, b)
        BY <2>1 DEF Holds
      <3> QED BY <2>2, <2>3, <2>5, <3>1, <3>2, <3>3 DEF OneHolder
    <2>7. ASSUME NEW u \in Threads \ {t} PROVE ThreadInv(u)'
      <3>1. pc[u] \in {"held", "write", "unlock", "writeback"} => word'[BucketOfOp(u)] = word[BucketOfOp(u)]
        <4> SUFFICES ASSUME pc[u] \in {"held", "write", "unlock", "writeback"}
                     PROVE  word'[BucketOfOp(u)] = word[BucketOfOp(u)]
          OBVIOUS
        <4>1. BucketOfOp(u) \in Buckets
          BY AtType
        <4> QED BY <2>2, <2>5, <4>1 DEF Holds
      <3> QED BY <2>2, <2>4, <2>7, <3>1, OthersKeep
    <2>8. ThreadInv(t)'
      <3>1. BucketOfOp(t)' = bk /\ op[t].kind # "ldxr"
        BY <2>1, <2>2 DEF BucketOfOp, bk, OpsOK, KindFits
      <3>2. Fresh(t)' /\ Decided(t)' /\ ReadVersion(t)'
        BY <2>1, <2>2 DEF ThreadInv, Fresh, Decided, ReadVersion
      <3>3. Checked(t)'
        BY <2>1, <2>2 DEF ThreadInv, Checked, excl_check
      <3>4. Current(t)'
        <4>1. tag[t].valid => BucketOf[tag[t].acc] \in Buckets
          BY MonitorAssumption DEF TagsOK
        <4> QED BY <2>2, <2>4, <3>1, <4>1 DEF ThreadInv, Current
      <3> QED BY <3>2, <3>3, <3>4 DEF ThreadInv
    <2> QED BY <2>4, <2>6, <2>7, <2>8
  <1>7. ASSUME NEW t \in Threads, StxrCheck(t) PROVE MonitorInv' /\ Grow
    <2>1. /\ word' = word /\ tag' = tag /\ passed' = passed /\ op' = op /\ pc[t] = "held"
          /\ \A u \in Threads \ {t} : pc'[u] = pc[u]
          /\ \/ /\ pc'[t] = "write"
                /\ op[t].native \/ excl_check(t, op[t].acc)
                /\ version_of(word[BucketOfOp(t)]) = tag[t].ver
             \/ pc'[t] = "unlock"
      BY <1>7 DEF StxrCheck, Goto, OpsOK
    <2>2. op[t].kind = "stxr"
      BY <2>1 DEF OpsOK, KindFits
    <2>3. ThreadInv(t)'
      BY <2>1, <2>2 DEF ThreadInv, Fresh, Decided, Checked, ReadVersion, Current, excl_check, BucketOfOp
    <2> QED BY <1>0, <2>1, <2>3, InsideStep
  <1>8. ASSUME NEW t \in Threads, Write(t) PROVE MonitorInv' /\ Grow
    <2>1. op[t] \in Ops
      BY <1>8, AtType DEF Write, Goto
    <2>2. /\ word' = word /\ tag' = tag /\ passed' = passed /\ pc[t] = "write" /\ pc'[t] = "unlock"
          /\ \A u \in Threads \ {t} : pc'[u] = pc[u] /\ op'[u] = op[u]
          /\ op'[t].acc = op[t].acc /\ op'[t].kind = op[t].kind
      BY <1>8, <2>1 DEF Write, Goto, OpsOK, Ops
    <2>3. ThreadInv(t)'
      BY <2>2 DEF ThreadInv, Fresh, Decided, Checked, ReadVersion, Current
    <2> QED BY <1>0, <2>2, <2>3, InsideStep
  <1>9. ASSUME NEW t \in Threads, WriteFault(t) PROVE MonitorInv' /\ Grow
    <2>1. op[t] \in Ops
      BY <1>9, AtType DEF WriteFault, Goto
    <2>2. /\ word' = word /\ tag' = tag /\ passed' = passed /\ pc[t] = "write" /\ pc'[t] = "unlock"
          /\ \A u \in Threads \ {t} : pc'[u] = pc[u] /\ op'[u] = op[u]
          /\ op'[t].acc = op[t].acc /\ op'[t].kind = op[t].kind
      BY <1>9, <2>1 DEF WriteFault, Goto, OpsOK, Ops
    <2>3. ThreadInv(t)'
      BY <2>2 DEF ThreadInv, Fresh, Decided, Checked, ReadVersion, Current
    <2> QED BY <1>0, <2>2, <2>3, InsideStep
  <1>10. ASSUME NEW t \in Threads, Unlock(t) PROVE MonitorInv' /\ Grow
    <2>1. word' = [word EXCEPT ![BucketOfOp(t)] = Unlocked(word[BucketOfOp(t)], op[t].bump)]
      BY <1>10 DEF Unlock
    <2> QED BY <1>10, <2>1, LeaveStep DEF Unlock
  <1>11. ASSUME NEW t \in Threads, UnlockRead(t) PROVE MonitorInv' /\ Grow
    <2>1. op[t] \in Ops
      BY <1>11, AtType DEF UnlockRead, Goto
    <2>2. /\ word' = word /\ tag' = tag /\ passed' = passed /\ pc[t] = "unlock" /\ pc'[t] = "writeback"
          /\ \A u \in Threads \ {t} : pc'[u] = pc[u] /\ op'[u] = op[u]
          /\ op'[t].acc = op[t].acc /\ op'[t].kind = op[t].kind /\ op'[t].tmp = word[BucketOfOp(t)]
      BY <1>11, <2>1 DEF UnlockRead, Goto, OpsOK, Ops
    <2>3. ThreadInv(t)'
      BY <2>2 DEF ThreadInv, Fresh, Decided, Checked, ReadVersion, Current, BucketOfOp
    <2> QED BY <1>0, <2>2, <2>3, InsideStep
  <1>12. ASSUME NEW t \in Threads, UnlockWrite(t) PROVE MonitorInv' /\ Grow
    <2>1. op[t].tmp = word[BucketOfOp(t)]
      BY <1>12 DEF UnlockWrite, Finish, Goto, ThreadInv, Fresh
    <2>2. word' = [word EXCEPT ![BucketOfOp(t)] = Unlocked(word[BucketOfOp(t)], op[t].bump)]
      BY <1>12, <2>1 DEF UnlockWrite
    <2> QED BY <1>12, <2>2, LeaveStep DEF UnlockWrite
  <1>13. ASSUME NEW t \in Threads, NEW c \in Cells, NEW v \in Values, Store(t, c, v) PROVE MonitorInv' /\ Grow
    <2>1. word' = word /\ tag' = tag /\ passed' = passed /\ pc' = pc /\ op' = op /\ pc[t] = "idle"
      BY <1>13 DEF Store
    <2>2. ThreadInv(t)'
      BY <2>1 DEF ThreadInv, Fresh, Decided, Checked, ReadVersion, Current, excl_check, BucketOfOp
    <2> QED BY <1>0, <2>1, <2>2, OutsideStep
  <1>14. ASSUME NEW t \in Threads, NEW u \in Threads,
                word' = word, pc' = pc, op' = op, excl_clear(u), pc[u] = "idle"
         PROVE  MonitorInv' /\ Grow
    <2>1. /\ \A w \in Threads \ {u} : tag'[w] = tag[w] /\ passed'[w] = passed[w]
          /\ ~tag'[u].valid
      BY <1>14, NoTagType DEF excl_clear, TagsOK
    <2>2. ThreadInv(u)'
      BY <1>14, <2>1 DEF ThreadInv, Fresh, Decided, Checked, ReadVersion, Current, OpsOK, KindFits
    <2> QED BY <1>0, <1>14, <2>1, <2>2, OutsideStep
  <1>15. ASSUME NEW t \in Threads, Fork(t) PROVE MonitorInv' /\ Grow
    <2>1. \A b \in Buckets : /\ word'[b] = version_of(word[b]) /\ ~Locked(word'[b])
                             /\ version_of(word'[b]) = version_of(word[b]) /\ version_of(word[b]) \in Nat
      BY <1>15, WordFacts DEF Fork, StateOK
    <2>2. \A u \in Threads : pc'[u] = "idle" /\ op'[u].kind = "none" /\ ~op'[u].bump
      BY <1>15 DEF Fork, OnlyCaller, NoOp, NewOp
    <2>3. OneHolder'
      BY <2>1, <2>2 DEF OneHolder, Holds
    <2>4. tag'[t] = tag[t] /\ passed'[t] = passed[t] /\ \A u \in Threads \ {t} : ~tag'[u].valid
      BY <1>15, NoTagType DEF Fork, OnlyCaller
    <2>5. \A u \in Threads : Fresh(u)' /\ Decided(u)' /\ Checked(u)' /\ ReadVersion(u)'
      BY <2>2 DEF Fresh, Decided, Checked, ReadVersion
    <2>6. Current(t)'
      <3>1. op[t].kind # "ldxr" /\ (tag[t].valid => BucketOf[tag[t].acc] \in Buckets)
        BY <1>15, MonitorAssumption DEF Fork, OpsOK, KindFits, TagsOK
      <3> QED BY <2>1, <2>4, <3>1 DEF ThreadInv, Current
    <2>7. \A u \in Threads \ {t} : Current(u)'
      BY <2>4 DEF Current
    <2> QED BY <2>1, <2>3, <2>5, <2>6, <2>7 DEF ThreadInv
  <1>16. CASE UNCHANGED vars
    <2>1. word' = word /\ tag' = tag /\ passed' = passed /\ pc' = pc /\ op' = op
      BY <1>16 DEF vars
    <2>2. MonitorInv'
      BY <2>1 DEF OneHolder, Holds, ThreadInv, Fresh, Decided, Checked, ReadVersion, Current,
           excl_check, BucketOfOp
    <2> QED BY <1>0, <2>1, <2>2
  <1>17. ASSUME NEW t \in Threads, Clear(t) PROVE MonitorInv' /\ Grow
    BY <1>14, <1>17 DEF Clear
  <1>18. ASSUME NEW t \in Threads, NEW u \in Threads, Spawn(t, u) PROVE MonitorInv' /\ Grow
    BY <1>14, <1>18 DEF Spawn, Present
  <1> QED
    BY <1>1, <1>2, <1>3, <1>4, <1>5, <1>6, <1>7, <1>8, <1>9, <1>10, <1>11, <1>12,
       <1>13, <1>15, <1>16, <1>17, <1>18 DEF Next, Holding

LEMMA InvHolds == Spec => [](MonitorInv /\ Present)
  <1>1. Init => MonitorInv /\ Present
    BY InvInit DEF Init, Present
  <1>2. ASSUME MonitorInv, Present, [Next]_vars PROVE MonitorInv' /\ Present'
    <2>1. TypeOK'
      BY <1>2, TypeStep DEF MonitorInv
    <2> QED BY <1>2, <2>1, InvStep, PresentStep DEF MonitorInv
  <1> QED BY <1>1, <1>2, PTL DEF Spec

\* A bucket is locked exactly while one thread is inside it, whichever of the
\* three implementations the threads run and wherever a fork cuts them.
THEOREM MutualExclusion == Spec => []OneHolder
  <1>1. MonitorInv => OneHolder
    BY DEF MonitorInv
  <1> QED BY <1>1, InvHolds, PTL

\* No store-exclusive writes over a store to its bucket that completed after
\* its load-exclusive, whatever value that store left.
THEOREM NoStoreMissed == Spec => []MissesNoStore
  <1>1. MonitorInv => MissesNoStore
    <2> SUFFICES ASSUME MonitorInv, NEW t \in Threads, pc[t] = "write", op[t].kind = "stxr", NEW a \in passed[t]
                 PROVE  BucketOf[a] # BucketOfOp(t)
      BY DEF MissesNoStore
    <2>1. excl_check(t, op[t].acc) /\ tag[t].ver = version_of(word[BucketOfOp(t)])
      BY DEF MonitorInv, ThreadInv, Checked
    <2>2. BucketOf[a] = BucketOfOp(t) => tag[t].ver < version_of(word[BucketOfOp(t)])
      BY <2>1 DEF MonitorInv, ThreadInv, Current, excl_check, BucketOfOp
    <2>3. version_of(word[BucketOfOp(t)]) \in Nat
      BY AtType, WordFacts DEF MonitorInv
    <2> QED BY <2>1, <2>2, <2>3
  <1> QED BY <1>1, InvHolds, PTL

\* No unlock and no fork takes a bucket's version back.
THEOREM VersionsOnlyGrow == Spec => VersionsGrow
  <1>1. ASSUME MonitorInv, Present, [Next]_vars
        PROVE  \A b \in Buckets : version_of(word'[b]) >= version_of(word[b])
    <2>1. TypeOK'
      BY <1>1, TypeStep DEF MonitorInv
    <2> QED BY <1>1, <2>1, InvStep
  <1> QED BY <1>1, InvHolds, PTL DEF Spec, VersionsGrow

\* Where accesses that overlap share a bucket, as they do inside one 8-byte
\* granule, a reservation covers all it loaded.  The X pair is the exception.
THEOREM GranuleCovered ==
    ASSUME \A a, b \in Accesses : a \cap b # {} => BucketOf[a] = BucketOf[b]
    PROVE  Spec => []ReservationCoversAccess
  <1>1. TypeOK /\ MissesNoStore => ReservationCoversAccess
    <2> SUFFICES ASSUME TypeOK, MissesNoStore, NEW t \in Threads, pc[t] = "write", op[t].kind = "stxr",
                        NEW a \in passed[t]
                 PROVE  a \cap op[t].acc = {}
      BY DEF ReservationCoversAccess
    <2>1. op[t].acc \in Accesses /\ a \in Accesses
      BY AtType DEF TypeOK, TagsOK
    <2> QED BY <2>1 DEF MissesNoStore, BucketOfOp
  <1> QED BY <1>1, TypeCorrect, NoStoreMissed, PTL

-----------------------------------------------------------------------------
(* The refinement of LLSC.                                                 *)

\* A load-exclusive between its first and its last step.
Loading(t) == op[t].kind = "ldxr" /\ pc[t] \in {"version", "value"}

\* A step that keeps the versions and what has landed changes the reservation
\* of nobody but the thread that takes it.
LEMMA ViewKept ==
    ASSUME TypeOK, NEW t \in Threads,
           \A b \in Buckets : version_of(word'[b]) = version_of(word[b]),
           \A u \in Threads \ {t} : pc'[u] = pc[u] /\ op'[u] = op[u] /\ tag'[u] = tag[u],
           Landed(t)' <=> Landed(t),
           Landed(t) => op'[t].acc = op[t].acc /\ op'[t].kind = op[t].kind
    PROVE  /\ \A u \in Threads \ {t} : Reservation(u)' = Reservation(u)
           /\ \A u \in Threads : Performed(u)' = Performed(u)
           /\ tag'[t] = tag[t] /\ (Loading(t)' <=> Loading(t)) => Reservation(t)' = Reservation(t)
  <1>1. \A w \in Threads : /\ Landed(w)' <=> Landed(w)
                           /\ Landed(w) => BucketOfOp(w)' = BucketOfOp(w) /\ op'[w].kind = op[w].kind
    BY DEF Landed, BucketOfOp
  <1>2. ASSUME NEW u \in Threads, tag'[u] = tag[u], Loading(u)' <=> Loading(u)
        PROVE  Reservation(u)' = Reservation(u)
    <2>1. tag[u].valid => BucketOf[tag[u].acc] \in Buckets
      BY MonitorAssumption DEF TypeOK, TagsOK
    <2>2. Stands(u)' <=> Stands(u)
      BY <1>1, <1>2, <2>1 DEF Stands, Loading
    <2>3. Stands(u) \in BOOLEAN /\ Stands(u)' \in BOOLEAN
      BY DEF Stands
    <2>4. Stands(u)' = Stands(u)
      BY <2>2, <2>3
    <2> QED BY <1>2, <2>4 DEF Reservation
  <1>3. \A u \in Threads : Performed(u)' = Performed(u)
    BY <1>1 DEF Performed
  <1>4. \A u \in Threads \ {t} : Loading(u)' <=> Loading(u)
    BY DEF Loading
  <1> QED BY <1>2, <1>3, <1>4

\* A step nobody sees.
LEMMA Unseen ==
    ASSUME mem' = mem,
           \A u \in Threads : Reservation(u)' = Reservation(u) /\ Performed(u)' = Performed(u)
    PROVE  UNCHANGED Atomic!vars
  BY DEF Atomic!vars

\* What becomes of a reservation whose flag is set to g.
LEMMA Marked ==
    ASSUME NEW t \in Threads, NEW g
    PROVE  [Reservation(t) EXCEPT !.held = g] = [held |-> g, acc |-> tag[t].acc, value |-> tag[t].value]
  <1>1. PICK h : h = Stands(t)
    OBVIOUS
  <1>2. Reservation(t) = [held |-> h, acc |-> tag[t].acc, value |-> tag[t].value]
    BY <1>1 DEF Reservation
  <1>3. [[held |-> h, acc |-> tag[t].acc, value |-> tag[t].value] EXCEPT !.held = g]
           = [held |-> g, acc |-> tag[t].acc, value |-> tag[t].value]
    OBVIOUS
  <1> QED BY <1>2, <1>3, Zenon

LEMMA Broken ==
    ASSUME NEW t \in Threads
    PROVE  [Reservation(t) EXCEPT !.held = FALSE] = [held |-> FALSE, acc |-> tag[t].acc, value |-> tag[t].value]
  <1>1. PICK g : g = FALSE
    OBVIOUS
  <1>2. [Reservation(t) EXCEPT !.held = g] = [held |-> g, acc |-> tag[t].acc, value |-> tag[t].value]
    BY Marked
  <1> QED BY <1>1, <1>2, Zenon

\* A reservation that is lost or dropped.
LEMMA Lost ==
    ASSUME NEW t \in Threads, mem' = mem,
           \A u \in Threads \ {t} : Reservation(u)' = Reservation(u),
           \A u \in Threads : Performed(u)' = Performed(u),
           \/ ~Stands(t)' /\ tag'[t].acc = tag[t].acc /\ tag'[t].value = tag[t].value
           \/ tag'[t] = NoTag
    PROVE  Atomic!Next
  <1>1. Reservation(t)' \in {Atomic!None, [Reservation(t) EXCEPT !.held = FALSE]}
    <2>1. Stands(t)' = FALSE
      BY DEF Stands, NoTag
    <2>2. [Reservation(t) EXCEPT !.held = FALSE] = [held |-> FALSE, acc |-> tag[t].acc, value |-> tag[t].value]
      BY Broken
    <2>3. Reservation(t)' = [held |-> FALSE, acc |-> tag'[t].acc, value |-> tag'[t].value]
      BY <2>1 DEF Reservation
    <2>4. CASE tag'[t] = NoTag
      BY <2>3, <2>4 DEF NoTag, Atomic!None
    <2>5. CASE tag'[t] # NoTag
      BY <2>2, <2>3, <2>5
    <2> QED BY <2>4, <2>5
  <1>2. Atomic!Lose(t)
    BY <1>1 DEF Atomic!Lose
  <1> QED BY <1>2 DEF Atomic!Next

\* The instants at which memory changes: the write of a store-exclusive or a
\* store-release, while its bucket is held.
LEMMA WriteMaps ==
    ASSUME MonitorInv, NEW t \in Threads, Write(t), op'[t].bump
    PROVE  Atomic!Next
  <1> USE DEF MonitorInv, TypeOK
  <1> DEFINE a == op[t].acc
             v == op[t].val
  <1>1. /\ op[t] \in Ops /\ a \in Accesses /\ BucketOfOp(t) \in Buckets /\ pc[t] = "write"
        /\ op[t].kind \in {"stxr", "stlr"} /\ v \in [a -> Values]
    BY AtType DEF Write, Goto, OpsOK, KindFits, Ops, Kinds
  <1>2. /\ word' = word /\ tag' = tag /\ pc'[t] = "unlock"
        /\ \A u \in Threads \ {t} : pc'[u] = pc[u] /\ op'[u] = op[u]
        /\ op'[t].acc = a /\ op'[t].kind = op[t].kind
        /\ mem' = MemWrite(a, v)
        /\ op[t].kind = "stxr" => MemRead(a) = tag[t].value
    BY <1>1 DEF Write, Goto, OpsOK, Ops
  <1>3. Landed(t)' /\ ~Landed(t) /\ BucketOfOp(t)' = BucketOfOp(t)
    BY <1>1, <1>2 DEF Landed, BucketOfOp
  <1>4. \A u \in Threads : Landed(u) => BucketOfOp(u) # BucketOfOp(t)
    <2>1. Holds(t, BucketOfOp(t))
      BY <1>1 DEF Holds
    <2>2. \A u \in Threads : Landed(u) => Holds(u, BucketOfOp(u)) /\ BucketOfOp(u) \in Buckets
      BY AtType DEF Landed, Holds
    <2> QED BY <1>1, <1>3, <2>1, <2>2 DEF OneHolder
  <1>5. \A u \in Threads : (Loading(u)' <=> Loading(u)) /\ ~Loading(t)
    BY <1>1, <1>2 DEF Loading
  <1>6. \A u \in Threads \ {t} : (Landed(u)' <=> Landed(u)) /\ BucketOfOp(u)' = BucketOfOp(u)
    BY <1>2 DEF Landed, BucketOfOp
  <1>7. ASSUME NEW u \in Threads
        PROVE  Stands(u)' <=> Stands(u) /\ BucketOf[tag[u].acc] # BucketOfOp(t)
    BY <1>2, <1>3, <1>5, <1>6 DEF Stands, Loading
  <1>8. \A u \in Threads : Reservation(u)' = IF Stands(u) /\ BucketOf[tag[u].acc] = BucketOfOp(t)
                                                THEN [Reservation(u) EXCEPT !.held = FALSE] ELSE Reservation(u)
    <2> TAKE u \in Threads
    <2>1. Stands(u) \in BOOLEAN /\ Stands(u)' \in BOOLEAN
      BY DEF Stands
    <2>2. CASE Stands(u) /\ BucketOf[tag[u].acc] = BucketOfOp(t)
      <3>1. Stands(u)' = FALSE
        BY <1>7, <2>1, <2>2
      <3>2. Reservation(u)' = [held |-> FALSE, acc |-> tag[u].acc, value |-> tag[u].value]
        BY <1>2, <3>1 DEF Reservation
      <3> QED BY <2>2, <3>2, Broken
    <2>3. CASE ~(Stands(u) /\ BucketOf[tag[u].acc] = BucketOfOp(t))
      <3>1. Stands(u)' = Stands(u)
        BY <1>7, <2>1, <2>3
      <3>2. Reservation(u)' = Reservation(u)
        BY <1>2, <3>1 DEF Reservation
      <3> QED BY <2>3, <3>2
    <2> QED BY <2>2, <2>3
  <1>9. Atomic!Perform(t, a, v)
    <2>1. \A u \in Threads : /\ Reservation(u).held = Stands(u)
                             /\ Reservation(u).acc = tag[u].acc
      BY DEF Reservation
    <2>2. mem' = [c \in Cells |-> IF c \in a THEN v[c] ELSE mem[c]]
      BY <1>2 DEF MemWrite
    <2> QED BY <1>8, <2>1, <2>2 DEF Atomic!Perform, BucketOfOp
  <1>10. \A u \in Threads \ {t} : Performed(u)' = Performed(u)
    BY <1>2, <1>6 DEF Performed
  <1>11. Performed(t) = "none"
    BY <1>3 DEF Performed
  <1>12. CASE op[t].kind = "stlr"
    <2>1. Performed(t)' = "release"
      BY <1>2, <1>3, <1>12 DEF Performed
    <2>2. Atomic!StoreRelease(t, a, v)
      BY <1>9, <1>10, <1>11, <2>1 DEF Atomic!StoreRelease
    <2> QED BY <1>1, <2>2 DEF Atomic!Next
  <1>13. CASE op[t].kind = "stxr"
    <2>1. Performed(t)' = "exclusive"
      BY <1>2, <1>3, <1>13 DEF Performed
    <2>2. excl_check(t, a) /\ tag[t].ver = version_of(word[BucketOfOp(t)])
      BY <1>1, <1>13 DEF ThreadInv, Checked
    <2>3. Stands(t)
      BY <1>4, <1>5, <2>2 DEF Stands, Loading, excl_check, BucketOfOp
    <2>4. /\ Reservation(t).held /\ Reservation(t).acc = a
          /\ Reservation(t).value = [c \in a |-> mem[c]]
      BY <1>2, <1>13, <2>2, <2>3 DEF Reservation, excl_check, MemRead
    <2>5. Atomic!StoreExclusive(t, v)
      BY <1>9, <1>10, <1>11, <2>1, <2>4 DEF Atomic!StoreExclusive
    <2>6. v \in Atomic!Loaded
      BY <1>1 DEF Atomic!Loaded
    <2> QED BY <2>5, <2>6 DEF Atomic!Next
  <1> QED BY <1>1, <1>12, <1>13

\* Releasing a bucket.  With a bump it ends the store: the reservations it
\* broke stay broken, now by their versions.
LEMMA LeaveMaps ==
    ASSUME MonitorInv, NEW t \in Threads, NEW from \in {"unlock", "writeback"}, Finish(t, from),
           word' = [word EXCEPT ![BucketOfOp(t)] = Unlocked(word[BucketOfOp(t)], op[t].bump)]
    PROVE  Atomic!Next \/ UNCHANGED Atomic!vars
  <1> USE DEF MonitorInv, TypeOK
  <1> DEFINE bk == BucketOfOp(t)
  <1>1. /\ op[t] \in Ops /\ bk \in Buckets /\ word[bk] \in Nat /\ pc[t] = from
        /\ op[t].bump \in BOOLEAN /\ op[t].kind \in {"stxr", "stlr"}
    BY AtType DEF Finish, Goto, OpsOK, KindFits, Ops, Kinds
  <1>2. /\ pc'[t] \in {"lock", "idle"} /\ mem' = mem
        /\ \A u \in Threads \ {t} : pc'[u] = pc[u] /\ op'[u] = op[u] /\ tag'[u] = tag[u]
        /\ tag'[t] = NoTag \/ tag' = tag
    BY DEF Finish, Goto, OpsOK, TagsOK
  <1>3. ~Landed(t)' /\ ~Loading(t)' /\ ~Loading(t)
    BY <1>1, <1>2 DEF Landed, Loading
  <1>4. Locked(word[bk])
    BY <1>1 DEF OneHolder, Holds
  <1>5. word'[bk] = Unlocked(word[bk], op[t].bump) /\ \A b \in Buckets \ {bk} : word'[b] = word[b]
    BY <1>1 DEF StateOK
  <1> HIDE DEF bk
  <1>6. CASE ~op[t].bump
    <2>1. \A b \in Buckets : version_of(word'[b]) = version_of(word[b])
      BY <1>1, <1>5, <1>6, WordFacts DEF Unlocked
    <2>2. ~Landed(t)
      BY <1>6 DEF Landed
    <2>3. /\ \A u \in Threads \ {t} : Reservation(u)' = Reservation(u)
          /\ \A u \in Threads : Performed(u)' = Performed(u)
          /\ tag'[t] = tag[t] => Reservation(t)' = Reservation(t)
      BY <1>2, <1>3, <2>1, <2>2, ViewKept
    <2> QED BY <1>2, <2>3, Lost, Unseen
  <1>7. CASE op[t].bump
    <2>1. Landed(t) /\ ~Landed(t)'
      BY <1>1, <1>3, <1>7 DEF Landed
    <2>2. /\ version_of(word'[bk]) > version_of(word[bk])
          /\ \A b \in Buckets : version_of(word[b]) \in Nat /\ version_of(word'[b]) \in Nat
      BY <1>1, <1>4, <1>5, <1>7, UnlockedFacts, WordFacts DEF StateOK
    <2>3. \A u \in Threads \ {t} : /\ Landed(u)' <=> Landed(u)
                                   /\ BucketOfOp(u)' = BucketOfOp(u)
                                   /\ Loading(u)' <=> Loading(u)
      BY <1>2 DEF Landed, BucketOfOp, Loading
    <2>4. ASSUME NEW u \in Threads, tag'[u] = tag[u] PROVE Stands(u)' <=> Stands(u)
      <3>1. tag[u].valid => BucketOf[tag[u].acc] \in Buckets /\ tag[u].ver \in Nat
        BY MonitorAssumption DEF TagsOK, Tags
      <3>2. Loading(u)' <=> Loading(u)
        BY <1>3, <2>3
      <3>3. CASE tag[u].valid /\ ~Loading(u) /\ BucketOf[tag[u].acc] = bk
        <4>1. ~Stands(u)
          BY <2>1, <3>3 DEF Stands, bk
        <4>2. op[u].kind # "ldxr"
          BY <3>3 DEF Loading, OpsOK, KindFits
        <4>3. tag[u].ver <= version_of(word[bk])
          BY <3>3, <4>2 DEF ThreadInv, Current
        <4>4. version_of(word'[bk]) # tag[u].ver
          BY <1>1, <2>2, <3>1, <3>3, <4>3
        <4>5. ~Stands(u)'
          BY <2>4, <3>3, <4>4 DEF Stands
        <4> QED BY <4>1, <4>5
      <3>4. CASE tag[u].valid /\ ~Loading(u) /\ BucketOf[tag[u].acc] # bk
        <4>1. word'[BucketOf[tag[u].acc]] = word[BucketOf[tag[u].acc]]
          BY <1>5, <3>1, <3>4
        <4>2. \A w \in Threads : (Landed(w) /\ BucketOfOp(w) = BucketOf[tag[u].acc])'
                                  <=> Landed(w) /\ BucketOfOp(w) = BucketOf[tag[u].acc]
          BY <1>3, <2>3, <2>4, <3>4 DEF bk
        <4> QED BY <2>4, <3>2, <4>1, <4>2 DEF Stands, Loading
      <3>5. CASE ~(tag[u].valid /\ ~Loading(u))
        BY <2>4, <3>2, <3>5 DEF Stands, Loading
      <3> QED BY <3>3, <3>4, <3>5
    <2>5. \A u \in Threads : tag'[u] = tag[u] => Reservation(u)' = Reservation(u)
      <3> TAKE u \in Threads
      <3> HAVE tag'[u] = tag[u]
      <3>1. Stands(u)' = Stands(u)
        <4>1. Stands(u) \in BOOLEAN /\ Stands(u)' \in BOOLEAN
          BY DEF Stands
        <4> QED BY <2>4, <4>1
      <3> QED BY <3>1 DEF Reservation
    <2>6. tag'[t] = NoTag => Reservation(t)' = Atomic!None
      BY DEF Reservation, Stands, NoTag, Atomic!None
    <2>7. /\ Performed(t) # "none" /\ Performed(t)' = "none"
          /\ \A u \in Threads \ {t} : Performed(u)' = Performed(u)
      BY <1>1, <1>2, <2>1, <2>3 DEF Performed
    <2>8. Atomic!Return(t)
      <3>1. CASE tag' = tag
        BY <1>2, <2>5, <2>7, <3>1 DEF Atomic!Return
      <3>2. CASE tag'[t] = NoTag
        BY <1>2, <2>5, <2>6, <2>7, <3>2 DEF Atomic!Return
      <3> QED BY <1>2, <3>1, <3>2
    <2> QED BY <2>8 DEF Atomic!Next
  <1> QED BY <1>1, <1>6, <1>7

\* fork, seen from the child: what the other threads had stored is memory.
LEMMA ForkMaps ==
    ASSUME MonitorInv, NEW t \in Threads, Fork(t)
    PROVE  Atomic!Next
  <1>1. ~Landed(t) /\ \A u \in Threads : ~Landed(u)'
    BY DEF Fork, OnlyCaller, Landed
  <1>2. Performed(t) = "none" /\ \A u \in Threads : Performed(u)' = "none"
    BY <1>1 DEF Performed
  <1>3. \A u \in Threads \ {t} : Reservation(u)' = Atomic!None
    BY DEF Fork, OnlyCaller, Reservation, Stands, NoTag, Atomic!None
  <1>4. PICK held \in BOOLEAN : Stands(t)' = held
    BY DEF Stands
  <1>5. Reservation(t)' = [held |-> held, acc |-> tag[t].acc, value |-> tag[t].value]
    BY <1>4 DEF Reservation, Fork, OnlyCaller
  <1>6. Reservation(t)' = [Reservation(t) EXCEPT !.held = held]
    BY <1>5, Marked
  <1>7. mem' = mem
    BY DEF Fork
  <1>8. Atomic!Fork(t)
    BY <1>2, <1>3, <1>6, <1>7 DEF Atomic!Fork
  <1> QED BY <1>8 DEF Atomic!Next

\* The load of a load-exclusive makes the reservation.
LEMMA LoadMaps ==
    ASSUME MonitorInv, NEW t \in Threads, LdxrValue(t)
    PROVE  Atomic!Next
  <1> USE DEF MonitorInv, TypeOK
  <1> DEFINE a == op[t].acc
  <1>1. /\ a \in Accesses /\ word' = word /\ mem' = mem /\ pc[t] = "value" /\ pc'[t] = "idle"
        /\ \A u \in Threads \ {t} : pc'[u] = pc[u] /\ op'[u] = op[u] /\ tag'[u] = tag[u]
        /\ tag'[t].acc = a /\ tag'[t].value = MemRead(a)
    BY AtType DEF LdxrValue, Goto, excl_mark, Done, OpsOK, TagsOK
  <1>2. ~Landed(t) /\ ~Landed(t)'
    BY <1>1 DEF Landed
  <1>3. /\ \A u \in Threads \ {t} : Reservation(u)' = Reservation(u)
        /\ \A u \in Threads : Performed(u)' = Performed(u)
    BY <1>1, <1>2, ViewKept
  <1>4. Performed(t) = "none"
    BY <1>2 DEF Performed
  <1>5. PICK held \in BOOLEAN : Stands(t)' = held
    BY DEF Stands
  <1>6. Reservation(t)' = [held |-> held, acc |-> a, value |-> [c \in a |-> mem[c]]]
    BY <1>1, <1>5 DEF Reservation, MemRead
  <1>7. Atomic!LoadExclusive(t, a)
    BY <1>1, <1>3, <1>4, <1>6 DEF Atomic!LoadExclusive
  <1> QED BY <1>1, <1>7 DEF Atomic!Next

\* Every step of the monitor is one of the promised steps or is not seen.
LEMMA StepMaps ==
    ASSUME MonitorInv, Present, [Next]_vars
    PROVE  [Atomic!Next]_(Atomic!vars)
  <1> USE DEF MonitorInv, TypeOK
  \* the steps of one thread that neither store nor release
  <1>0. ASSUME NEW t \in Threads, mem' = mem,
               \A b \in Buckets : version_of(word'[b]) = version_of(word[b]),
               \A u \in Threads \ {t} : pc'[u] = pc[u] /\ op'[u] = op[u] /\ tag'[u] = tag[u],
               ~Landed(t), ~Landed(t)',
               \/ tag'[t] = tag[t] /\ (Loading(t)' <=> Loading(t))
               \/ tag'[t] = NoTag
               \/ Loading(t)' /\ tag'[t].acc = tag[t].acc /\ tag'[t].value = tag[t].value
        PROVE  [Atomic!Next]_(Atomic!vars)
    <2>1. /\ \A u \in Threads \ {t} : Reservation(u)' = Reservation(u)
          /\ \A u \in Threads : Performed(u)' = Performed(u)
          /\ tag'[t] = tag[t] /\ (Loading(t)' <=> Loading(t)) => Reservation(t)' = Reservation(t)
      BY <1>0, ViewKept
    <2>2. Loading(t)' => ~Stands(t)'
      BY DEF Loading, Stands
    <2> QED BY <1>0, <2>1, <2>2, Lost, Unseen
  <1>1. ASSUME NEW t \in Threads, Instruction(t) PROVE [Atomic!Next]_(Atomic!vars)
    <2>1. PICK kind \in Kinds, native \in BOOLEAN, a \in Accesses, v \in Loaded \cup {<<>>} :
             Issue(t, kind, native, a, v)
      BY <1>1, LoadedFacts DEF Instruction, Kinds
    <2>2. /\ mem' = mem /\ word' = word /\ tag' = tag /\ pc[t] = "idle" /\ op'[t].kind = kind
          /\ \A u \in Threads \ {t} : pc'[u] = pc[u] /\ op'[u] = op[u]
          /\ pc'[t] = FirstStep(kind, native)
      BY <2>1 DEF Issue, Goto, NewOp, OpsOK
    <2>3. ~Landed(t) /\ ~Landed(t)' /\ ~Loading(t)
      BY <2>2 DEF Landed, Loading, FirstStep
    <2> QED BY <1>0, <2>2, <2>3
  <1>2. ASSUME NEW t \in Threads, LdxrVersion(t) PROVE [Atomic!Next]_(Atomic!vars)
    <2>1. /\ mem' = mem /\ word' = word /\ pc[t] = "version" /\ pc'[t] = "value"
          /\ op[t].kind = "ldxr" /\ op[t] \in Ops
          /\ \A u \in Threads \ {t} : pc'[u] = pc[u] /\ op'[u] = op[u] /\ tag'[u] = tag[u]
      BY <1>2, AtType DEF LdxrVersion, Goto, OpsOK, TagsOK, KindFits
    <2>2. op'[t].kind = "ldxr" /\ tag'[t].acc = tag[t].acc /\ tag'[t].value = tag[t].value
      BY <1>2, <2>1 DEF LdxrVersion, OpsOK, TagsOK, Tags, Ops
    <2>3. ~Landed(t) /\ ~Landed(t)' /\ Loading(t)'
      BY <2>1, <2>2 DEF Landed, Loading
    <2> QED BY <1>0, <2>1, <2>2, <2>3
  <1>3. ASSUME NEW t \in Threads, LdxrValue(t) PROVE [Atomic!Next]_(Atomic!vars)
    BY <1>3, LoadMaps
  <1>4. ASSUME NEW t \in Threads, LdxrFault(t) PROVE [Atomic!Next]_(Atomic!vars)
    <2>1. /\ mem' = mem /\ word' = word /\ pc[t] = "value" /\ pc'[t] \in {"version", "idle"}
          /\ op[t].kind = "ldxr" /\ op[t] \in Ops
          /\ \A u \in Threads \ {t} : pc'[u] = pc[u] /\ op'[u] = op[u] /\ tag'[u] = tag[u]
      BY <1>4, AtType DEF LdxrFault, Goto, excl_clear, Done, OpsOK, TagsOK, KindFits
    <2>2. tag'[t] = NoTag \/ (tag'[t] = tag[t] /\ Loading(t)' /\ Loading(t))
      BY <1>4, <2>1 DEF LdxrFault, Goto, excl_clear, OpsOK, TagsOK, Ops, Loading
    <2>3. ~Landed(t) /\ ~Landed(t)'
      BY <2>1 DEF Landed
    <2> QED BY <1>0, <2>1, <2>2, <2>3
  <1>5. ASSUME NEW t \in Threads, StxrTag(t) PROVE [Atomic!Next]_(Atomic!vars)
    <2>1. /\ mem' = mem /\ word' = word /\ pc[t] = "tag" /\ pc'[t] \in {"lock", "idle"}
          /\ \A u \in Threads \ {t} : pc'[u] = pc[u] /\ op'[u] = op[u] /\ tag'[u] = tag[u]
          /\ tag'[t] = NoTag \/ tag'[t] = tag[t]
      BY <1>5 DEF StxrTag, Goto, excl_clear, Done, OpsOK, TagsOK
    <2>2. ~Landed(t) /\ ~Landed(t)' /\ ~Loading(t) /\ ~Loading(t)'
      BY <2>1 DEF Landed, Loading
    <2> QED BY <1>0, <2>1, <2>2
  <1>6. ASSUME NEW t \in Threads, Lock(t) PROVE [Atomic!Next]_(Atomic!vars)
    <2>1. /\ mem' = mem /\ tag' = tag /\ op' = op /\ pc[t] = "lock" /\ pc'[t] \in {"held", "write"}
          /\ \A u \in Threads \ {t} : pc'[u] = pc[u]
      BY <1>6 DEF Lock, Goto, OpsOK
    <2>2. \A b \in Buckets : version_of(word'[b]) = version_of(word[b])
      <3>1. BucketOfOp(t) \in Buckets /\ word[BucketOfOp(t)] \in Nat
        BY <2>1, AtType
      <3>2. /\ word'[BucketOfOp(t)] = word[BucketOfOp(t)] + 1 /\ ~Locked(word[BucketOfOp(t)])
            /\ \A b \in Buckets \ {BucketOfOp(t)} : word'[b] = word[b]
        BY <1>6, <3>1 DEF Lock, StateOK
      <3> QED BY <3>1, <3>2, WordFacts
    <2>3. ~Landed(t) /\ ~Landed(t)' /\ ~Loading(t) /\ ~Loading(t)'
      BY <2>1 DEF Landed, Loading
    <2> QED BY <1>0, <2>1, <2>2, <2>3
  <1>7. ASSUME NEW t \in Threads, StxrCheck(t) PROVE [Atomic!Next]_(Atomic!vars)
    <2>1. /\ mem' = mem /\ word' = word /\ tag' = tag /\ op' = op /\ pc[t] = "held"
          /\ \A u \in Threads \ {t} : pc'[u] = pc[u]
          /\ pc'[t] \in {"write", "unlock"}
      BY <1>7 DEF StxrCheck, Goto, OpsOK
    <2>2. ~op[t].bump
      BY <2>1 DEF ThreadInv, Decided
    <2>3. ~Landed(t) /\ ~Landed(t)' /\ ~Loading(t) /\ ~Loading(t)'
      BY <2>1, <2>2 DEF Landed, Loading
    <2> QED BY <1>0, <2>1, <2>3
  <1>8. ASSUME NEW t \in Threads, Write(t) PROVE [Atomic!Next]_(Atomic!vars)
    <2>1. op[t] \in Ops
      BY <1>8, AtType DEF Write, Goto
    <2>2. /\ word' = word /\ tag' = tag /\ pc[t] = "write" /\ pc'[t] = "unlock"
          /\ \A u \in Threads \ {t} : pc'[u] = pc[u] /\ op'[u] = op[u]
          /\ ~op'[t].bump => mem' = mem
      BY <1>8, <2>1 DEF Write, Goto, OpsOK, Ops
    <2>3. CASE op'[t].bump
      BY <1>8, <2>3, WriteMaps
    <2>4. CASE ~op'[t].bump
      <3>1. ~Landed(t) /\ ~Landed(t)' /\ ~Loading(t) /\ ~Loading(t)'
        BY <2>2, <2>4 DEF Landed, Loading
      <3> QED BY <1>0, <2>2, <2>4, <3>1
    <2> QED BY <2>3, <2>4
  <1>9. ASSUME NEW t \in Threads, WriteFault(t) PROVE [Atomic!Next]_(Atomic!vars)
    <2>1. op[t] \in Ops
      BY <1>9, AtType DEF WriteFault, Goto
    <2>2. /\ mem' = mem /\ word' = word /\ tag' = tag /\ pc[t] = "write" /\ pc'[t] = "unlock"
          /\ \A u \in Threads \ {t} : pc'[u] = pc[u] /\ op'[u] = op[u]
          /\ op'[t].bump = op[t].bump
      BY <1>9, <2>1 DEF WriteFault, Goto, OpsOK, Ops
    <2>3. ~op[t].bump
      BY <2>2 DEF ThreadInv, Decided
    <2>4. ~Landed(t) /\ ~Landed(t)' /\ ~Loading(t) /\ ~Loading(t)'
      BY <2>2, <2>3 DEF Landed, Loading
    <2> QED BY <1>0, <2>2, <2>4
  <1>10. ASSUME NEW t \in Threads, Unlock(t) PROVE [Atomic!Next]_(Atomic!vars)
    BY <1>10, LeaveMaps DEF Unlock
  <1>11. ASSUME NEW t \in Threads, UnlockRead(t) PROVE [Atomic!Next]_(Atomic!vars)
    <2>1. op[t] \in Ops
      BY <1>11, AtType DEF UnlockRead, Goto
    <2>2. /\ mem' = mem /\ word' = word /\ tag' = tag /\ pc[t] = "unlock" /\ pc'[t] = "writeback"
          /\ \A u \in Threads \ {t} : pc'[u] = pc[u] /\ op'[u] = op[u]
          /\ op'[t].acc = op[t].acc /\ op'[t].kind = op[t].kind /\ op'[t].bump = op[t].bump
      BY <1>11, <2>1 DEF UnlockRead, Goto, OpsOK, Ops
    <2>3. (Landed(t)' <=> Landed(t)) /\ ~Loading(t) /\ ~Loading(t)'
      BY <2>2 DEF Landed, Loading
    <2>4. \A u \in Threads : Reservation(u)' = Reservation(u) /\ Performed(u)' = Performed(u)
      BY <2>2, <2>3, ViewKept
    <2> QED BY <2>2, <2>4, Unseen
  <1>12. ASSUME NEW t \in Threads, UnlockWrite(t) PROVE [Atomic!Next]_(Atomic!vars)
    <2>1. op[t].tmp = word[BucketOfOp(t)]
      BY <1>12 DEF UnlockWrite, Finish, Goto, ThreadInv, Fresh
    <2> QED BY <1>12, <2>1, LeaveMaps DEF UnlockWrite
  <1>13. ASSUME NEW t \in Threads, NEW c \in Cells, NEW v \in Values, Store(t, c, v)
         PROVE  [Atomic!Next]_(Atomic!vars)
    <2>1. word' = word /\ tag' = tag /\ pc' = pc /\ op' = op /\ mem' = [mem EXCEPT ![c] = v]
      BY <1>13 DEF Store
    <2>2. \A u \in Threads : (Landed(u)' <=> Landed(u)) /\ (Loading(u)' <=> Loading(u))
      BY <2>1 DEF Landed, Loading
    <2>3. \A u \in Threads : Reservation(u)' = Reservation(u) /\ Performed(u)' = Performed(u)
      BY <1>13, <2>1, <2>2, ViewKept
    <2>4. Atomic!Store(c, v)
      BY <2>1, <2>3 DEF Atomic!Store
    <2> QED BY <2>4 DEF Atomic!Next
  <1>14. ASSUME NEW u \in Threads, mem' = mem, word' = word, pc' = pc, op' = op, excl_clear(u), pc[u] = "idle"
         PROVE  [Atomic!Next]_(Atomic!vars)
    <2>1. tag'[u] = NoTag /\ \A w \in Threads \ {u} : tag'[w] = tag[w]
      BY <1>14 DEF excl_clear, TagsOK
    <2>2. ~Landed(u) /\ ~Landed(u)'
      BY <1>14 DEF Landed
    <2> QED BY <1>0, <1>14, <2>1, <2>2
  <1>15. ASSUME NEW t \in Threads, Fork(t) PROVE [Atomic!Next]_(Atomic!vars)
    BY <1>15, ForkMaps
  <1>16. CASE UNCHANGED vars
    <2>1. mem' = mem /\ word' = word /\ tag' = tag /\ pc' = pc /\ op' = op
      BY <1>16 DEF vars
    <2>2. \A u \in Threads : Reservation(u)' = Reservation(u) /\ Performed(u)' = Performed(u)
      BY <2>1 DEF Reservation, Stands, Performed, Landed, BucketOfOp
    <2> QED BY <2>1, <2>2, Unseen
  <1>17. ASSUME NEW t \in Threads, Clear(t) PROVE [Atomic!Next]_(Atomic!vars)
    BY <1>14, <1>17 DEF Clear
  <1>18. ASSUME NEW t \in Threads, NEW u \in Threads, Spawn(t, u) PROVE [Atomic!Next]_(Atomic!vars)
    BY <1>14, <1>18 DEF Spawn, Present
  <1> QED
    BY <1>1, <1>2, <1>3, <1>4, <1>5, <1>6, <1>7, <1>8, <1>9, <1>10, <1>11, <1>12,
       <1>13, <1>15, <1>16, <1>17, <1>18 DEF Next, Holding

\* What the guest is promised of load- and store-exclusives: the interpreter's
\* handlers, the JIT's helpers and its native sequences, on any mix of threads
\* and with forks, behave as if each instruction took effect in one step.
THEOREM AtomicExclusives == Spec => ImplementsLLSC
  <1>1. Init => Atomic!Init
    <2> SUFFICES ASSUME Init PROVE Atomic!Init
      OBVIOUS
    <2>1. \A t \in Threads : Performed(t) = "none"
      BY DEF Init, Performed, Landed
    <2>2. \A t \in Threads : Reservation(t) = Atomic!None
      BY DEF Init, Reservation, Stands, NoTag, Atomic!None
    <2> QED BY <2>1, <2>2 DEF Init, Atomic!Init
  <1>2. MonitorInv /\ Present /\ [Next]_vars => [Atomic!Next]_(Atomic!vars)
    BY StepMaps
  <1> QED BY <1>1, <1>2, InvHolds, PTL DEF Spec, ImplementsLLSC, Atomic!Spec
=============================================================================
