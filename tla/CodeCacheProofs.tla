-------------------------- MODULE CodeCacheProofs --------------------------
(***************************************************************************)
(* No published block, no chain edge and no entry of a thread's caches     *)
(* leads a thread to code older than an invalidation it knows of: for any  *)
(* number of threads, blocks, lines and translations, any length of the    *)
(* log of invalidations and any pages and granules.                        *)
(***************************************************************************)
EXTENDS CodeCache, TLAPS

-----------------------------------------------------------------------------
(* The inductive invariant. *)

Exclusive == {"pcheck", "retry", "gen", "epoch", "retire"}
Compiling == {"clook", "arm", "read", "plock", "pcheck", "retry"}
Drafting == {"read", "plock", "pcheck", "retry"}
Looking == {"sync", "look", "chain", "fill", "lease", "bind", "compile"}
Retiring == {"gen", "epoch", "retire"}
Late == {"filter", "ilock"} \cup Retiring
Invalidating == {"log"} \cup Late

\* Who holds which lock is where the threads are.
Locks ==
    /\ \A t \in Threads : /\ writer = t <=> at[t] \in Exclusive
                          /\ t \in readers <=> at[t] \in {"arm", "read"}
                          /\ compiler = t <=> at[t] \in Compiling
    /\ writer # None => readers = {}
    /\ active <=> \E t \in Threads : at[t] \in {"read", "plock"}

\* What a thread has in hand at each place.
Hands ==
    \A t \in Threads :
        /\ at[t] \in Looking \cup Compiling => want[t] \in Blocks
        /\ at[t] \in Invalidating => inv[t] \in Invs /\ owed[t] \subseteq inv[t].range
        /\ at[t] \in {"compile", "clook", "arm", "read", "retry"} => run[t] = 0
        /\ at[t] \in {"chain", "fill", "lease", "bind"} => run[t] # 0
        /\ at[t] \in {"arm"} \cup Drafting => blocks[want[t]] = 0

\* An invalidation of line l that the compile will find in its log, or that
\* has yet to look whether there is a compile.
Logged(l) == overflow \/ \E i \in 1..Len(log) : l \in log[i]
Coming(l) == \E u \in Threads : l \in owed[u] /\ at[u] \notin Late

Current(l) == draft[l] = Unread \/ draft[l] = mem[l]

\* Every word fetched for the compile under way is still in memory, or its
\* change will be noticed: from the log, or by its invalidation in the table.
Noticed ==
    \A t \in Threads, l \in Lines :
        /\ at[t] \in {"read", "plock"} => Current(l) \/ Logged(l) \/ Coming(l)
        /\ at[t] = "pcheck" => Current(l) \/ Logged(l) \/ Dirty(l)
        /\ at[t] = "retry" => Current(l) \/ Dirty(l)

\* Between compiles nothing is fetched; a staged block is what was fetched.
Idle == draft = NoWords \/ \E t \in Threads : at[t] \in Drafting
Staged ==
    \A t \in Threads : at[t] \in {"plock", "pcheck"} /\ run[t] # 0 =>
        words[run[t]] = draft /\ pcOf[run[t]] = want[t] /\ Missing(want[t]) = {}

Drafted == Noticed /\ Idle /\ Staged

\* The granules of a published block lead to it, and an invalidation that has
\* chosen its victims spares only blocks that its own lines do not make stale.
Indexed ==
    \A b \in Blocks : blocks[b] # 0 =>
        \/ \A l \in Deps[b] : b \in index[Granule[l]]
        \/ \E u \in Threads : at[u] \in Retiring /\ inv[u].kind = "all"

Spared ==
    \A u \in Threads, b \in Blocks :
        at[u] \in Retiring /\ blocks[b] # 0 /\ b \notin inv[u].victims =>
            /\ inv[u].kind # "all"
            /\ \A l \in Deps[b] \cap owed[u] :
                  words[blocks[b]][l] = mem[l] \/ \E v \in Threads \ {u} : l \in owed[v]

\* An edge leads to what the table holds for its target.
Edges == \A x \in Slots : edge[x] # 0 => x \in live /\ edge[x] = blocks[Target[pcOf[x]]]

TableInv == TypeOK /\ Locks /\ Hands /\ Drafted /\ Indexed /\ Spared /\ TableFresh /\ Edges

-----------------------------------------------------------------------------
(* For the threads' own caches. *)

\* What the guest knows to be clean is clean.
Observed == \A t \in Threads : \A l \in obs[t] : ~Dirty(l)

\* The epoch follows the generation.
Epochs == gen = epoch + (IF \E u \in Threads : at[u] = "epoch" THEN 2 ELSE 1)

\* A thread whose indirect-branch table has entries looked at the generation
\* after it took its lease on the epoch.
Leases ==
    \A t \in Threads :
        /\ tlsGen[t] <= gen /\ seen[t] <= epoch
        /\ at[t] \notin {"sync", "bind"} => tlsGen[t] > seen[t] \/ \A b \in Blocks : ibl[t][b] = 0
        /\ at[t] \in (Looking \ {"sync", "bind"}) \cup Compiling => tlsGen[t] > seen[t]

\* A thread that has seen the generation of the last epoch has only published
\* blocks in its caches; one that has seen the last generation, no victim.
Caches ==
    \A t \in Threads : tlsGen[t] > epoch =>
        /\ \A b \in Blocks : /\ cache[t][b] # 0 => cache[t][b] = blocks[b]
                             /\ ibl[t][b] # 0 => ibl[t][b] = blocks[b]
        /\ at[t] \in {"chain", "fill"} => run[t] = blocks[want[t]]

Dropped ==
    \A t, u \in Threads : tlsGen[t] = gen /\ at[u] \in {"epoch", "retire"} =>
        \A b \in inv[u].victims : /\ cache[t][b] = 0 /\ ibl[t][b] = 0
                                  /\ at[t] \in {"chain", "fill"} => want[t] # b

\* Code that is no older than what thread t knows.
Good(t, x) == \A l \in obs[t] \cap Deps[pcOf[x]] : words[x][l] = mem[l]

\* What a lookup has found is good, though the table may have moved on.
Found ==
    \A t \in Threads :
        /\ at[t] = "look" => \A b \in Blocks : cache[t][b] # 0 => Good(t, cache[t][b])
        /\ at[t] \in {"chain", "fill", "lease", "bind"} => Good(t, run[t])

EnterInv == TableInv /\ Observed /\ Epochs /\ Leases /\ Caches /\ Dropped /\ Found

-----------------------------------------------------------------------------
LEMMA Facts ==
    /\ NoBlock \notin Blocks /\ 0 \notin Blocks /\ Blocks # {} /\ Values # {}
    /\ Deps \in [Blocks -> SUBSET Lines] /\ Target \in [Blocks -> Blocks]
    /\ Page \in [Lines -> SUBSET Lines] /\ \A l \in Lines : l \in Page[l] /\ Granule[l] \in Granules
    /\ Unread \notin Values /\ None \notin Threads
    /\ LogMax \in Nat /\ MaxCode \in Nat
  BY CodeAssumption DEF NoBlock, Granules

-----------------------------------------------------------------------------
(* Types, one group of variables at a time. *)

\* The translations made so far, and none.
Made == 0..made

MemT == /\ mem \in [Lines -> Values] /\ writes \in Nat
        /\ owed \in [Threads -> SUBSET Lines] /\ obs \in [Threads -> SUBSET Lines]
CodeT == /\ made \in 0..MaxCode
         /\ pcOf \in [Slots -> Blocks] /\ words \in [Slots -> [Lines -> Values \cup {Unread}]]
EdgeT == live \in SUBSET (Made \ {0}) /\ edge \in [Slots -> Made]
TabT == blocks \in [Blocks -> Made] /\ index \in [Granules -> SUBSET Blocks]
LockT == /\ writer \in Threads \cup {None} /\ readers \in SUBSET Threads
         /\ compiler \in Threads \cup {None}
CompT == /\ draft \in [Lines -> Values \cup {Unread}]
         /\ active \in BOOLEAN /\ overflow \in BOOLEAN
         /\ log \in Seq(SUBSET Lines) /\ Len(log) <= LogMax
GenT == gen \in Nat /\ epoch \in Nat
TlsT == /\ tlsGen \in [Threads -> Nat] /\ seen \in [Threads -> Nat]
        /\ cache \in [Threads -> [Blocks -> Made]] /\ ibl \in [Threads -> [Blocks -> Made]]
PlaceT == at \in [Threads -> Places] /\ want \in [Threads -> Blocks \cup {NoBlock}]
RunT == run \in [Threads -> Made] /\ ret \in [Threads -> Made]
InvT == inv \in [Threads -> Invs \cup {NoInv}]

Parts == MemT /\ CodeT /\ EdgeT /\ TabT /\ LockT /\ CompT /\ GenT /\ TlsT /\ PlaceT /\ RunT /\ InvT

LEMMA TypeSplit == ASSUME TypeOK PROVE Parts
  <1>1. 1..made = Made \ {0} BY DEF Made
  <1> QED
    BY <1>1 DEF Parts, TypeOK, Made, MemT, CodeT, EdgeT, TabT, LockT, CompT, GenT, TlsT, PlaceT,
         RunT, InvT

LEMMA TypeJoin == ASSUME Parts PROVE TypeOK
  <1>1. 1..made = Made \ {0} BY DEF Made
  <1> QED
    BY <1>1 DEF Parts, TypeOK, Made, MemT, CodeT, EdgeT, TabT, LockT, CompT, GenT, TlsT, PlaceT,
         RunT, InvT

LEMMA TypeJoinNext == ASSUME Parts' PROVE TypeOK'
  <1>1. 1..made' = Made' \ {0} BY DEF Made
  <1> QED
    BY <1>1 DEF Parts, TypeOK, Made, MemT, CodeT, EdgeT, TabT, LockT, CompT, GenT, TlsT, PlaceT,
         RunT, InvT

LEMMA MadeFacts == ASSUME CodeT PROVE 0 \in Made /\ Made \subseteq Slots \cup {0}
  BY CodeAssumption DEF CodeT, Made, Slots

\* Only an Emit makes more of them.
LEMMA MadeGrows == /\ made' = made => Made' = Made
                   /\ CodeT /\ made < MaxCode /\ made' = made + 1 =>
                        /\ Made \subseteq Made' /\ made' \in Made' /\ made' # 0 /\ made' \notin Made
                        /\ made' \in Slots
  BY CodeAssumption DEF CodeT, Made, Slots

LEMMA LinkedType ==
    ASSUME NEW S, NEW bs \in [Blocks -> S], NEW b \in Blocks, NEW lv,
           NEW pcs \in [Slots -> Blocks], edge \in [Slots -> S]
    PROVE  Linked(b, bs, lv, pcs) \in [Slots -> S]
  BY Facts DEF Linked

LEMMA VictimsType ==
    ASSUME TabT, NEW i \in Invs PROVE Victims(i.kind, i.range) \in SUBSET Blocks
  <1>1. i.range \in SUBSET Lines BY DEF Invs
  <1>2. \A g \in GranulesOf(i.range) : index[g] \subseteq Blocks
    BY <1>1 DEF GranulesOf, Granules, TabT
  <1>3. Candidates(i.range) \subseteq Blocks BY <1>2 DEF Candidates
  <1> QED BY <1>3 DEF Victims

LEMMA TypeStep == ASSUME Parts, Hands, Next PROVE Parts'
  <1> USE Facts, MadeFacts, MadeGrows DEF Parts
  <1>1. ASSUME NEW t \in Threads, NEW l \in Lines, NEW v \in Values, Write(t, l, v) PROVE Parts'
    <2>1. CodeT' /\ EdgeT' /\ TabT' /\ LockT' /\ CompT' /\ GenT' /\ TlsT' /\ PlaceT' /\ RunT' /\ InvT'
      BY <1>1 DEF Write, codeVars, edgeVars, tableVars, lockVars, compVars, genVars, tlsVars,
           threadVars, CodeT, EdgeT, TabT, LockT, CompT, GenT, TlsT, PlaceT, RunT, InvT
    <2>2. MemT'
      BY <1>1 DEF Write, memVars, MemT
    <2> QED BY <2>1, <2>2 DEF Parts
  <1>2. ASSUME NEW t \in Threads, Observe(t) PROVE Parts'
    <2>1. CodeT' /\ EdgeT' /\ TabT' /\ LockT' /\ CompT' /\ GenT' /\ TlsT' /\ PlaceT' /\ RunT' /\ InvT'
      BY <1>2 DEF Observe, codeVars, edgeVars, tableVars, lockVars, compVars, genVars, tlsVars,
           threadVars, CodeT, EdgeT, TabT, LockT, CompT, GenT, TlsT, PlaceT, RunT, InvT
    <2>2. MemT'
      BY <1>2 DEF Observe, memVars, MemT
    <2> QED BY <2>1, <2>2 DEF Parts
  <1>3. ASSUME NEW t \in Threads, Chain(t) PROVE Parts'
    <2>1. MemT' /\ CodeT' /\ EdgeT' /\ TabT' /\ LockT' /\ CompT' /\ GenT' /\ TlsT' /\ PlaceT' /\ InvT'
      BY <1>3 DEF Chain, memVars, codeVars, edgeVars, tableVars, lockVars, compVars, genVars,
           tlsVars, threadVars, MemT, CodeT, EdgeT, TabT, LockT, CompT, GenT, TlsT, PlaceT, InvT
    <2>2. RunT'
      BY <1>3 DEF Chain, threadVars, RunT, TlsT, TabT, EdgeT, codeVars
    <2> QED BY <2>1, <2>2 DEF Parts
  <1>4. ASSUME NEW t \in Threads, NEW b \in Blocks, Indirect(t, b) PROVE Parts'
    <2>1. MemT' /\ CodeT' /\ EdgeT' /\ TabT' /\ LockT' /\ CompT' /\ GenT' /\ TlsT' /\ PlaceT' /\ InvT'
      BY <1>4 DEF Indirect, memVars, codeVars, edgeVars, tableVars, lockVars, compVars, genVars,
           tlsVars, threadVars, MemT, CodeT, EdgeT, TabT, LockT, CompT, GenT, TlsT, PlaceT, InvT
    <2>2. RunT'
      BY <1>4 DEF Indirect, threadVars, RunT, TlsT, TabT, EdgeT, codeVars
    <2> QED BY <2>1, <2>2 DEF Parts
  <1>5. ASSUME NEW t \in Threads, NEW b \in Blocks, Call(t, b) PROVE Parts'
    <2>1. MemT' /\ CodeT' /\ EdgeT' /\ TabT' /\ LockT' /\ CompT' /\ GenT' /\ TlsT' /\ InvT'
      BY <1>5 DEF Call, Goto, memVars, codeVars, edgeVars, tableVars, lockVars, compVars, genVars,
           tlsVars, threadVars, MemT, CodeT, EdgeT, TabT, LockT, CompT, GenT, TlsT, InvT
    <2>2. PlaceT'
      BY <1>5 DEF Call, Goto, threadVars, PlaceT, Places, NoBlock
    <2>3. RunT'
      BY <1>5 DEF Call, Goto, threadVars, RunT, TlsT, TabT, EdgeT, codeVars
    <2> QED BY <2>1, <2>2, <2>3 DEF Parts
  <1>6. ASSUME NEW t \in Threads, Return(t) PROVE Parts'
    <2>1. MemT' /\ CodeT' /\ EdgeT' /\ TabT' /\ LockT' /\ CompT' /\ GenT' /\ TlsT' /\ PlaceT' /\ InvT'
      BY <1>6 DEF Return, memVars, codeVars, edgeVars, tableVars, lockVars, compVars, genVars,
           tlsVars, threadVars, MemT, CodeT, EdgeT, TabT, LockT, CompT, GenT, TlsT, PlaceT, InvT
    <2>2. RunT'
      BY <1>6 DEF Return, threadVars, RunT, TlsT, TabT, EdgeT, codeVars
    <2> QED BY <2>1, <2>2 DEF Parts
  <1>7. ASSUME NEW t \in Threads, NEW b \in Blocks, Dispatch(t, b) PROVE Parts'
    <2>1. MemT' /\ CodeT' /\ EdgeT' /\ TabT' /\ LockT' /\ CompT' /\ GenT' /\ InvT'
      BY <1>7 DEF Dispatch, Goto, memVars, codeVars, edgeVars, tableVars, lockVars, compVars,
           genVars, threadVars, MemT, CodeT, EdgeT, TabT, LockT, CompT, GenT, InvT
    <2>2. PlaceT'
      BY <1>7 DEF Dispatch, Goto, threadVars, PlaceT, Places, NoBlock
    <2>3. RunT'
      BY <1>7 DEF Dispatch, Goto, threadVars, RunT, TlsT, TabT, EdgeT, codeVars
    <2>4. TlsT'
      BY <1>7 DEF Dispatch, Goto, tlsVars, TlsT, GenT, RunT, PlaceT, Empty, codeVars
    <2> QED BY <2>1, <2>2, <2>3, <2>4 DEF Parts
  <1>8. ASSUME NEW t \in Threads, NEW kind \in Kinds, Invalidate(t, kind) PROVE Parts'
    <2>1. MemT' /\ CodeT' /\ EdgeT' /\ TabT' /\ LockT' /\ CompT' /\ GenT' /\ TlsT' /\ RunT'
      BY <1>8 DEF Invalidate, AfterLog, memVars, codeVars, edgeVars, tableVars, lockVars,
           compVars, genVars, tlsVars, threadVars, MemT, CodeT, EdgeT, TabT, LockT, CompT, GenT,
           TlsT, RunT
    <2>2. PlaceT'
      BY <1>8 DEF Invalidate, AfterLog, threadVars, PlaceT, Places, NoBlock
    <2>3. InvT'
      BY <1>8 DEF Invalidate, AfterLog, threadVars, InvT, Invs, NoInv, Range, Kinds, MemT
    <2> QED BY <2>1, <2>2, <2>3 DEF Parts
  <1>9. ASSUME NEW t \in Threads, Sync(t) PROVE Parts'
    <2>1. MemT' /\ CodeT' /\ EdgeT' /\ TabT' /\ LockT' /\ CompT' /\ GenT' /\ RunT' /\ InvT'
      BY <1>9 DEF Sync, Goto, sync_dispatch_cache, memVars, codeVars, edgeVars, tableVars,
           lockVars, compVars, genVars, threadVars, MemT, CodeT, EdgeT, TabT, LockT, CompT, GenT,
           RunT, InvT
    <2>2. PlaceT'
      BY <1>9 DEF Sync, Goto, sync_dispatch_cache, threadVars, PlaceT, Places, NoBlock
    <2>3. TlsT'
      BY <1>9 DEF Sync, Goto, sync_dispatch_cache, tlsVars, TlsT, GenT, RunT, PlaceT, Empty, codeVars
    <2> QED BY <2>1, <2>2, <2>3 DEF Parts
  <1>10. ASSUME NEW t \in Threads, LookCache(t) PROVE Parts'
    <2>1. MemT' /\ CodeT' /\ EdgeT' /\ TabT' /\ LockT' /\ CompT' /\ GenT' /\ InvT'
      BY <1>10 DEF LookCache, Leave, memVars, codeVars, edgeVars, tableVars, lockVars, compVars,
           genVars, threadVars, MemT, CodeT, EdgeT, TabT, LockT, CompT, GenT, InvT
    <2>2. PlaceT'
      BY <1>10 DEF LookCache, Leave, threadVars, PlaceT, Places, NoBlock
    <2>3. RunT'
      <3>1. want[t] \in Blocks BY <1>10 DEF LookCache, Hands, Looking, Compiling
      <3>2. cache[t][want[t]] \in Made BY <3>1 DEF TlsT
      <3>3. run' = [run EXCEPT ![t] = cache[t][want[t]]] /\ ret' = ret /\ made' = made
        BY <1>10 DEF LookCache, codeVars
      <3> QED BY <3>2, <3>3 DEF RunT
    <2>4. TlsT'
      BY <1>10 DEF LookCache, Leave, tlsVars, TlsT, GenT, RunT, PlaceT, Empty, codeVars
    <2> QED BY <2>1, <2>2, <2>3, <2>4 DEF Parts
  <1>11. ASSUME NEW t \in Threads, LookTable(t) PROVE Parts'
    <2>1. MemT' /\ CodeT' /\ EdgeT' /\ TabT' /\ LockT' /\ CompT' /\ GenT' /\ TlsT' /\ InvT'
      BY <1>11 DEF LookTable, memVars, codeVars, edgeVars, tableVars, lockVars, compVars, genVars,
           tlsVars, threadVars, MemT, CodeT, EdgeT, TabT, LockT, CompT, GenT, TlsT, InvT
    <2>2. PlaceT'
      BY <1>11 DEF LookTable, threadVars, PlaceT, Places, NoBlock
    <2>3. RunT'
      <3>1. want[t] \in Blocks BY <1>11 DEF LookTable, Hands, Looking, Compiling
      <3>2. blocks[want[t]] \in Made BY <3>1 DEF TabT
      <3> QED BY <1>11, <3>2 DEF LookTable, RunT, codeVars
    <2> QED BY <2>1, <2>2, <2>3 DEF Parts
  <1>12. ASSUME NEW t \in Threads, TryChain(t) PROVE Parts'
    <2>1. MemT' /\ CodeT' /\ TabT' /\ LockT' /\ CompT' /\ GenT' /\ TlsT' /\ RunT' /\ InvT'
      BY <1>12 DEF TryChain, Goto, Linked, memVars, codeVars, tableVars, lockVars, compVars,
           genVars, tlsVars, threadVars, MemT, CodeT, TabT, LockT, CompT, GenT, TlsT, RunT, InvT
    <2>2. PlaceT'
      BY <1>12 DEF TryChain, Goto, Linked, threadVars, PlaceT, Places, NoBlock
    <2>3. EdgeT'
      <3>1. want[t] \in Blocks BY <1>12 DEF TryChain, Goto, Hands, Looking, Compiling
      <3>2. live' = live /\ Made' = Made BY <1>12 DEF TryChain, codeVars
      <3>3. edge' = edge \/ edge' = Linked(want[t], blocks, live, pcOf) BY <1>12 DEF TryChain
      <3>4. Linked(want[t], blocks, live, pcOf) \in [Slots -> Made]
        BY <3>1, LinkedType DEF CodeT, TabT, EdgeT
      <3> QED BY <3>2, <3>3, <3>4 DEF EdgeT
    <2> QED BY <2>1, <2>2, <2>3 DEF Parts
  <1>13. ASSUME NEW t \in Threads, Fill(t) PROVE Parts'
    <2>1. MemT' /\ CodeT' /\ EdgeT' /\ TabT' /\ LockT' /\ CompT' /\ GenT' /\ RunT' /\ InvT'
      BY <1>13 DEF Fill, Leave, memVars, codeVars, edgeVars, tableVars, lockVars, compVars,
           genVars, threadVars, MemT, CodeT, EdgeT, TabT, LockT, CompT, GenT, RunT, InvT
    <2>2. PlaceT'
      BY <1>13 DEF Fill, Leave, threadVars, PlaceT, Places, NoBlock
    <2>3. TlsT'
      BY <1>13 DEF Fill, Leave, tlsVars, TlsT, GenT, RunT, PlaceT, Empty, codeVars
    <2> QED BY <2>1, <2>2, <2>3 DEF Parts
  <1>14. ASSUME NEW t \in Threads, Lease(t) PROVE Parts'
    <2>1. MemT' /\ CodeT' /\ EdgeT' /\ TabT' /\ LockT' /\ CompT' /\ GenT' /\ RunT' /\ InvT'
      BY <1>14 DEF Lease, Goto, memVars, codeVars, edgeVars, tableVars, lockVars, compVars,
           genVars, threadVars, MemT, CodeT, EdgeT, TabT, LockT, CompT, GenT, RunT, InvT
    <2>2. PlaceT'
      BY <1>14 DEF Lease, Goto, threadVars, PlaceT, Places, NoBlock
    <2>3. TlsT'
      BY <1>14 DEF Lease, Goto, tlsVars, TlsT, GenT, RunT, PlaceT, Empty, codeVars
    <2> QED BY <2>1, <2>2, <2>3 DEF Parts
  <1>15. ASSUME NEW t \in Threads, Bind(t) PROVE Parts'
    <2>1. MemT' /\ CodeT' /\ EdgeT' /\ TabT' /\ LockT' /\ CompT' /\ GenT' /\ RunT' /\ InvT'
      BY <1>15 DEF Bind, Leave, sync_dispatch_cache, memVars, codeVars, edgeVars, tableVars,
           lockVars, compVars, genVars, threadVars, MemT, CodeT, EdgeT, TabT, LockT, CompT, GenT,
           RunT, InvT
    <2>2. PlaceT'
      BY <1>15 DEF Bind, Leave, sync_dispatch_cache, threadVars, PlaceT, Places, NoBlock
    <2>3. TlsT'
      BY <1>15 DEF Bind, Leave, sync_dispatch_cache, tlsVars, TlsT, GenT, RunT, PlaceT, Empty, codeVars
    <2> QED BY <2>1, <2>2, <2>3 DEF Parts
  <1>16. ASSUME NEW t \in Threads, CompileLock(t) PROVE Parts'
    <2>1. MemT' /\ CodeT' /\ EdgeT' /\ TabT' /\ CompT' /\ GenT' /\ TlsT' /\ RunT' /\ InvT'
      BY <1>16 DEF CompileLock, Goto, memVars, codeVars, edgeVars, tableVars, compVars, genVars,
           tlsVars, threadVars, MemT, CodeT, EdgeT, TabT, CompT, GenT, TlsT, RunT, InvT
    <2>2. PlaceT'
      BY <1>16 DEF CompileLock, Goto, threadVars, PlaceT, Places, NoBlock
    <2>3. LockT'
      BY <1>16 DEF CompileLock, Goto, lockVars, LockT
    <2> QED BY <2>1, <2>2, <2>3 DEF Parts
  <1>17. ASSUME NEW t \in Threads, CompileLook(t) PROVE Parts'
    <2>1. MemT' /\ CodeT' /\ EdgeT' /\ TabT' /\ GenT' /\ TlsT' /\ InvT'
      BY <1>17 DEF CompileLook, memVars, codeVars, edgeVars, tableVars, genVars, tlsVars,
           threadVars, MemT, CodeT, EdgeT, TabT, GenT, TlsT, InvT
    <2>2. PlaceT'
      BY <1>17 DEF CompileLook, threadVars, PlaceT, Places, NoBlock
    <2>3. RunT'
      <3>1. want[t] \in Blocks BY <1>17 DEF CompileLook, Hands, Looking, Compiling
      <3>2. blocks[want[t]] \in Made BY <3>1 DEF TabT
      <3> QED BY <1>17, <3>2 DEF CompileLook, RunT, codeVars
    <2>4. LockT'
      BY <1>17 DEF CompileLook, lockVars, LockT
    <2>5. CompT'
      <3>1. draft' = draft /\ active' = active BY <1>17 DEF CompileLook
      <3>2. (log' = log /\ overflow' = overflow) \/ (log' = <<>> /\ overflow' = FALSE)
        BY <1>17 DEF CompileLook
      <3>3. <<>> \in Seq(SUBSET Lines) /\ Len(<<>>) <= LogMax OBVIOUS
      <3> QED BY <3>1, <3>2, <3>3 DEF CompT
    <2> QED BY <2>1, <2>2, <2>3, <2>4, <2>5 DEF Parts
  <1>18. ASSUME NEW t \in Threads, Arm(t) PROVE Parts'
    <2>1. MemT' /\ CodeT' /\ EdgeT' /\ TabT' /\ LockT' /\ GenT' /\ TlsT' /\ RunT' /\ InvT'
      BY <1>18 DEF Arm, Goto, memVars, codeVars, edgeVars, tableVars, lockVars, genVars, tlsVars,
           threadVars, MemT, CodeT, EdgeT, TabT, LockT, GenT, TlsT, RunT, InvT
    <2>2. PlaceT'
      BY <1>18 DEF Arm, Goto, threadVars, PlaceT, Places, NoBlock
    <2>3. CompT'
      BY <1>18 DEF Arm, Goto, compVars, CompT, MemT, InvT, Invs, NoInv, NoWords
    <2> QED BY <2>1, <2>2, <2>3 DEF Parts
  <1>19. ASSUME NEW t \in Threads, NEW l \in Lines, Fetch(t, l) PROVE Parts'
    <2>1. MemT' /\ CodeT' /\ EdgeT' /\ TabT' /\ LockT' /\ GenT' /\ TlsT' /\ PlaceT' /\ RunT' /\ InvT'
      BY <1>19 DEF Fetch, Missing, memVars, codeVars, edgeVars, tableVars, lockVars, genVars,
           tlsVars, threadVars, MemT, CodeT, EdgeT, TabT, LockT, GenT, TlsT, PlaceT, RunT, InvT
    <2>2. CompT'
      BY <1>19 DEF Fetch, Missing, compVars, CompT, MemT, InvT, Invs, NoInv, NoWords
    <2> QED BY <2>1, <2>2 DEF Parts
  <1>20. ASSUME NEW t \in Threads, Stage(t) PROVE Parts'
    <2>1. MemT' /\ CompT' /\ GenT' /\ InvT'
      BY <1>20 DEF Stage, Goto, Emit, memVars, compVars, genVars, threadVars, MemT, CompT, GenT, InvT
    <2>2. PlaceT'
      BY <1>20 DEF Stage, Goto, Emit, threadVars, PlaceT, Places, NoBlock
    <2>3. CodeT'
      <3>1. want[t] \in Blocks BY <1>20 DEF Stage, Goto, Hands, Looking, Compiling
      <3>2. made' \in 0..MaxCode /\ made' \in Slots BY <1>20 DEF Stage, Emit, CodeT
      <3>3. pcOf' = [pcOf EXCEPT ![made'] = want[t]] /\ words' = [words EXCEPT ![made'] = draft]
        BY <1>20 DEF Stage, Emit
      <3> QED BY <3>1, <3>2, <3>3 DEF CodeT, CompT
    <2>4. EdgeT'
      BY <1>20 DEF Stage, Goto, Emit, edgeVars, EdgeT, TabT, PlaceT, RunT, codeVars
    <2>5. TabT'
      BY <1>20 DEF Stage, Goto, Emit, tableVars, TabT, RunT, PlaceT, codeVars
    <2>6. LockT'
      BY <1>20 DEF Stage, Goto, Emit, lockVars, LockT
    <2>7. RunT'
      BY <1>20 DEF Stage, Goto, Emit, threadVars, RunT, TlsT, TabT, EdgeT, codeVars
    <2>8. TlsT'
      BY <1>20 DEF Stage, Goto, Emit, tlsVars, TlsT, GenT, RunT, PlaceT, Empty, codeVars
    <2> QED BY <2>1, <2>2, <2>3, <2>4, <2>5, <2>6, <2>7, <2>8 DEF Parts
  <1>21. ASSUME NEW t \in Threads, StageNothing(t) PROVE Parts'
    <2>1. MemT' /\ CodeT' /\ EdgeT' /\ TabT' /\ CompT' /\ GenT' /\ TlsT' /\ RunT' /\ InvT'
      BY <1>21 DEF StageNothing, Goto, memVars, codeVars, edgeVars, tableVars, compVars, genVars,
           tlsVars, threadVars, MemT, CodeT, EdgeT, TabT, CompT, GenT, TlsT, RunT, InvT
    <2>2. PlaceT'
      BY <1>21 DEF StageNothing, Goto, threadVars, PlaceT, Places, NoBlock
    <2>3. LockT'
      BY <1>21 DEF StageNothing, Goto, lockVars, LockT
    <2> QED BY <2>1, <2>2, <2>3 DEF Parts
  <1>22. ASSUME NEW t \in Threads, PublishLock(t) PROVE Parts'
    <2>1. MemT' /\ CodeT' /\ EdgeT' /\ TabT' /\ GenT' /\ TlsT' /\ RunT' /\ InvT'
      BY <1>22 DEF PublishLock, Goto, memVars, codeVars, edgeVars, tableVars, genVars, tlsVars,
           threadVars, MemT, CodeT, EdgeT, TabT, GenT, TlsT, RunT, InvT
    <2>2. PlaceT'
      BY <1>22 DEF PublishLock, Goto, threadVars, PlaceT, Places, NoBlock
    <2>3. LockT'
      BY <1>22 DEF PublishLock, Goto, lockVars, LockT
    <2>4. CompT'
      BY <1>22 DEF PublishLock, Goto, compVars, CompT, MemT, InvT, Invs, NoInv, NoWords
    <2> QED BY <2>1, <2>2, <2>3, <2>4 DEF Parts
  <1>23. ASSUME NEW t \in Threads, PublishNothing(t) PROVE Parts'
    <2>1. MemT' /\ CodeT' /\ EdgeT' /\ TabT' /\ GenT' /\ TlsT' /\ InvT'
      BY <1>23 DEF PublishNothing, CompileEnds, Leave, memVars, codeVars, edgeVars, tableVars,
           genVars, tlsVars, threadVars, MemT, CodeT, EdgeT, TabT, GenT, TlsT, InvT
    <2>2. PlaceT'
      BY <1>23 DEF PublishNothing, CompileEnds, Leave, threadVars, PlaceT, Places, NoBlock
    <2>3. LockT'
      BY <1>23 DEF PublishNothing, CompileEnds, Leave, lockVars, LockT
    <2>4. CompT'
      BY <1>23 DEF PublishNothing, CompileEnds, Leave, compVars, CompT, MemT, InvT, Invs, NoInv, NoWords
    <2>5. RunT'
      BY <1>23 DEF PublishNothing, CompileEnds, Leave, threadVars, RunT, TlsT, TabT, EdgeT, codeVars
    <2> QED BY <2>1, <2>2, <2>3, <2>4, <2>5 DEF Parts
  <1>24. ASSUME NEW t \in Threads, PublishStaged(t) PROVE Parts'
    <2>1. MemT' /\ CodeT' /\ GenT' /\ TlsT' /\ InvT'
      BY <1>24 DEF PublishStaged, Publish, Linked, CompileEnds, Leave, memVars, codeVars, genVars,
           tlsVars, threadVars, MemT, CodeT, GenT, TlsT, InvT
    <2>2. PlaceT'
      BY <1>24 DEF PublishStaged, Publish, Linked, CompileEnds, Leave, threadVars, PlaceT, Places,
           NoBlock
    <2>3. EdgeT'
      <3>1. want[t] \in Blocks BY <1>24 DEF PublishStaged, Hands, Looking, Compiling
      <3> DEFINE bs == [blocks EXCEPT ![want[t]] = run[t]]
      <3>2. live' = live /\ Made' = Made /\ edge' = Linked(want[t], bs, live, pcOf)
        BY <1>24 DEF PublishStaged, Publish, codeVars
      <3>3. bs \in [Blocks -> Made] BY DEF TabT, RunT
      <3> HIDE DEF bs
      <3>4. Linked(want[t], bs, live, pcOf) \in [Slots -> Made]
        BY <3>1, <3>3, LinkedType DEF CodeT, EdgeT
      <3> QED BY <3>2, <3>4 DEF EdgeT
    <2>4. TabT'
      <3>1. want[t] \in Blocks BY <1>24 DEF PublishStaged, Hands, Looking, Compiling
      <3>2. blocks' = [blocks EXCEPT ![want[t]] = run[t]] /\ Made' = Made
        BY <1>24 DEF PublishStaged, Publish, codeVars
      <3>3. index' \in [Granules -> SUBSET Blocks]
        BY <1>24, <3>1 DEF PublishStaged, Publish, TabT
      <3> QED BY <3>2, <3>3 DEF TabT, RunT
    <2>5. LockT'
      BY <1>24 DEF PublishStaged, Publish, Linked, CompileEnds, Leave, lockVars, LockT
    <2>6. CompT'
      BY <1>24 DEF PublishStaged, Publish, Linked, CompileEnds, Leave, compVars, CompT, MemT,
           InvT, Invs, NoInv, NoWords
    <2>7. RunT'
      BY <1>24 DEF PublishStaged, Publish, Linked, CompileEnds, Leave, threadVars, RunT, TlsT,
           TabT, EdgeT, codeVars
    <2> QED BY <2>1, <2>2, <2>3, <2>4, <2>5, <2>6, <2>7 DEF Parts
  <1>25. ASSUME NEW t \in Threads, PublishStale(t) PROVE Parts'
    <2>1. MemT' /\ CodeT' /\ TabT' /\ LockT' /\ GenT' /\ TlsT' /\ InvT'
      BY <1>25 DEF PublishStale, Goto, memVars, codeVars, tableVars, lockVars, genVars, tlsVars,
           threadVars, MemT, CodeT, TabT, LockT, GenT, TlsT, InvT
    <2>2. PlaceT'
      BY <1>25 DEF PublishStale, Goto, threadVars, PlaceT, Places, NoBlock
    <2>3. EdgeT'
      BY <1>25 DEF PublishStale, Goto, edgeVars, EdgeT, TabT, PlaceT, RunT, codeVars
    <2>4. CompT'
      BY <1>25 DEF PublishStale, Goto, compVars, CompT, MemT, InvT, Invs, NoInv, NoWords
    <2>5. RunT'
      BY <1>25 DEF PublishStale, Goto, threadVars, RunT, TlsT, TabT, EdgeT, codeVars
    <2> QED BY <2>1, <2>2, <2>3, <2>4, <2>5 DEF Parts
  <1>26. ASSUME NEW t \in Threads, Retry(t) PROVE Parts'
    <2>1. MemT' /\ GenT' /\ InvT'
      BY <1>26 DEF Retry, Emit, Publish, Linked, CompileEnds, Leave, memVars, genVars, threadVars,
           MemT, GenT, InvT
    <2>2. PlaceT'
      BY <1>26 DEF Retry, Emit, Publish, Linked, CompileEnds, Leave, threadVars, PlaceT, Places, NoBlock
    <2>3. CodeT'
      <3>1. want[t] \in Blocks BY <1>26 DEF Retry, Hands, Looking, Compiling
      <3>2. made' \in 0..MaxCode /\ made' \in Slots BY <1>26 DEF Retry, Emit, CodeT
      <3>3. pcOf' = [pcOf EXCEPT ![made'] = want[t]] /\ words' = [words EXCEPT ![made'] = draft]
        BY <1>26 DEF Retry, Emit
      <3> QED BY <3>1, <3>2, <3>3 DEF CodeT, CompT
    <2>4. EdgeT'
      <3>1. want[t] \in Blocks BY <1>26 DEF Retry, Hands, Looking, Compiling
      <3> DEFINE bs == [blocks EXCEPT ![want[t]] = made']
      <3>2. live' = live \cup {made'} /\ edge' = Linked(want[t], bs, live', pcOf')
        BY <1>26 DEF Retry, Emit, Publish
      <3>3. Made \subseteq Made' /\ made' \in Made' \ {0} BY <1>26 DEF Retry, Emit
      <3>4. bs \in [Blocks -> Made'] /\ edge \in [Slots -> Made'] BY <3>3 DEF TabT, EdgeT
      <3> HIDE DEF bs
      <3>5. Linked(want[t], bs, live', pcOf') \in [Slots -> Made']
        BY <2>3, <3>1, <3>4, LinkedType DEF CodeT
      <3>6. live' \in SUBSET (Made' \ {0}) BY <3>2, <3>3 DEF EdgeT
      <3> QED BY <3>2, <3>5, <3>6 DEF EdgeT
    <2>5. TabT'
      <3>1. want[t] \in Blocks BY <1>26 DEF Retry, Hands, Looking, Compiling
      <3>2. blocks' = [blocks EXCEPT ![want[t]] = made']
        BY <1>26 DEF Retry, Emit, Publish
      <3>3. Made \subseteq Made' /\ made' \in Made' BY <1>26 DEF Retry, Emit
      <3>4. index' \in [Granules -> SUBSET Blocks]
        BY <1>26, <3>1 DEF Retry, Publish, TabT
      <3> QED BY <3>2, <3>3, <3>4 DEF TabT
    <2>6. LockT'
      BY <1>26 DEF Retry, Emit, Publish, Linked, CompileEnds, Leave, lockVars, LockT
    <2>7. CompT'
      BY <1>26 DEF Retry, Emit, Publish, Linked, CompileEnds, Leave, compVars, CompT, MemT, InvT,
           Invs, NoInv, NoWords
    <2>8. RunT'
      BY <1>26 DEF Retry, Emit, Publish, Linked, CompileEnds, Leave, threadVars, RunT, TlsT, TabT,
           EdgeT, codeVars
    <2>9. TlsT'
      BY <1>26 DEF Retry, Emit, Publish, Linked, CompileEnds, Leave, tlsVars, TlsT, GenT, RunT,
           PlaceT, Empty, codeVars
    <2> QED BY <2>1, <2>2, <2>3, <2>4, <2>5, <2>6, <2>7, <2>8, <2>9 DEF Parts
  <1>27. ASSUME NEW t \in Threads, RetryNothing(t) PROVE Parts'
    <2>1. MemT' /\ CodeT' /\ EdgeT' /\ TabT' /\ GenT' /\ TlsT' /\ InvT'
      BY <1>27 DEF RetryNothing, CompileEnds, Leave, memVars, codeVars, edgeVars, tableVars,
           genVars, tlsVars, threadVars, MemT, CodeT, EdgeT, TabT, GenT, TlsT, InvT
    <2>2. PlaceT'
      BY <1>27 DEF RetryNothing, CompileEnds, Leave, threadVars, PlaceT, Places, NoBlock
    <2>3. LockT'
      BY <1>27 DEF RetryNothing, CompileEnds, Leave, lockVars, LockT
    <2>4. CompT'
      BY <1>27 DEF RetryNothing, CompileEnds, Leave, compVars, CompT, MemT, InvT, Invs, NoInv, NoWords
    <2>5. RunT'
      BY <1>27 DEF RetryNothing, CompileEnds, Leave, threadVars, RunT, TlsT, TabT, EdgeT, codeVars
    <2> QED BY <2>1, <2>2, <2>3, <2>4, <2>5 DEF Parts
  <1>28. ASSUME NEW t \in Threads, InvLog(t) PROVE Parts'
    <2>1. MemT' /\ CodeT' /\ EdgeT' /\ TabT' /\ LockT' /\ GenT' /\ TlsT' /\ RunT' /\ InvT'
      BY <1>28 DEF InvLog, Goto, AfterLog, memVars, codeVars, edgeVars, tableVars, lockVars,
           genVars, tlsVars, threadVars, MemT, CodeT, EdgeT, TabT, LockT, GenT, TlsT, RunT, InvT
    <2>2. PlaceT'
      BY <1>28 DEF InvLog, Goto, AfterLog, threadVars, PlaceT, Places, NoBlock
    <2>3. CompT'
      <3>1. inv[t].range \in SUBSET Lines BY DEF InvT, Invs, NoInv
      <3>2. draft' = draft /\ active' = active BY <1>28 DEF InvLog
      <3>3. CASE Len(log) < LogMax
        <4>1. log' = Append(log, inv[t].range) /\ overflow' = overflow BY <1>28, <3>3 DEF InvLog
        <4>2. log' \in Seq(SUBSET Lines) /\ Len(log') = Len(log) + 1 BY <3>1, <4>1 DEF CompT
        <4>3. Len(log') <= LogMax BY <3>3, <4>2 DEF CompT
        <4> QED BY <3>2, <4>1, <4>2, <4>3 DEF CompT
      <3>4. CASE ~(Len(log) < LogMax)
        <4>1. log' = log /\ overflow' = TRUE BY <1>28, <3>4 DEF InvLog
        <4> QED BY <3>2, <4>1 DEF CompT
      <3> QED BY <3>3, <3>4
    <2> QED BY <2>1, <2>2, <2>3 DEF Parts
  <1>29. ASSUME NEW t \in Threads, InvFilter(t) PROVE Parts'
    <2>1. CodeT' /\ EdgeT' /\ TabT' /\ LockT' /\ CompT' /\ GenT' /\ TlsT' /\ RunT'
      BY <1>29 DEF InvFilter, InvEnds, codeVars, edgeVars, tableVars, lockVars, compVars, genVars,
           tlsVars, threadVars, CodeT, EdgeT, TabT, LockT, CompT, GenT, TlsT, RunT
    <2>2. PlaceT'
      BY <1>29 DEF InvFilter, InvEnds, threadVars, PlaceT, Places, NoBlock
    <2>3. MemT'
      BY <1>29 DEF InvFilter, InvEnds, memVars, MemT
    <2>4. InvT'
      BY <1>29 DEF InvFilter, InvEnds, threadVars, InvT, Invs, NoInv
    <2> QED BY <2>1, <2>2, <2>3, <2>4 DEF Parts
  <1>30. ASSUME NEW t \in Threads, InvLock(t) PROVE Parts'
    <2>1. CodeT' /\ EdgeT' /\ CompT' /\ GenT' /\ TlsT' /\ RunT'
      BY <1>30 DEF InvLock, InvEnds, codeVars, edgeVars, compVars, genVars, tlsVars, threadVars,
           CodeT, EdgeT, CompT, GenT, TlsT, RunT
    <2>2. PlaceT'
      BY <1>30 DEF InvLock, InvEnds, threadVars, PlaceT, Places, NoBlock
    <2>3. MemT'
      BY <1>30 DEF InvLock, InvEnds, memVars, MemT
    <2>4. InvT'
      <3>1. inv[t] \in Invs BY <1>30 DEF InvLock, Hands, Invalidating, Late
      <3>2. Victims(inv[t].kind, inv[t].range) \in SUBSET Blocks
        BY <3>1, VictimsType
      <3>3. \/ inv' = [inv EXCEPT ![t] = NoInv]
            \/ inv' = [inv EXCEPT ![t].victims = Victims(inv[t].kind, inv[t].range)]
        BY <1>30 DEF InvLock, InvEnds
      <3> QED BY <3>1, <3>2, <3>3 DEF InvT, Invs
    <2>5. TabT'
      BY <1>30 DEF InvLock, InvEnds, tableVars, TabT, RunT, PlaceT, codeVars, Pruned
    <2>6. LockT'
      BY <1>30 DEF InvLock, InvEnds, lockVars, LockT
    <2> QED BY <2>1, <2>2, <2>3, <2>4, <2>5, <2>6 DEF Parts
  <1>31. ASSUME NEW t \in Threads, InvGen(t) PROVE Parts'
    <2>1. MemT' /\ CodeT' /\ EdgeT' /\ TabT' /\ LockT' /\ CompT' /\ TlsT' /\ RunT' /\ InvT'
      BY <1>31 DEF InvGen, Goto, memVars, codeVars, edgeVars, tableVars, lockVars, compVars,
           tlsVars, threadVars, MemT, CodeT, EdgeT, TabT, LockT, CompT, TlsT, RunT, InvT
    <2>2. PlaceT'
      BY <1>31 DEF InvGen, Goto, threadVars, PlaceT, Places, NoBlock
    <2>3. GenT'
      BY <1>31 DEF InvGen, Goto, genVars, GenT
    <2> QED BY <2>1, <2>2, <2>3 DEF Parts
  <1>32. ASSUME NEW t \in Threads, InvEpoch(t) PROVE Parts'
    <2>1. MemT' /\ CodeT' /\ EdgeT' /\ TabT' /\ LockT' /\ CompT' /\ TlsT' /\ RunT' /\ InvT'
      BY <1>32 DEF InvEpoch, Goto, memVars, codeVars, edgeVars, tableVars, lockVars, compVars,
           tlsVars, threadVars, MemT, CodeT, EdgeT, TabT, LockT, CompT, TlsT, RunT, InvT
    <2>2. PlaceT'
      BY <1>32 DEF InvEpoch, Goto, threadVars, PlaceT, Places, NoBlock
    <2>3. GenT'
      BY <1>32 DEF InvEpoch, Goto, genVars, GenT
    <2> QED BY <2>1, <2>2, <2>3 DEF Parts
  <1>33. ASSUME NEW t \in Threads, InvRetire(t) PROVE Parts'
    <2>1. CodeT' /\ CompT' /\ GenT' /\ RunT'
      BY <1>33 DEF InvRetire, InvEnds, codeVars, compVars, genVars, threadVars, CodeT, CompT, GenT, RunT
    <2>2. PlaceT'
      BY <1>33 DEF InvRetire, InvEnds, threadVars, PlaceT, Places, NoBlock
    <2>3. MemT'
      BY <1>33 DEF InvRetire, InvEnds, memVars, MemT
    <2>4. InvT'
      BY <1>33 DEF InvRetire, InvEnds, threadVars, InvT, Invs, NoInv
    <2>5. TabT'
      BY <1>33 DEF InvRetire, InvEnds, tableVars, TabT, RunT, PlaceT, codeVars
    <2>6. EdgeT'
      BY <1>33 DEF InvRetire, InvEnds, edgeVars, EdgeT, TabT, PlaceT, RunT, codeVars, Out, Into,
           InvT, Invs, NoInv
    <2>7. TlsT'
      BY <1>33 DEF InvRetire, InvEnds, tlsVars, TlsT, GenT, RunT, PlaceT, Empty, codeVars
    <2>8. LockT'
      BY <1>33 DEF InvRetire, InvEnds, lockVars, LockT
    <2> QED BY <2>1, <2>2, <2>3, <2>4, <2>5, <2>6, <2>7, <2>8 DEF Parts
  <1> QED
    BY <1>1, <1>2, <1>3, <1>4, <1>5, <1>6, <1>7, <1>8, <1>9, <1>10, <1>11, <1>12, <1>13, <1>14,
         <1>15, <1>16, <1>17, <1>18, <1>19, <1>20, <1>21, <1>22, <1>23, <1>24, <1>25, <1>26,
         <1>27, <1>28, <1>29, <1>30, <1>31, <1>32, <1>33
       DEF Next, Guest, Lookup, Compile, Invalidation

-----------------------------------------------------------------------------
(* The locks. *)

LEMMA OneHolder ==
    ASSUME Locks, NEW t \in Threads, NEW u \in Threads
    PROVE  /\ at[t] \in Exclusive /\ at[u] \in Exclusive => t = u
           /\ at[t] \in Compiling /\ at[u] \in Compiling => t = u
  BY DEF Locks

LEMMA LocksStep == ASSUME Parts, Locks, Next PROVE Locks'
  <1> USE Facts DEF Parts
  <1>1. ASSUME UNCHANGED <<at, writer, readers, compiler, active>> PROVE Locks'
    BY <1>1 DEF Locks, Exclusive, Compiling, PlaceT, LockT
  <1>2. ASSUME NEW t \in Threads, NEW b \in Blocks, Call(t, b) PROVE Locks'
    BY <1>2 DEF Call, Goto, lockVars, compVars, threadVars, Locks, Exclusive, Compiling, PlaceT, LockT
  <1>3. ASSUME NEW t \in Threads, NEW b \in Blocks, Dispatch(t, b) PROVE Locks'
    BY <1>3 DEF Dispatch, Goto, lockVars, compVars, threadVars, Locks, Exclusive, Compiling, PlaceT,
           LockT
  <1>4. ASSUME NEW t \in Threads, NEW kind \in Kinds, Invalidate(t, kind) PROVE Locks'
    BY <1>4 DEF Invalidate, AfterLog, lockVars, compVars, threadVars, Locks, Exclusive, Compiling,
           PlaceT, LockT
  <1>5. ASSUME NEW t \in Threads, Sync(t) PROVE Locks'
    BY <1>5 DEF Sync, Goto, sync_dispatch_cache, lockVars, compVars, threadVars, Locks, Exclusive,
           Compiling, PlaceT, LockT
  <1>6. ASSUME NEW t \in Threads, LookCache(t) PROVE Locks'
    BY <1>6 DEF LookCache, Leave, lockVars, compVars, threadVars, Locks, Exclusive, Compiling, PlaceT,
           LockT
  <1>7. ASSUME NEW t \in Threads, LookTable(t) PROVE Locks'
    BY <1>7 DEF LookTable, lockVars, compVars, threadVars, Locks, Exclusive, Compiling, PlaceT, LockT
  <1>8. ASSUME NEW t \in Threads, TryChain(t) PROVE Locks'
    BY <1>8 DEF TryChain, Goto, Linked, lockVars, compVars, threadVars, Locks, Exclusive, Compiling,
           PlaceT, LockT
  <1>9. ASSUME NEW t \in Threads, Fill(t) PROVE Locks'
    BY <1>9 DEF Fill, Leave, lockVars, compVars, threadVars, Locks, Exclusive, Compiling, PlaceT,
           LockT
  <1>10. ASSUME NEW t \in Threads, Lease(t) PROVE Locks'
    BY <1>10 DEF Lease, Goto, lockVars, compVars, threadVars, Locks, Exclusive, Compiling, PlaceT,
           LockT
  <1>11. ASSUME NEW t \in Threads, Bind(t) PROVE Locks'
    BY <1>11 DEF Bind, Leave, sync_dispatch_cache, lockVars, compVars, threadVars, Locks, Exclusive,
           Compiling, PlaceT, LockT
  <1>12. ASSUME NEW t \in Threads, CompileLock(t) PROVE Locks'
    BY <1>12 DEF CompileLock, Goto, lockVars, compVars, threadVars, Locks, Exclusive, Compiling,
           PlaceT, LockT
  <1>13. ASSUME NEW t \in Threads, CompileLook(t) PROVE Locks'
    <2>1. CASE blocks[want[t]] = 0
      <3>1. /\ at[t] = "clook" /\ at' = [at EXCEPT ![t] = "arm"] /\ readers' = readers \cup {t}
            /\ writer = None /\ UNCHANGED <<writer, compiler, active>>
        BY <1>13, <2>1 DEF CompileLook, SharedFree
      <3> QED BY <3>1 DEF Locks, Exclusive, Compiling, PlaceT, LockT
    <2>2. CASE blocks[want[t]] # 0
      <3>1. /\ at[t] = "clook" /\ at' = [at EXCEPT ![t] = "fill"] /\ compiler' = None
            /\ UNCHANGED <<writer, readers, active>>
        BY <1>13, <2>2 DEF CompileLook
      <3> QED BY <3>1 DEF Locks, Exclusive, Compiling, PlaceT, LockT
    <2> QED BY <2>1, <2>2
  <1>14. ASSUME NEW t \in Threads, Arm(t) PROVE Locks'
    BY <1>14 DEF Arm, Goto, lockVars, compVars, threadVars, Locks, Exclusive, Compiling, PlaceT, LockT
  <1>15. ASSUME NEW t \in Threads, Stage(t) PROVE Locks'
    BY <1>15 DEF Stage, Goto, Emit, lockVars, compVars, threadVars, Locks, Exclusive, Compiling,
           PlaceT, LockT
  <1>16. ASSUME NEW t \in Threads, StageNothing(t) PROVE Locks'
    BY <1>16 DEF StageNothing, Goto, lockVars, compVars, threadVars, Locks, Exclusive, Compiling,
           PlaceT, LockT
  <1>17. ASSUME NEW t \in Threads, PublishLock(t) PROVE Locks'
    <2>1. /\ at[t] = "plock" /\ at' = [at EXCEPT ![t] = "pcheck"] /\ writer = None /\ readers = {}
          /\ writer' = t /\ active' = FALSE /\ UNCHANGED <<readers, compiler>>
      BY <1>17 DEF PublishLock, Goto, ExclusiveFree
    <2>2. \A u \in Threads : at[u] \in Compiling => u = t
      BY <2>1, OneHolder DEF Compiling
    <2>3. \A u \in Threads : at'[u] \notin {"read", "plock"}
      BY <2>1, <2>2 DEF Compiling, PlaceT
    <2>4. \A u \in Threads : at[u] \notin Exclusive
      BY <2>1 DEF Locks
    <2> QED BY <2>1, <2>3, <2>4 DEF Locks, Exclusive, Compiling, PlaceT, LockT
  <1>18. ASSUME NEW t \in Threads, PublishNothing(t) PROVE Locks'
    BY <1>18 DEF PublishNothing, CompileEnds, Leave, lockVars, compVars, threadVars, Locks, Exclusive,
           Compiling, PlaceT, LockT
  <1>19. ASSUME NEW t \in Threads, PublishStaged(t) PROVE Locks'
    BY <1>19 DEF PublishStaged, Publish, Linked, CompileEnds, Leave, lockVars, compVars, threadVars,
           Locks, Exclusive, Compiling, PlaceT, LockT
  <1>20. ASSUME NEW t \in Threads, PublishStale(t) PROVE Locks'
    BY <1>20 DEF PublishStale, Goto, lockVars, compVars, threadVars, Locks, Exclusive, Compiling,
           PlaceT, LockT
  <1>21. ASSUME NEW t \in Threads, Retry(t) PROVE Locks'
    BY <1>21 DEF Retry, Emit, Publish, Linked, CompileEnds, Leave, lockVars, compVars, threadVars,
           Locks, Exclusive, Compiling, PlaceT, LockT
  <1>22. ASSUME NEW t \in Threads, RetryNothing(t) PROVE Locks'
    BY <1>22 DEF RetryNothing, CompileEnds, Leave, lockVars, compVars, threadVars, Locks, Exclusive,
           Compiling, PlaceT, LockT
  <1>23. ASSUME NEW t \in Threads, InvLog(t) PROVE Locks'
    BY <1>23 DEF InvLog, Goto, AfterLog, lockVars, compVars, threadVars, Locks, Exclusive, Compiling,
           PlaceT, LockT
  <1>24. ASSUME NEW t \in Threads, InvFilter(t) PROVE Locks'
    BY <1>24 DEF InvFilter, InvEnds, lockVars, compVars, threadVars, Locks, Exclusive, Compiling,
           PlaceT, LockT
  <1>25. ASSUME NEW t \in Threads, InvLock(t) PROVE Locks'
    <2>1. /\ at[t] = "ilock" /\ writer = None /\ readers = {}
          /\ \/ at' = [at EXCEPT ![t] = "guest"] /\ writer' = writer
             \/ at' = [at EXCEPT ![t] = "gen"] /\ writer' = t
          /\ UNCHANGED <<readers, compiler, active>>
      BY <1>25 DEF InvLock, InvEnds, ExclusiveFree, compVars
    <2> QED BY <2>1 DEF Locks, Exclusive, Compiling, PlaceT, LockT
  <1>26. ASSUME NEW t \in Threads, InvGen(t) PROVE Locks'
    BY <1>26 DEF InvGen, Goto, lockVars, compVars, threadVars, Locks, Exclusive, Compiling, PlaceT,
           LockT
  <1>27. ASSUME NEW t \in Threads, InvEpoch(t) PROVE Locks'
    BY <1>27 DEF InvEpoch, Goto, lockVars, compVars, threadVars, Locks, Exclusive, Compiling, PlaceT,
           LockT
  <1>28. ASSUME NEW t \in Threads, InvRetire(t) PROVE Locks'
    BY <1>28 DEF InvRetire, InvEnds, lockVars, compVars, threadVars, Locks, Exclusive, Compiling,
           PlaceT, LockT
  <1>29. ASSUME NEW t \in Threads, (\E l \in Lines, v \in Values : Write(t, l, v)) \/ Observe(t) \/
               Chain(t) \/ (\E b \in Blocks : Indirect(t, b)) \/ Return(t) \/ (\E l \in Lines :
               Fetch(t, l))
        PROVE  Locks'
    BY <1>29, <1>1 DEF Write, Observe, Chain, Indirect, Return, Fetch, lockVars, compVars, threadVars
  <1> QED BY <1>1, <1>2, <1>3, <1>4, <1>5, <1>6, <1>7, <1>8, <1>9, <1>10, <1>11, <1>12, <1>13,
            <1>14, <1>15, <1>16, <1>17, <1>18, <1>19, <1>20, <1>21, <1>22, <1>23, <1>24, <1>25,
            <1>26, <1>27, <1>28, <1>29 DEF Next, Guest, Lookup, Compile, Invalidation

-----------------------------------------------------------------------------
(* What the threads have in hand. *)

LEMMA HandsStep == ASSUME Parts, Locks, Hands, Next PROVE Hands'
  <1> USE Facts DEF Parts
  <1>1. ASSUME UNCHANGED <<at, want, inv, owed, run, blocks>> PROVE Hands'
    BY <1>1 DEF Hands, Looking, Compiling, Drafting, Invalidating, Late, Retiring, PlaceT, RunT,
         InvT, MemT
  <1>2. ASSUME NEW t \in Threads, NEW l \in Lines, NEW v \in Values, Write(t, l, v) PROVE Hands'
    BY <1>2 DEF Write, memVars, tableVars, threadVars, Hands, Looking, Compiling, Drafting,
           Invalidating, Late, Retiring, PlaceT, RunT, InvT, MemT
  <1>3. ASSUME NEW t \in Threads, Chain(t) PROVE Hands'
    BY <1>3 DEF Chain, memVars, tableVars, threadVars, Hands, Looking, Compiling, Drafting,
           Invalidating, Late, Retiring, PlaceT, RunT, InvT, MemT
  <1>4. ASSUME NEW t \in Threads, NEW b \in Blocks, Indirect(t, b) PROVE Hands'
    BY <1>4 DEF Indirect, memVars, tableVars, threadVars, Hands, Looking, Compiling, Drafting,
           Invalidating, Late, Retiring, PlaceT, RunT, InvT, MemT
  <1>5. ASSUME NEW t \in Threads, NEW b \in Blocks, Call(t, b) PROVE Hands'
    BY <1>5 DEF Call, Goto, memVars, tableVars, threadVars, Hands, Looking, Compiling, Drafting,
           Invalidating, Late, Retiring, PlaceT, RunT, InvT, MemT
  <1>6. ASSUME NEW t \in Threads, Return(t) PROVE Hands'
    BY <1>6 DEF Return, memVars, tableVars, threadVars, Hands, Looking, Compiling, Drafting,
           Invalidating, Late, Retiring, PlaceT, RunT, InvT, MemT
  <1>7. ASSUME NEW t \in Threads, NEW b \in Blocks, Dispatch(t, b) PROVE Hands'
    BY <1>7 DEF Dispatch, Goto, memVars, tableVars, threadVars, Hands, Looking, Compiling, Drafting,
           Invalidating, Late, Retiring, PlaceT, RunT, InvT, MemT
  <1>8. ASSUME NEW t \in Threads, NEW kind \in Kinds, Invalidate(t, kind) PROVE Hands'
    BY <1>8 DEF Invalidate, AfterLog, memVars, tableVars, threadVars, Hands, Looking, Compiling,
           Drafting, Invalidating, Late, Retiring, PlaceT, RunT, InvT, MemT, Range, Kinds, Invs
  <1>9. ASSUME NEW t \in Threads, Sync(t) PROVE Hands'
    BY <1>9 DEF Sync, Goto, sync_dispatch_cache, memVars, tableVars, threadVars, Hands, Looking,
           Compiling, Drafting, Invalidating, Late, Retiring, PlaceT, RunT, InvT, MemT
  <1>10. ASSUME NEW t \in Threads, LookCache(t) PROVE Hands'
    BY <1>10 DEF LookCache, Leave, memVars, tableVars, threadVars, Hands, Looking, Compiling,
           Drafting, Invalidating, Late, Retiring, PlaceT, RunT, InvT, MemT
  <1>11. ASSUME NEW t \in Threads, LookTable(t) PROVE Hands'
    BY <1>11 DEF LookTable, memVars, tableVars, threadVars, Hands, Looking, Compiling, Drafting,
           Invalidating, Late, Retiring, PlaceT, RunT, InvT, MemT
  <1>12. ASSUME NEW t \in Threads, TryChain(t) PROVE Hands'
    BY <1>12 DEF TryChain, Goto, Linked, memVars, tableVars, threadVars, Hands, Looking, Compiling,
           Drafting, Invalidating, Late, Retiring, PlaceT, RunT, InvT, MemT
  <1>13. ASSUME NEW t \in Threads, Fill(t) PROVE Hands'
    BY <1>13 DEF Fill, Leave, memVars, tableVars, threadVars, Hands, Looking, Compiling, Drafting,
           Invalidating, Late, Retiring, PlaceT, RunT, InvT, MemT
  <1>14. ASSUME NEW t \in Threads, Lease(t) PROVE Hands'
    BY <1>14 DEF Lease, Goto, memVars, tableVars, threadVars, Hands, Looking, Compiling, Drafting,
           Invalidating, Late, Retiring, PlaceT, RunT, InvT, MemT
  <1>15. ASSUME NEW t \in Threads, Bind(t) PROVE Hands'
    BY <1>15 DEF Bind, Leave, sync_dispatch_cache, memVars, tableVars, threadVars, Hands, Looking,
           Compiling, Drafting, Invalidating, Late, Retiring, PlaceT, RunT, InvT, MemT
  <1>16. ASSUME NEW t \in Threads, CompileLock(t) PROVE Hands'
    BY <1>16 DEF CompileLock, Goto, memVars, tableVars, threadVars, Hands, Looking, Compiling,
           Drafting, Invalidating, Late, Retiring, PlaceT, RunT, InvT, MemT
  <1>17. ASSUME NEW t \in Threads, CompileLook(t) PROVE Hands'
    BY <1>17 DEF CompileLook, memVars, tableVars, threadVars, Hands, Looking, Compiling, Drafting,
           Invalidating, Late, Retiring, PlaceT, RunT, InvT, MemT
  <1>18. ASSUME NEW t \in Threads, Arm(t) PROVE Hands'
    BY <1>18 DEF Arm, Goto, memVars, tableVars, threadVars, Hands, Looking, Compiling, Drafting,
           Invalidating, Late, Retiring, PlaceT, RunT, InvT, MemT
  <1>19. ASSUME NEW t \in Threads, Stage(t) PROVE Hands'
    BY <1>19 DEF Stage, Goto, Emit, memVars, tableVars, threadVars, Hands, Looking, Compiling,
           Drafting, Invalidating, Late, Retiring, PlaceT, RunT, InvT, MemT
  <1>20. ASSUME NEW t \in Threads, StageNothing(t) PROVE Hands'
    BY <1>20 DEF StageNothing, Goto, memVars, tableVars, threadVars, Hands, Looking, Compiling,
           Drafting, Invalidating, Late, Retiring, PlaceT, RunT, InvT, MemT
  <1>21. ASSUME NEW t \in Threads, PublishLock(t) PROVE Hands'
    BY <1>21 DEF PublishLock, Goto, memVars, tableVars, threadVars, Hands, Looking, Compiling,
           Drafting, Invalidating, Late, Retiring, PlaceT, RunT, InvT, MemT
  <1>22. ASSUME NEW t \in Threads, PublishNothing(t) PROVE Hands'
    BY <1>22 DEF PublishNothing, CompileEnds, Leave, memVars, tableVars, threadVars, Hands, Looking,
           Compiling, Drafting, Invalidating, Late, Retiring, PlaceT, RunT, InvT, MemT
  <1>23. ASSUME NEW t \in Threads, PublishStaged(t) PROVE Hands'
    <2>1. /\ at[t] = "pcheck" /\ run[t] # 0 /\ at' = [at EXCEPT ![t] = "fill"]
          /\ run' = [run EXCEPT ![t] = run[t]] /\ blocks' = [blocks EXCEPT ![want[t]] = run[t]]
          /\ UNCHANGED <<want, owed, inv>>
      BY <1>23 DEF PublishStaged, Publish, CompileEnds, Leave, memVars
    <2>2. \A u \in Threads : u # t => at[u] \notin Compiling
      BY <2>1, OneHolder DEF Compiling
    <2> QED BY <2>1, <2>2 DEF Hands, Looking, Compiling, Drafting, Invalidating, Late, Retiring,
         PlaceT, RunT
  <1>24. ASSUME NEW t \in Threads, PublishStale(t) PROVE Hands'
    BY <1>24 DEF PublishStale, Goto, memVars, tableVars, threadVars, Hands, Looking, Compiling,
           Drafting, Invalidating, Late, Retiring, PlaceT, RunT, InvT, MemT
  <1>25. ASSUME NEW t \in Threads, Retry(t) PROVE Hands'
    <2>0. made + 1 # 0 /\ made' = made + 1
      BY <1>25 DEF Retry, Emit, CodeT
    <2>1. /\ at[t] = "retry" /\ at' = [at EXCEPT ![t] = "fill"]
          /\ run' = [run EXCEPT ![t] = made'] /\ blocks' = [blocks EXCEPT ![want[t]] = made']
          /\ made' # 0 /\ UNCHANGED <<want, owed, inv>>
      BY <1>25, <2>0 DEF Retry, Publish, CompileEnds, Leave, memVars
    <2>2. \A u \in Threads : u # t => at[u] \notin Compiling
      BY <2>1, OneHolder DEF Compiling
    <2> QED BY <2>1, <2>2 DEF Hands, Looking, Compiling, Drafting, Invalidating, Late, Retiring,
         PlaceT, RunT
  <1>26. ASSUME NEW t \in Threads, RetryNothing(t) PROVE Hands'
    BY <1>26 DEF RetryNothing, CompileEnds, Leave, memVars, tableVars, threadVars, Hands, Looking,
           Compiling, Drafting, Invalidating, Late, Retiring, PlaceT, RunT, InvT, MemT
  <1>27. ASSUME NEW t \in Threads, InvLog(t) PROVE Hands'
    BY <1>27 DEF InvLog, Goto, AfterLog, memVars, tableVars, threadVars, Hands, Looking, Compiling,
           Drafting, Invalidating, Late, Retiring, PlaceT, RunT, InvT, MemT, Kinds
  <1>28. ASSUME NEW t \in Threads, InvFilter(t) PROVE Hands'
    BY <1>28 DEF InvFilter, InvEnds, memVars, tableVars, threadVars, Hands, Looking, Compiling,
           Drafting, Invalidating, Late, Retiring, PlaceT, RunT, InvT, MemT, Invs
  <1>29. ASSUME NEW t \in Threads, InvLock(t) PROVE Hands'
    <2>1. inv[t] \in Invs /\ owed[t] \subseteq inv[t].range
      BY <1>29 DEF InvLock, Hands, Invalidating, Late
    <2>2. Victims(inv[t].kind, inv[t].range) \in SUBSET Blocks
      BY <2>1, VictimsType
    <2>3. /\ at[t] = "ilock" /\ UNCHANGED <<want, run, blocks>>
          /\ \/ /\ at' = [at EXCEPT ![t] = "guest"] /\ owed' = [owed EXCEPT ![t] = {}]
                /\ inv' = [inv EXCEPT ![t] = NoInv]
             \/ /\ at' = [at EXCEPT ![t] = "gen"] /\ owed' = owed
                /\ inv' = [inv EXCEPT ![t].victims = Victims(inv[t].kind, inv[t].range)]
      BY <1>29 DEF InvLock, InvEnds
    <2> QED BY <2>1, <2>2, <2>3 DEF Hands, Looking, Compiling, Drafting, Invalidating, Late, Retiring,
                                    PlaceT, InvT, MemT, Invs
  <1>30. ASSUME NEW t \in Threads, InvGen(t) PROVE Hands'
    BY <1>30 DEF InvGen, Goto, memVars, tableVars, threadVars, Hands, Looking, Compiling, Drafting,
           Invalidating, Late, Retiring, PlaceT, RunT, InvT, MemT
  <1>31. ASSUME NEW t \in Threads, InvEpoch(t) PROVE Hands'
    BY <1>31 DEF InvEpoch, Goto, memVars, tableVars, threadVars, Hands, Looking, Compiling, Drafting,
           Invalidating, Late, Retiring, PlaceT, RunT, InvT, MemT
  <1>32. ASSUME NEW t \in Threads, InvRetire(t) PROVE Hands'
    BY <1>32 DEF InvRetire, InvEnds, memVars, tableVars, threadVars, Hands, Looking, Compiling,
           Drafting, Invalidating, Late, Retiring, PlaceT, RunT, InvT, MemT
  <1>33. ASSUME NEW t \in Threads, Observe(t) \/ (\E l \in Lines : Fetch(t, l))
        PROVE  Hands'
    BY <1>33, <1>1 DEF Observe, Fetch, memVars, tableVars, threadVars
  <1> QED BY <1>1, <1>2, <1>3, <1>4, <1>5, <1>6, <1>7, <1>8, <1>9, <1>10, <1>11, <1>12, <1>13,
            <1>14, <1>15, <1>16, <1>17, <1>18, <1>19, <1>20, <1>21, <1>22, <1>23, <1>24, <1>25,
            <1>26, <1>27, <1>28, <1>29, <1>30, <1>31, <1>32, <1>33 DEF Next, Guest, Lookup,
            Compile, Invalidation

-----------------------------------------------------------------------------
(* The compile under way. *)

LEMMA Alone ==
    ASSUME Parts, Locks, NEW t \in Threads, at[t] \in Compiling
    PROVE  \A u \in Threads : u # t => at[u] \notin Compiling
  BY OneHolder

LEMMA EndsAlone ==
    ASSUME Parts, Locks, NEW t \in Threads, at[t] \in Compiling, NEW x, CompileEnds(t, x)
    PROVE  \A u \in Threads : at'[u] \notin Compiling
  <1>1. at' = [at EXCEPT ![t] = IF x = 0 THEN "guest" ELSE "fill"] BY DEF CompileEnds, Leave
  <1> QED BY <1>1, Alone DEF Parts, PlaceT, Compiling

LEMMA IdleStep == ASSUME Parts, Locks, Idle, Next PROVE Idle'
  <1> USE Facts DEF Parts
  <1>1. ASSUME UNCHANGED <<draft, at>> PROVE Idle'
    BY <1>1 DEF Idle, Drafting, PlaceT
  <1>2. ASSUME NEW t \in Threads, NEW b \in Blocks, Call(t, b) PROVE Idle'
    BY <1>2 DEF Call, Goto, compVars, threadVars, Idle, Drafting, PlaceT
  <1>3. ASSUME NEW t \in Threads, NEW b \in Blocks, Dispatch(t, b) PROVE Idle'
    BY <1>3 DEF Dispatch, Goto, compVars, threadVars, Idle, Drafting, PlaceT
  <1>4. ASSUME NEW t \in Threads, NEW kind \in Kinds, Invalidate(t, kind) PROVE Idle'
    BY <1>4 DEF Invalidate, AfterLog, compVars, threadVars, Idle, Drafting, PlaceT
  <1>5. ASSUME NEW t \in Threads, Sync(t) PROVE Idle'
    BY <1>5 DEF Sync, Goto, sync_dispatch_cache, compVars, threadVars, Idle, Drafting, PlaceT
  <1>6. ASSUME NEW t \in Threads, LookCache(t) PROVE Idle'
    BY <1>6 DEF LookCache, Leave, compVars, threadVars, Idle, Drafting, PlaceT
  <1>7. ASSUME NEW t \in Threads, LookTable(t) PROVE Idle'
    BY <1>7 DEF LookTable, compVars, threadVars, Idle, Drafting, PlaceT
  <1>8. ASSUME NEW t \in Threads, TryChain(t) PROVE Idle'
    BY <1>8 DEF TryChain, Goto, Linked, compVars, threadVars, Idle, Drafting, PlaceT
  <1>9. ASSUME NEW t \in Threads, Fill(t) PROVE Idle'
    BY <1>9 DEF Fill, Leave, compVars, threadVars, Idle, Drafting, PlaceT
  <1>10. ASSUME NEW t \in Threads, Lease(t) PROVE Idle'
    BY <1>10 DEF Lease, Goto, compVars, threadVars, Idle, Drafting, PlaceT
  <1>11. ASSUME NEW t \in Threads, Bind(t) PROVE Idle'
    BY <1>11 DEF Bind, Leave, sync_dispatch_cache, compVars, threadVars, Idle, Drafting, PlaceT
  <1>12. ASSUME NEW t \in Threads, CompileLock(t) PROVE Idle'
    BY <1>12 DEF CompileLock, Goto, compVars, threadVars, Idle, Drafting, PlaceT
  <1>13. ASSUME NEW t \in Threads, CompileLook(t) PROVE Idle'
    BY <1>13 DEF CompileLook, compVars, threadVars, Idle, Drafting, PlaceT
  <1>14. ASSUME NEW t \in Threads, Arm(t) PROVE Idle'
    BY <1>14 DEF Arm, Goto, compVars, threadVars, Idle, Drafting, PlaceT
  <1>15. ASSUME NEW t \in Threads, NEW l \in Lines, Fetch(t, l) PROVE Idle'
    BY <1>15 DEF Fetch, Missing, compVars, threadVars, Idle, Drafting, PlaceT
  <1>16. ASSUME NEW t \in Threads, Stage(t) PROVE Idle'
    BY <1>16 DEF Stage, Goto, Emit, compVars, threadVars, Idle, Drafting, PlaceT
  <1>17. ASSUME NEW t \in Threads, StageNothing(t) PROVE Idle'
    BY <1>17 DEF StageNothing, Goto, compVars, threadVars, Idle, Drafting, PlaceT
  <1>18. ASSUME NEW t \in Threads, PublishLock(t) PROVE Idle'
    BY <1>18 DEF PublishLock, Goto, compVars, threadVars, Idle, Drafting, PlaceT
  <1>19. ASSUME NEW t \in Threads, PublishNothing(t) PROVE Idle'
    BY <1>19 DEF PublishNothing, CompileEnds, Leave, compVars, threadVars, Idle, Drafting, PlaceT
  <1>20. ASSUME NEW t \in Threads, PublishStaged(t) PROVE Idle'
    BY <1>20 DEF PublishStaged, Publish, Linked, CompileEnds, Leave, compVars, threadVars, Idle,
           Drafting, PlaceT
  <1>21. ASSUME NEW t \in Threads, PublishStale(t) PROVE Idle'
    BY <1>21 DEF PublishStale, Goto, compVars, threadVars, Idle, Drafting, PlaceT
  <1>22. ASSUME NEW t \in Threads, Retry(t) PROVE Idle'
    BY <1>22 DEF Retry, Emit, Publish, Linked, CompileEnds, Leave, compVars, threadVars, Idle,
           Drafting, PlaceT
  <1>23. ASSUME NEW t \in Threads, RetryNothing(t) PROVE Idle'
    BY <1>23 DEF RetryNothing, CompileEnds, Leave, compVars, threadVars, Idle, Drafting, PlaceT
  <1>24. ASSUME NEW t \in Threads, InvLog(t) PROVE Idle'
    BY <1>24 DEF InvLog, Goto, AfterLog, compVars, threadVars, Idle, Drafting, PlaceT
  <1>25. ASSUME NEW t \in Threads, InvFilter(t) PROVE Idle'
    BY <1>25 DEF InvFilter, InvEnds, compVars, threadVars, Idle, Drafting, PlaceT
  <1>26. ASSUME NEW t \in Threads, InvLock(t) PROVE Idle'
    BY <1>26 DEF InvLock, InvEnds, compVars, threadVars, Idle, Drafting, PlaceT
  <1>27. ASSUME NEW t \in Threads, InvGen(t) PROVE Idle'
    BY <1>27 DEF InvGen, Goto, compVars, threadVars, Idle, Drafting, PlaceT
  <1>28. ASSUME NEW t \in Threads, InvEpoch(t) PROVE Idle'
    BY <1>28 DEF InvEpoch, Goto, compVars, threadVars, Idle, Drafting, PlaceT
  <1>29. ASSUME NEW t \in Threads, InvRetire(t) PROVE Idle'
    BY <1>29 DEF InvRetire, InvEnds, compVars, threadVars, Idle, Drafting, PlaceT
  <1>30. ASSUME NEW t \in Threads, (\E l \in Lines, v \in Values : Write(t, l, v)) \/ Observe(t) \/
               Chain(t) \/ (\E b \in Blocks : Indirect(t, b)) \/ Return(t)
        PROVE  Idle'
    BY <1>30, <1>1 DEF Write, Observe, Chain, Indirect, Return, compVars, threadVars
  <1> QED BY <1>1, <1>2, <1>3, <1>4, <1>5, <1>6, <1>7, <1>8, <1>9, <1>10, <1>11, <1>12, <1>13,
            <1>14, <1>15, <1>16, <1>17, <1>18, <1>19, <1>20, <1>21, <1>22, <1>23, <1>24, <1>25,
            <1>26, <1>27, <1>28, <1>29, <1>30 DEF Next, Guest, Lookup, Compile, Invalidation

LEMMA StagedStep == ASSUME Parts, Locks, Hands, Staged, Next PROVE Staged'
  <1> USE Facts, MadeGrows DEF Parts
  <1>1. ASSUME UNCHANGED <<at, run, words, pcOf, want, draft>> PROVE Staged'
    BY <1>1 DEF Staged, Missing, PlaceT, RunT, CodeT
  <1>2. ASSUME NEW t \in Threads, Chain(t) PROVE Staged'
    BY <1>2 DEF Chain, codeVars, compVars, threadVars, Staged, Missing, PlaceT, RunT, CodeT
  <1>3. ASSUME NEW t \in Threads, NEW b \in Blocks, Indirect(t, b) PROVE Staged'
    BY <1>3 DEF Indirect, codeVars, compVars, threadVars, Staged, Missing, PlaceT, RunT, CodeT
  <1>4. ASSUME NEW t \in Threads, NEW b \in Blocks, Call(t, b) PROVE Staged'
    BY <1>4 DEF Call, Goto, codeVars, compVars, threadVars, Staged, Missing, PlaceT, RunT, CodeT
  <1>5. ASSUME NEW t \in Threads, Return(t) PROVE Staged'
    BY <1>5 DEF Return, codeVars, compVars, threadVars, Staged, Missing, PlaceT, RunT, CodeT
  <1>6. ASSUME NEW t \in Threads, NEW b \in Blocks, Dispatch(t, b) PROVE Staged'
    BY <1>6 DEF Dispatch, Goto, codeVars, compVars, threadVars, Staged, Missing, PlaceT, RunT, CodeT
  <1>7. ASSUME NEW t \in Threads, NEW kind \in Kinds, Invalidate(t, kind) PROVE Staged'
    BY <1>7 DEF Invalidate, AfterLog, codeVars, compVars, threadVars, Staged, Missing, PlaceT, RunT,
           CodeT
  <1>8. ASSUME NEW t \in Threads, Sync(t) PROVE Staged'
    BY <1>8 DEF Sync, Goto, sync_dispatch_cache, codeVars, compVars, threadVars, Staged, Missing,
           PlaceT, RunT, CodeT
  <1>9. ASSUME NEW t \in Threads, LookCache(t) PROVE Staged'
    BY <1>9 DEF LookCache, Leave, codeVars, compVars, threadVars, Staged, Missing, PlaceT, RunT, CodeT
  <1>10. ASSUME NEW t \in Threads, LookTable(t) PROVE Staged'
    BY <1>10 DEF LookTable, codeVars, compVars, threadVars, Staged, Missing, PlaceT, RunT, CodeT
  <1>11. ASSUME NEW t \in Threads, TryChain(t) PROVE Staged'
    BY <1>11 DEF TryChain, Goto, Linked, codeVars, compVars, threadVars, Staged, Missing, PlaceT,
           RunT, CodeT
  <1>12. ASSUME NEW t \in Threads, Fill(t) PROVE Staged'
    BY <1>12 DEF Fill, Leave, codeVars, compVars, threadVars, Staged, Missing, PlaceT, RunT, CodeT
  <1>13. ASSUME NEW t \in Threads, Lease(t) PROVE Staged'
    BY <1>13 DEF Lease, Goto, codeVars, compVars, threadVars, Staged, Missing, PlaceT, RunT, CodeT
  <1>14. ASSUME NEW t \in Threads, Bind(t) PROVE Staged'
    BY <1>14 DEF Bind, Leave, sync_dispatch_cache, codeVars, compVars, threadVars, Staged, Missing,
           PlaceT, RunT, CodeT
  <1>15. ASSUME NEW t \in Threads, CompileLock(t) PROVE Staged'
    BY <1>15 DEF CompileLock, Goto, codeVars, compVars, threadVars, Staged, Missing, PlaceT, RunT,
           CodeT
  <1>16. ASSUME NEW t \in Threads, CompileLook(t) PROVE Staged'
    BY <1>16 DEF CompileLook, codeVars, compVars, threadVars, Staged, Missing, PlaceT, RunT, CodeT
  <1>17. ASSUME NEW t \in Threads, Arm(t) PROVE Staged'
    BY <1>17 DEF Arm, Goto, codeVars, compVars, threadVars, Staged, Missing, PlaceT, RunT, CodeT
  <1>18. ASSUME NEW t \in Threads, NEW l \in Lines, Fetch(t, l) PROVE Staged'
    <2>1. at[t] \in {"read", "retry"} /\ at' = at
      BY <1>18 DEF Fetch, threadVars
    <2>2. \A u \in Threads : at'[u] \notin {"plock", "pcheck"}
      BY <2>1, Alone DEF Compiling
    <2> QED BY <2>2 DEF Staged
  <1>19. ASSUME NEW t \in Threads, Stage(t) PROVE Staged'
    <2>1. /\ at[t] = "read" /\ at' = [at EXCEPT ![t] = "plock"] /\ run' = [run EXCEPT ![t] = made']
          /\ made < MaxCode /\ made' = made + 1 /\ Missing(want[t]) = {}
          /\ pcOf' = [pcOf EXCEPT ![made'] = want[t]] /\ words' = [words EXCEPT ![made'] = draft]
          /\ want' = want /\ draft' = draft
      BY <1>19 DEF Stage, Goto, Emit, compVars
    <2>2. made' \in Slots
      BY <2>1
    <2>3. \A u \in Threads : u # t => at'[u] \notin {"plock", "pcheck"}
      BY <2>1, Alone DEF Compiling, PlaceT
    <2>4. run'[t] = made' /\ words'[made'] = draft /\ pcOf'[made'] = want[t]
      BY <2>1, <2>2 DEF RunT, CodeT
    <2> QED BY <2>1, <2>3, <2>4 DEF Staged, Missing
  <1>20. ASSUME NEW t \in Threads, StageNothing(t) PROVE Staged'
    <2>1. /\ at[t] = "read" /\ at' = [at EXCEPT ![t] = "plock"] /\ run' = run
      BY <1>20 DEF StageNothing, Goto
    <2>2. \A u \in Threads : u # t => at'[u] \notin {"plock", "pcheck"}
      BY <2>1, Alone DEF Compiling, PlaceT
    <2>3. run[t] = 0
      BY <2>1 DEF Hands
    <2> QED BY <2>1, <2>2, <2>3 DEF Staged
  <1>21. ASSUME NEW t \in Threads, PublishLock(t) PROVE Staged'
    BY <1>21 DEF PublishLock, Goto, codeVars, compVars, threadVars, Staged, Missing, PlaceT, RunT,
           CodeT
  <1>22. ASSUME NEW t \in Threads, PublishNothing(t) PROVE Staged'
    <2>1. \A u \in Threads : at'[u] \notin Compiling
      BY <1>22, EndsAlone DEF PublishNothing, Compiling
    <2> QED BY <2>1 DEF Staged, Compiling
  <1>23. ASSUME NEW t \in Threads, PublishStaged(t) PROVE Staged'
    <2>1. \A u \in Threads : at'[u] \notin Compiling
      BY <1>23, EndsAlone DEF PublishStaged, Compiling
    <2> QED BY <2>1 DEF Staged, Compiling
  <1>24. ASSUME NEW t \in Threads, PublishStale(t) PROVE Staged'
    <2>1. at[t] = "pcheck" /\ at' = [at EXCEPT ![t] = "retry"]
      BY <1>24 DEF PublishStale, Goto
    <2>2. \A u \in Threads : at'[u] \notin {"plock", "pcheck"}
      BY <2>1, Alone DEF Compiling, PlaceT
    <2> QED BY <2>2 DEF Staged
  <1>25. ASSUME NEW t \in Threads, Retry(t) PROVE Staged'
    <2>1. \A u \in Threads : at'[u] \notin Compiling
      BY <1>25, EndsAlone DEF Retry, Compiling
    <2> QED BY <2>1 DEF Staged, Compiling
  <1>26. ASSUME NEW t \in Threads, RetryNothing(t) PROVE Staged'
    <2>1. \A u \in Threads : at'[u] \notin Compiling
      BY <1>26, EndsAlone DEF RetryNothing, Compiling
    <2> QED BY <2>1 DEF Staged, Compiling
  <1>27. ASSUME NEW t \in Threads, InvLog(t) PROVE Staged'
    BY <1>27 DEF InvLog, Goto, AfterLog, codeVars, compVars, threadVars, Staged, Missing, PlaceT,
           RunT, CodeT
  <1>28. ASSUME NEW t \in Threads, InvFilter(t) PROVE Staged'
    BY <1>28 DEF InvFilter, InvEnds, codeVars, compVars, threadVars, Staged, Missing, PlaceT, RunT,
           CodeT
  <1>29. ASSUME NEW t \in Threads, InvLock(t) PROVE Staged'
    BY <1>29 DEF InvLock, InvEnds, codeVars, compVars, threadVars, Staged, Missing, PlaceT, RunT,
           CodeT
  <1>30. ASSUME NEW t \in Threads, InvGen(t) PROVE Staged'
    BY <1>30 DEF InvGen, Goto, codeVars, compVars, threadVars, Staged, Missing, PlaceT, RunT, CodeT
  <1>31. ASSUME NEW t \in Threads, InvEpoch(t) PROVE Staged'
    BY <1>31 DEF InvEpoch, Goto, codeVars, compVars, threadVars, Staged, Missing, PlaceT, RunT, CodeT
  <1>32. ASSUME NEW t \in Threads, InvRetire(t) PROVE Staged'
    BY <1>32 DEF InvRetire, InvEnds, codeVars, compVars, threadVars, Staged, Missing, PlaceT, RunT,
           CodeT
  <1>33. ASSUME NEW t \in Threads, (\E l \in Lines, v \in Values : Write(t, l, v)) \/ Observe(t)
        PROVE  Staged'
    BY <1>33, <1>1 DEF Write, Observe, codeVars, compVars, threadVars
  <1> QED BY <1>1, <1>2, <1>3, <1>4, <1>5, <1>6, <1>7, <1>8, <1>9, <1>10, <1>11, <1>12, <1>13,
            <1>14, <1>15, <1>16, <1>17, <1>18, <1>19, <1>20, <1>21, <1>22, <1>23, <1>24, <1>25,
            <1>26, <1>27, <1>28, <1>29, <1>30, <1>31, <1>32, <1>33 DEF Next, Guest, Lookup,
            Compile, Invalidation

\* What a step may do to the log and to the coming invalidations.
LEMMA LoggedKept ==
    ASSUME NEW l, Logged(l), \/ UNCHANGED <<log, overflow>>
                             \/ overflow'
                             \/ CompT /\ (\E r \in SUBSET Lines : log' = Append(log, r)) /\ UNCHANGED overflow
    PROVE  Logged(l)'
  <1>1. CASE UNCHANGED <<log, overflow>> BY <1>1 DEF Logged
  <1>2. CASE overflow' BY <1>2 DEF Logged
  <1>3. ASSUME CompT, NEW r \in SUBSET Lines, log' = Append(log, r), overflow' = overflow PROVE Logged(l)'
    <2>1. Len(log') = Len(log) + 1 /\ \A i \in 1..Len(log) : i \in 1..Len(log') /\ log'[i] = log[i]
      BY <1>3 DEF CompT
    <2> QED BY <1>3, <2>1 DEF Logged
  <1> QED BY <1>1, <1>2, <1>3

LEMMA LoggedLast ==
    ASSUME CompT, NEW r \in SUBSET Lines, NEW l \in r, log' = Append(log, r) PROVE Logged(l)'
  <1>1. Len(log') \in 1..Len(log') /\ log'[Len(log')] = r BY DEF CompT
  <1> QED BY <1>1 DEF Logged

\* An invalidation that ends with nobody publishing takes nothing away.
LEMMA NoticedEnds ==
    ASSUME Parts, Noticed, NEW t \in Threads, at[t] \in Late, InvEnds(t),
           UNCHANGED <<draft, mem, overflow, log>>,
           \A u \in Threads : at[u] \notin {"pcheck", "retry"}
    PROVE  Noticed'
  <1>1. at' = [at EXCEPT ![t] = "guest"] /\ owed' = [owed EXCEPT ![t] = {}]
    BY DEF InvEnds
  <1>2. \A u \in Threads : /\ at'[u] \notin {"pcheck", "retry"}
                           /\ at'[u] \in {"read", "plock"} => at[u] \in {"read", "plock"}
    BY <1>1 DEF Parts, PlaceT
  <1>3. \A l \in Lines : Coming(l) => Coming(l)'
    BY <1>1 DEF Coming, Parts, PlaceT, MemT, Late, Retiring
  <1>4. \A l \in Lines : (Current(l) => Current(l)') /\ (Logged(l) => Logged(l)')
    BY LoggedKept DEF Current
  <1> QED BY <1>2, <1>3, <1>4 DEF Noticed

LEMMA NoticedStep == ASSUME Parts, Locks, Hands, Idle, Noticed, Next PROVE Noticed'
  <1> USE Facts DEF Parts
  <1>1. ASSUME UNCHANGED <<draft, at, mem, overflow, log, owed>> PROVE Noticed'
    BY <1>1 DEF Noticed, Current, Logged, Coming, Dirty, Late, Retiring, PlaceT, MemT
  <1>2. ASSUME NEW t \in Threads, NEW l \in Lines, NEW v \in Values, Write(t, l, v) PROVE Noticed'
    BY <1>2 DEF Write, memVars, compVars, threadVars, Noticed, Current, Logged, Coming, Dirty, Late,
           Retiring, PlaceT, MemT
  <1>3. ASSUME NEW t \in Threads, NEW b \in Blocks, Call(t, b) PROVE Noticed'
    BY <1>3 DEF Call, Goto, memVars, compVars, threadVars, Noticed, Current, Logged, Coming, Dirty,
           Late, Retiring, PlaceT, MemT
  <1>4. ASSUME NEW t \in Threads, NEW b \in Blocks, Dispatch(t, b) PROVE Noticed'
    BY <1>4 DEF Dispatch, Goto, memVars, compVars, threadVars, Noticed, Current, Logged, Coming,
           Dirty, Late, Retiring, PlaceT, MemT
  <1>5. ASSUME NEW t \in Threads, NEW kind \in Kinds, Invalidate(t, kind) PROVE Noticed'
    <2>1. /\ at[t] = "guest" /\ UNCHANGED <<draft, mem, overflow, log, owed>>
          /\ \/ at' = [at EXCEPT ![t] = "log"]
             \/ ~active /\ \E p \in Late : at' = [at EXCEPT ![t] = p]
      BY <1>5 DEF Invalidate, AfterLog, memVars, compVars, Late
    <2>2. \A u \in Threads : at'[u] \in Drafting => at'[u] = at[u]
      BY <2>1 DEF PlaceT, Late, Retiring, Drafting
    <2>3. \A u \in Threads : active \/ at[u] \notin {"read", "plock"}
      BY DEF Locks
    <2>4. \A l \in Lines : (Current(l) => Current(l)') /\ (Logged(l) => Logged(l)') /\ (Dirty(l) => Dirty(l)')
      BY <2>1, LoggedKept DEF Current, Dirty
    <2>5. CASE at' = [at EXCEPT ![t] = "log"]
      <3>1. \A l \in Lines : Coming(l) => Coming(l)'
        BY <2>1, <2>5 DEF Coming, PlaceT, Late, Retiring
      <3> QED BY <2>2, <2>4, <3>1 DEF Noticed, Drafting
    <2>6. CASE ~active
      BY <2>2, <2>3, <2>4, <2>6 DEF Noticed, Drafting
    <2> QED BY <2>1, <2>5, <2>6
  <1>6. ASSUME NEW t \in Threads, Sync(t) PROVE Noticed'
    BY <1>6 DEF Sync, Goto, sync_dispatch_cache, memVars, compVars, threadVars, Noticed, Current,
           Logged, Coming, Dirty, Late, Retiring, PlaceT, MemT
  <1>7. ASSUME NEW t \in Threads, LookCache(t) PROVE Noticed'
    BY <1>7 DEF LookCache, Leave, memVars, compVars, threadVars, Noticed, Current, Logged, Coming,
           Dirty, Late, Retiring, PlaceT, MemT
  <1>8. ASSUME NEW t \in Threads, LookTable(t) PROVE Noticed'
    BY <1>8 DEF LookTable, memVars, compVars, threadVars, Noticed, Current, Logged, Coming, Dirty,
           Late, Retiring, PlaceT, MemT
  <1>9. ASSUME NEW t \in Threads, TryChain(t) PROVE Noticed'
    BY <1>9 DEF TryChain, Goto, Linked, memVars, compVars, threadVars, Noticed, Current, Logged,
           Coming, Dirty, Late, Retiring, PlaceT, MemT
  <1>10. ASSUME NEW t \in Threads, Fill(t) PROVE Noticed'
    BY <1>10 DEF Fill, Leave, memVars, compVars, threadVars, Noticed, Current, Logged, Coming, Dirty,
           Late, Retiring, PlaceT, MemT
  <1>11. ASSUME NEW t \in Threads, Lease(t) PROVE Noticed'
    BY <1>11 DEF Lease, Goto, memVars, compVars, threadVars, Noticed, Current, Logged, Coming, Dirty,
           Late, Retiring, PlaceT, MemT
  <1>12. ASSUME NEW t \in Threads, Bind(t) PROVE Noticed'
    BY <1>12 DEF Bind, Leave, sync_dispatch_cache, memVars, compVars, threadVars, Noticed, Current,
           Logged, Coming, Dirty, Late, Retiring, PlaceT, MemT
  <1>13. ASSUME NEW t \in Threads, CompileLock(t) PROVE Noticed'
    BY <1>13 DEF CompileLock, Goto, memVars, compVars, threadVars, Noticed, Current, Logged, Coming,
           Dirty, Late, Retiring, PlaceT, MemT
  <1>14. ASSUME NEW t \in Threads, CompileLook(t) PROVE Noticed'
    <2>1. at[t] = "clook" /\ (at' = [at EXCEPT ![t] = "arm"] \/ at' = [at EXCEPT ![t] = "fill"])
      BY <1>14 DEF CompileLook
    <2>2. \A u \in Threads : at'[u] \notin Drafting
      BY <2>1, Alone DEF Compiling, Drafting, PlaceT
    <2> QED BY <2>2 DEF Noticed, Drafting
  <1>15. ASSUME NEW t \in Threads, Arm(t) PROVE Noticed'
    <2>1. at[t] = "arm" /\ draft' = draft
      BY <1>15 DEF Arm, Goto
    <2>2. \A u \in Threads : at[u] \notin Drafting
      BY <2>1, Alone DEF Compiling, Drafting
    <2>3. \A l \in Lines : Current(l)'
      BY <2>1, <2>2 DEF Idle, NoWords, Current
    <2>4. \A u \in Threads : at'[u] \notin {"pcheck", "retry"}
      BY <1>15, <2>2 DEF Arm, Goto, Drafting, PlaceT
    <2> QED BY <2>3, <2>4 DEF Noticed
  <1>16. ASSUME NEW t \in Threads, NEW l \in Lines, Fetch(t, l) PROVE Noticed'
    BY <1>16 DEF Fetch, Missing, memVars, compVars, threadVars, Noticed, Current, Logged, Coming,
           Dirty, Late, Retiring, PlaceT, MemT
  <1>17. ASSUME NEW t \in Threads, Stage(t) PROVE Noticed'
    BY <1>17 DEF Stage, Goto, Emit, memVars, compVars, threadVars, Noticed, Current, Logged, Coming,
           Dirty, Late, Retiring, PlaceT, MemT
  <1>18. ASSUME NEW t \in Threads, StageNothing(t) PROVE Noticed'
    BY <1>18 DEF StageNothing, Goto, memVars, compVars, threadVars, Noticed, Current, Logged, Coming,
           Dirty, Late, Retiring, PlaceT, MemT
  <1>19. ASSUME NEW t \in Threads, PublishLock(t) PROVE Noticed'
    BY <1>19 DEF PublishLock, Goto, memVars, compVars, threadVars, Noticed, Current, Logged, Coming,
           Dirty, Late, Retiring, PlaceT, MemT
  <1>20. ASSUME NEW t \in Threads, PublishNothing(t) PROVE Noticed'
    <2>1. \A u \in Threads : at'[u] \notin Compiling
      BY <1>20, EndsAlone DEF PublishNothing, Compiling
    <2> QED BY <2>1 DEF Noticed, Compiling
  <1>21. ASSUME NEW t \in Threads, PublishStaged(t) PROVE Noticed'
    <2>1. \A u \in Threads : at'[u] \notin Compiling
      BY <1>21, EndsAlone DEF PublishStaged, Compiling
    <2> QED BY <2>1 DEF Noticed, Compiling
  <1>22. ASSUME NEW t \in Threads, PublishStale(t) PROVE Noticed'
    <2>1. \A l \in Lines : Current(l)'
      BY <1>22 DEF PublishStale, NoWords, Current
    <2> QED BY <2>1 DEF Noticed
  <1>23. ASSUME NEW t \in Threads, Retry(t) PROVE Noticed'
    <2>1. \A u \in Threads : at'[u] \notin Compiling
      BY <1>23, EndsAlone DEF Retry, Compiling
    <2> QED BY <2>1 DEF Noticed, Compiling
  <1>24. ASSUME NEW t \in Threads, RetryNothing(t) PROVE Noticed'
    <2>1. \A u \in Threads : at'[u] \notin Compiling
      BY <1>24, EndsAlone DEF RetryNothing, Compiling
    <2> QED BY <2>1 DEF Noticed, Compiling
  <1>25. ASSUME NEW t \in Threads, InvLog(t) PROVE Noticed'
    <2>1. /\ at[t] = "log" /\ UNCHANGED <<draft, mem, owed>>
          /\ \E p \in Late : at' = [at EXCEPT ![t] = p]
      BY <1>25 DEF InvLog, Goto, AfterLog, memVars, Late
    <2>2. inv[t].range \in SUBSET Lines /\ owed[t] \subseteq inv[t].range
      BY <2>1 DEF Hands, Invalidating, Invs
    <2>3. overflow' = TRUE \/ (log' = Append(log, inv[t].range) /\ overflow' = overflow)
      BY <1>25 DEF InvLog
    <2>4. \A l \in Lines : (Current(l) => Current(l)') /\ (Dirty(l) => Dirty(l)')
      BY <2>1 DEF Current, Dirty
    <2>5. \A l \in Lines : Logged(l) => Logged(l)'
      BY <2>2, <2>3, LoggedKept
    <2>6. \A l \in Lines : Coming(l) => Coming(l)' \/ Logged(l)'
      <3> SUFFICES ASSUME NEW l \in Lines, Coming(l) PROVE Coming(l)' \/ Logged(l)' OBVIOUS
      <3>1. PICK u \in Threads : l \in owed[u] /\ at[u] \notin Late BY DEF Coming
      <3>2. CASE u = t
        <4>1. CASE overflow' = TRUE BY <4>1 DEF Logged
        <4>2. CASE log' = Append(log, inv[t].range) BY <2>2, <3>1, <3>2, <4>2, LoggedLast
        <4> QED BY <2>3, <4>1, <4>2
      <3>3. CASE u # t BY <2>1, <3>1, <3>3 DEF Coming, PlaceT
      <3> QED BY <3>2, <3>3
    <2>7. \A u \in Threads : at'[u] \in Drafting => at'[u] = at[u]
      BY <2>1 DEF PlaceT, Late, Retiring, Drafting
    <2> QED BY <2>4, <2>5, <2>6, <2>7 DEF Noticed, Drafting
  <1>26. ASSUME NEW t \in Threads, InvFilter(t) PROVE Noticed'
    <2>1. CASE InvEnds(t)
      <3>1. at[t] \in Late /\ UNCHANGED <<draft, mem, overflow, log>> /\ writer = None
        BY <1>26 DEF InvFilter, SharedFree, compVars, Late
      <3>2. \A u \in Threads : at[u] \notin {"pcheck", "retry"}
        BY <3>1 DEF Locks, Exclusive
      <3> QED BY <2>1, <3>1, <3>2, NoticedEnds
    <2>2. CASE at' = [at EXCEPT ![t] = "ilock"] /\ owed' = owed
      <3>1. at[t] \in Late /\ UNCHANGED <<draft, mem, overflow, log>>
        BY <1>26 DEF InvFilter, compVars, Late
      <3> QED BY <2>2, <3>1 DEF Noticed, Current, Logged, Coming, Dirty, Late, Retiring, PlaceT
    <2> QED BY <1>26, <2>1, <2>2 DEF InvFilter
  <1>27. ASSUME NEW t \in Threads, InvLock(t) PROVE Noticed'
    <2>1. /\ at[t] = "ilock" /\ UNCHANGED <<draft, mem, overflow, log>> /\ writer = None
          /\ \/ InvEnds(t)
             \/ at' = [at EXCEPT ![t] = "gen"] /\ owed' = owed
      BY <1>27 DEF InvLock, ExclusiveFree, compVars
    <2>2. CASE InvEnds(t)
      <3>1. \A u \in Threads : at[u] \notin {"pcheck", "retry"}
        BY <2>1 DEF Locks, Exclusive
      <3> QED BY <2>1, <2>2, <3>1, NoticedEnds DEF Late
    <2>3. CASE at' = [at EXCEPT ![t] = "gen"] /\ owed' = owed
      BY <2>1, <2>3 DEF Noticed, Current, Logged, Coming, Dirty, Late, Retiring, PlaceT
    <2> QED BY <2>1, <2>2, <2>3
  <1>28. ASSUME NEW t \in Threads, InvGen(t) PROVE Noticed'
    BY <1>28 DEF InvGen, Goto, memVars, compVars, threadVars, Noticed, Current, Logged, Coming, Dirty,
           Late, Retiring, PlaceT, MemT
  <1>29. ASSUME NEW t \in Threads, InvEpoch(t) PROVE Noticed'
    BY <1>29 DEF InvEpoch, Goto, memVars, compVars, threadVars, Noticed, Current, Logged, Coming,
           Dirty, Late, Retiring, PlaceT, MemT
  <1>30. ASSUME NEW t \in Threads, InvRetire(t) PROVE Noticed'
    <2>1. at[t] = "retire" /\ UNCHANGED <<draft, mem, overflow, log>> /\ InvEnds(t)
      BY <1>30 DEF InvRetire, compVars
    <2>2. \A u \in Threads : at[u] \notin {"pcheck", "retry"}
      BY <2>1, OneHolder DEF Exclusive
    <2> QED BY <2>1, <2>2, NoticedEnds DEF Late, Retiring
  <1>31. ASSUME NEW t \in Threads, Observe(t) \/ Chain(t) \/ (\E b \in Blocks : Indirect(t, b)) \/
               Return(t)
        PROVE  Noticed'
    BY <1>31, <1>1 DEF Observe, Chain, Indirect, Return, memVars, compVars, threadVars
  <1> QED BY <1>1, <1>2, <1>3, <1>4, <1>5, <1>6, <1>7, <1>8, <1>9, <1>10, <1>11, <1>12, <1>13,
            <1>14, <1>15, <1>16, <1>17, <1>18, <1>19, <1>20, <1>21, <1>22, <1>23, <1>24, <1>25,
            <1>26, <1>27, <1>28, <1>29, <1>30, <1>31 DEF Next, Guest, Lookup, Compile,
            Invalidation

-----------------------------------------------------------------------------
(* The table, its index and the invalidations. *)

\* With the table lock free, no invalidation has victims.
LEMMA NoRetiring ==
    ASSUME Parts, Locks, writer = None \/ \E t \in Threads : at[t] \in Exclusive \ Retiring \/ t \in readers
    PROVE  \A u \in Threads : at[u] \notin Retiring
  <1>1. \A u \in Threads : at[u] \in Retiring => writer = u /\ at[u] \in Exclusive
    BY DEF Locks, Exclusive, Retiring
  <1>2. ASSUME NEW t \in Threads, at[t] \in Exclusive \ Retiring,
               NEW u \in Threads, at[u] \in Retiring
        PROVE  FALSE
    BY <1>1, <1>2, OneHolder
  <1>3. ASSUME NEW t \in Threads, t \in readers PROVE writer = None
    BY <1>3 DEF Locks
  <1> QED BY <1>1, <1>2, <1>3, Facts

\* Every block that an invalidation's own lines make stale is a victim.
LEMMA SparedUnchanged ==
    ASSUME Parts, Locks, Hands, Indexed, TableFresh, writer = None,
           NEW t \in Threads, at[t] \in {"filter", "ilock"},
           NEW b \in Blocks, blocks[b] # 0, NEW l \in Deps[b] \cap owed[t]
    PROVE  /\ Granule[l] \in GranulesOf(inv[t].range) /\ b \in index[Granule[l]]
           /\ b \notin Victims(inv[t].kind, inv[t].range) =>
                inv[t].kind # "all" /\ words[blocks[b]][l] = mem[l]
  <1>1. l \in Lines /\ l \in inv[t].range
    BY Facts DEF Hands, Invalidating, Late
  <1>2. b \in index[Granule[l]]
    BY NoRetiring DEF Indexed
  <1>3. Granule[l] \in GranulesOf(inv[t].range)
    BY <1>1 DEF GranulesOf
  <1>4. b \in Candidates(inv[t].range)
    BY <1>2, <1>3 DEF Candidates
  <1>5. Deps[b] \cap inv[t].range # {}
    BY <1>1
  <1>6. pcOf[blocks[b]] = b
    BY DEF TableFresh
  <1>7. ASSUME b \notin Victims(inv[t].kind, inv[t].range)
        PROVE  inv[t].kind # "all" /\ words[blocks[b]][l] = mem[l]
    <2>1. inv[t].kind # "all" BY <1>7 DEF Victims
    <2>2. Unchanged(blocks[b]) BY <1>7, <1>4, <1>5, <2>1 DEF Victims
    <2> QED BY <2>1, <2>2, <1>6 DEF Unchanged
  <1> QED BY <1>2, <1>3, <1>7

LEMMA IndexedPublished ==
    ASSUME Parts, Locks, Hands, Indexed, NEW t \in Threads, at[t] \in Exclusive \ Retiring, NEW x,
           blocks' = [blocks EXCEPT ![want[t]] = x],
           index' = [g \in Granules |-> IF \E l \in Deps[want[t]] : Granule[l] = g
                                        THEN index[g] \cup {want[t]} ELSE index[g]]
    PROVE  Indexed'
  <1>1. \A b \in Blocks : blocks[b] # 0 => \A l \in Deps[b] : b \in index[Granule[l]]
    BY NoRetiring DEF Indexed
  <1>2. ASSUME NEW b \in Blocks, blocks'[b] # 0, NEW l \in Deps[b] PROVE b \in index'[Granule[l]]
    <2>1. Granule[l] \in Granules BY Facts
    <2>2. CASE b = want[t] BY <2>1, <2>2
    <2>3. CASE b # want[t]
      <3>1. blocks[b] # 0 BY <1>2, <2>3 DEF Parts, TabT
      <3> QED BY <1>1, <2>1, <3>1
    <2> QED BY <2>2, <2>3
  <1> QED BY <1>2 DEF Indexed

LEMMA IndexedStep == ASSUME Parts, Locks, Hands, Indexed, Spared, Next PROVE Indexed'
  <1> USE Facts DEF Parts
  <1>1. ASSUME UNCHANGED <<blocks, index, at, inv>> PROVE Indexed'
    BY <1>1 DEF Indexed, Retiring, PlaceT, InvT
  <1>2. ASSUME NEW t \in Threads, NEW b \in Blocks, Call(t, b) PROVE Indexed'
    BY <1>2 DEF Call, Goto, tableVars, threadVars, Indexed, Retiring, PlaceT, InvT
  <1>3. ASSUME NEW t \in Threads, NEW b \in Blocks, Dispatch(t, b) PROVE Indexed'
    BY <1>3 DEF Dispatch, Goto, tableVars, threadVars, Indexed, Retiring, PlaceT, InvT
  <1>4. ASSUME NEW t \in Threads, NEW kind \in Kinds, Invalidate(t, kind) PROVE Indexed'
    BY <1>4 DEF Invalidate, AfterLog, tableVars, threadVars, Indexed, Retiring, PlaceT, InvT
  <1>5. ASSUME NEW t \in Threads, Sync(t) PROVE Indexed'
    BY <1>5 DEF Sync, Goto, sync_dispatch_cache, tableVars, threadVars, Indexed, Retiring, PlaceT,
           InvT
  <1>6. ASSUME NEW t \in Threads, LookCache(t) PROVE Indexed'
    BY <1>6 DEF LookCache, Leave, tableVars, threadVars, Indexed, Retiring, PlaceT, InvT
  <1>7. ASSUME NEW t \in Threads, LookTable(t) PROVE Indexed'
    BY <1>7 DEF LookTable, tableVars, threadVars, Indexed, Retiring, PlaceT, InvT
  <1>8. ASSUME NEW t \in Threads, TryChain(t) PROVE Indexed'
    BY <1>8 DEF TryChain, Goto, Linked, tableVars, threadVars, Indexed, Retiring, PlaceT, InvT
  <1>9. ASSUME NEW t \in Threads, Fill(t) PROVE Indexed'
    BY <1>9 DEF Fill, Leave, tableVars, threadVars, Indexed, Retiring, PlaceT, InvT
  <1>10. ASSUME NEW t \in Threads, Lease(t) PROVE Indexed'
    BY <1>10 DEF Lease, Goto, tableVars, threadVars, Indexed, Retiring, PlaceT, InvT
  <1>11. ASSUME NEW t \in Threads, Bind(t) PROVE Indexed'
    BY <1>11 DEF Bind, Leave, sync_dispatch_cache, tableVars, threadVars, Indexed, Retiring, PlaceT,
           InvT
  <1>12. ASSUME NEW t \in Threads, CompileLock(t) PROVE Indexed'
    BY <1>12 DEF CompileLock, Goto, tableVars, threadVars, Indexed, Retiring, PlaceT, InvT
  <1>13. ASSUME NEW t \in Threads, CompileLook(t) PROVE Indexed'
    BY <1>13 DEF CompileLook, tableVars, threadVars, Indexed, Retiring, PlaceT, InvT
  <1>14. ASSUME NEW t \in Threads, Arm(t) PROVE Indexed'
    BY <1>14 DEF Arm, Goto, tableVars, threadVars, Indexed, Retiring, PlaceT, InvT
  <1>15. ASSUME NEW t \in Threads, Stage(t) PROVE Indexed'
    BY <1>15 DEF Stage, Goto, Emit, tableVars, threadVars, Indexed, Retiring, PlaceT, InvT
  <1>16. ASSUME NEW t \in Threads, StageNothing(t) PROVE Indexed'
    BY <1>16 DEF StageNothing, Goto, tableVars, threadVars, Indexed, Retiring, PlaceT, InvT
  <1>17. ASSUME NEW t \in Threads, PublishLock(t) PROVE Indexed'
    BY <1>17 DEF PublishLock, Goto, tableVars, threadVars, Indexed, Retiring, PlaceT, InvT
  <1>18. ASSUME NEW t \in Threads, PublishNothing(t) PROVE Indexed'
    BY <1>18 DEF PublishNothing, CompileEnds, Leave, tableVars, threadVars, Indexed, Retiring, PlaceT,
           InvT
  <1>19. ASSUME NEW t \in Threads, PublishStaged(t) PROVE Indexed'
    <2>1. /\ blocks' = [blocks EXCEPT ![want[t]] = run[t]] /\ inv' = inv
          /\ index' = [g \in Granules |-> IF \E l \in Deps[want[t]] : Granule[l] = g
                                            THEN index[g] \cup {want[t]} ELSE index[g]]
      BY <1>19 DEF PublishStaged, Publish
    <2>2. at[t] = "pcheck" BY <1>19 DEF PublishStaged
    <2> QED BY <2>1, <2>2, IndexedPublished DEF Exclusive, Retiring
  <1>20. ASSUME NEW t \in Threads, PublishStale(t) PROVE Indexed'
    BY <1>20 DEF PublishStale, Goto, tableVars, threadVars, Indexed, Retiring, PlaceT, InvT
  <1>21. ASSUME NEW t \in Threads, Retry(t) PROVE Indexed'
    <2>1. /\ blocks' = [blocks EXCEPT ![want[t]] = made'] /\ inv' = inv
          /\ index' = [g \in Granules |-> IF \E l \in Deps[want[t]] : Granule[l] = g
                                            THEN index[g] \cup {want[t]} ELSE index[g]]
      BY <1>21 DEF Retry, Emit, Publish
    <2>2. at[t] = "retry" BY <1>21 DEF Retry
    <2> QED BY <2>1, <2>2, IndexedPublished DEF Exclusive, Retiring
  <1>22. ASSUME NEW t \in Threads, RetryNothing(t) PROVE Indexed'
    BY <1>22 DEF RetryNothing, CompileEnds, Leave, tableVars, threadVars, Indexed, Retiring, PlaceT,
           InvT
  <1>23. ASSUME NEW t \in Threads, InvLog(t) PROVE Indexed'
    BY <1>23 DEF InvLog, Goto, AfterLog, tableVars, threadVars, Indexed, Retiring, PlaceT, InvT
  <1>24. ASSUME NEW t \in Threads, InvFilter(t) PROVE Indexed'
    BY <1>24 DEF InvFilter, InvEnds, tableVars, threadVars, Indexed, Retiring, PlaceT, InvT
  <1>25. ASSUME NEW t \in Threads, InvLock(t) PROVE Indexed'
    <2>1. at[t] = "ilock" /\ writer = None /\ blocks' = blocks
      BY <1>25 DEF InvLock, ExclusiveFree
    <2>2. \A b \in Blocks : blocks[b] # 0 => \A l \in Deps[b] : b \in index[Granule[l]]
      BY <2>1, NoRetiring DEF Indexed
    <2>3. CASE inv[t].kind = "all"
      <3>1. inv[t] \in Invs BY <2>1 DEF Hands, Invalidating, Late
      <3>2. /\ at' = [at EXCEPT ![t] = "gen"]
            /\ inv' = [inv EXCEPT ![t].victims = Victims(inv[t].kind, inv[t].range)]
        BY <1>25, <2>3 DEF InvLock
      <3>3. at'[t] \in Retiring /\ inv'[t].kind = "all"
        BY <2>3, <3>1, <3>2 DEF PlaceT, InvT, Invs, Retiring
      <3> QED BY <3>3 DEF Indexed
    <2>4. CASE inv[t].kind # "all"
      <3>1. index' = Pruned(inv[t].range) BY <1>25, <2>4 DEF InvLock
      <3>2. \A b \in Blocks : blocks[b] # 0 => \A l \in Deps[b] : b \in index'[Granule[l]]
        BY <2>2, <3>1 DEF Pruned
      <3> QED BY <2>1, <3>2 DEF Indexed
    <2> QED BY <2>3, <2>4
  <1>26. ASSUME NEW t \in Threads, InvGen(t) PROVE Indexed'
    BY <1>26 DEF InvGen, Goto, tableVars, threadVars, Indexed, Retiring, PlaceT, InvT
  <1>27. ASSUME NEW t \in Threads, InvEpoch(t) PROVE Indexed'
    BY <1>27 DEF InvEpoch, Goto, tableVars, threadVars, Indexed, Retiring, PlaceT, InvT
  <1>28. ASSUME NEW t \in Threads, InvRetire(t) PROVE Indexed'
    <2>1. /\ at[t] \in Retiring /\ index' = index
          /\ blocks' = [b \in Blocks |-> IF b \in inv[t].victims THEN 0 ELSE blocks[b]]
      BY <1>28 DEF InvRetire, Retiring
    <2>2. ASSUME NEW b \in Blocks, blocks'[b] # 0 PROVE \A l \in Deps[b] : b \in index'[Granule[l]]
      <3>1. blocks[b] # 0 /\ b \notin inv[t].victims BY <2>1, <2>2
      <3>2. inv[t].kind # "all" BY <2>1, <3>1 DEF Spared
      <3>3. \A u \in Threads : at[u] \in Retiring => u = t BY <2>1, OneHolder DEF Exclusive, Retiring
      <3> QED BY <2>1, <3>1, <3>2, <3>3 DEF Indexed
    <2> QED BY <2>2 DEF Indexed
  <1>29. ASSUME NEW t \in Threads, (\E l \in Lines, v \in Values : Write(t, l, v)) \/ Observe(t) \/
               Chain(t) \/ (\E b \in Blocks : Indirect(t, b)) \/ Return(t) \/ (\E l \in Lines :
               Fetch(t, l))
        PROVE  Indexed'
    BY <1>29, <1>1 DEF Write, Observe, Chain, Indirect, Return, Fetch, tableVars, threadVars
  <1> QED BY <1>1, <1>2, <1>3, <1>4, <1>5, <1>6, <1>7, <1>8, <1>9, <1>10, <1>11, <1>12, <1>13,
            <1>14, <1>15, <1>16, <1>17, <1>18, <1>19, <1>20, <1>21, <1>22, <1>23, <1>24, <1>25,
            <1>26, <1>27, <1>28, <1>29 DEF Next, Guest, Lookup, Compile, Invalidation

LEMMA SparedStep == ASSUME Parts, Locks, Hands, Indexed, TableFresh, Spared, Next PROVE Spared'
  <1> USE Facts DEF Parts
  <1>1. ASSUME UNCHANGED <<at, inv, blocks, words, owed, mem>> PROVE Spared'
    BY <1>1 DEF Spared, Retiring, PlaceT, InvT, MemT
  <1>2. ASSUME NEW t \in Threads, NEW l \in Lines, NEW v \in Values, Write(t, l, v) PROVE Spared'
    BY <1>2 DEF Write, memVars, codeVars, tableVars, threadVars, Spared, Retiring, PlaceT, InvT, MemT
  <1>3. ASSUME NEW t \in Threads, NEW b \in Blocks, Call(t, b) PROVE Spared'
    BY <1>3 DEF Call, Goto, memVars, codeVars, tableVars, threadVars, Spared, Retiring, PlaceT, InvT,
           MemT
  <1>4. ASSUME NEW t \in Threads, NEW b \in Blocks, Dispatch(t, b) PROVE Spared'
    BY <1>4 DEF Dispatch, Goto, memVars, codeVars, tableVars, threadVars, Spared, Retiring, PlaceT,
           InvT, MemT
  <1>5. ASSUME NEW t \in Threads, NEW kind \in Kinds, Invalidate(t, kind) PROVE Spared'
    BY <1>5 DEF Invalidate, AfterLog, memVars, codeVars, tableVars, threadVars, Spared, Retiring,
           PlaceT, InvT, MemT
  <1>6. ASSUME NEW t \in Threads, Sync(t) PROVE Spared'
    BY <1>6 DEF Sync, Goto, sync_dispatch_cache, memVars, codeVars, tableVars, threadVars, Spared,
           Retiring, PlaceT, InvT, MemT
  <1>7. ASSUME NEW t \in Threads, LookCache(t) PROVE Spared'
    BY <1>7 DEF LookCache, Leave, memVars, codeVars, tableVars, threadVars, Spared, Retiring, PlaceT,
           InvT, MemT
  <1>8. ASSUME NEW t \in Threads, LookTable(t) PROVE Spared'
    BY <1>8 DEF LookTable, memVars, codeVars, tableVars, threadVars, Spared, Retiring, PlaceT, InvT,
           MemT
  <1>9. ASSUME NEW t \in Threads, TryChain(t) PROVE Spared'
    BY <1>9 DEF TryChain, Goto, Linked, memVars, codeVars, tableVars, threadVars, Spared, Retiring,
           PlaceT, InvT, MemT
  <1>10. ASSUME NEW t \in Threads, Fill(t) PROVE Spared'
    BY <1>10 DEF Fill, Leave, memVars, codeVars, tableVars, threadVars, Spared, Retiring, PlaceT,
           InvT, MemT
  <1>11. ASSUME NEW t \in Threads, Lease(t) PROVE Spared'
    BY <1>11 DEF Lease, Goto, memVars, codeVars, tableVars, threadVars, Spared, Retiring, PlaceT,
           InvT, MemT
  <1>12. ASSUME NEW t \in Threads, Bind(t) PROVE Spared'
    BY <1>12 DEF Bind, Leave, sync_dispatch_cache, memVars, codeVars, tableVars, threadVars, Spared,
           Retiring, PlaceT, InvT, MemT
  <1>13. ASSUME NEW t \in Threads, CompileLock(t) PROVE Spared'
    BY <1>13 DEF CompileLock, Goto, memVars, codeVars, tableVars, threadVars, Spared, Retiring,
           PlaceT, InvT, MemT
  <1>14. ASSUME NEW t \in Threads, CompileLook(t) PROVE Spared'
    BY <1>14 DEF CompileLook, memVars, codeVars, tableVars, threadVars, Spared, Retiring, PlaceT,
           InvT, MemT
  <1>15. ASSUME NEW t \in Threads, Arm(t) PROVE Spared'
    BY <1>15 DEF Arm, Goto, memVars, codeVars, tableVars, threadVars, Spared, Retiring, PlaceT, InvT,
           MemT
  <1>16. ASSUME NEW t \in Threads, Stage(t) PROVE Spared'
    <2>1. t \in readers BY <1>16 DEF Stage, Goto, Locks
    <2>2. \A u \in Threads : at'[u] \notin Retiring
      BY <1>16, <2>1, NoRetiring DEF Stage, Goto, PlaceT, Retiring, Exclusive
    <2> QED BY <2>2 DEF Spared
  <1>17. ASSUME NEW t \in Threads, StageNothing(t) PROVE Spared'
    BY <1>17 DEF StageNothing, Goto, memVars, codeVars, tableVars, threadVars, Spared, Retiring,
           PlaceT, InvT, MemT
  <1>18. ASSUME NEW t \in Threads, PublishLock(t) PROVE Spared'
    BY <1>18 DEF PublishLock, Goto, memVars, codeVars, tableVars, threadVars, Spared, Retiring,
           PlaceT, InvT, MemT
  <1>19. ASSUME NEW t \in Threads, PublishNothing(t) PROVE Spared'
    BY <1>19 DEF PublishNothing, CompileEnds, Leave, memVars, codeVars, tableVars, threadVars, Spared,
           Retiring, PlaceT, InvT, MemT
  <1>20. ASSUME NEW t \in Threads, PublishStaged(t) PROVE Spared'
    <2>1. at[t] \in Exclusive \ Retiring BY <1>20 DEF PublishStaged, Exclusive, Retiring
    <2>2. \A u \in Threads : at'[u] \notin Retiring
      BY <1>20, <2>1, NoRetiring DEF PublishStaged, CompileEnds, Leave, PlaceT, Retiring, Exclusive
    <2> QED BY <2>2 DEF Spared
  <1>21. ASSUME NEW t \in Threads, PublishStale(t) PROVE Spared'
    BY <1>21 DEF PublishStale, Goto, memVars, codeVars, tableVars, threadVars, Spared, Retiring,
           PlaceT, InvT, MemT
  <1>22. ASSUME NEW t \in Threads, Retry(t) PROVE Spared'
    <2>1. at[t] \in Exclusive \ Retiring BY <1>22 DEF Retry, Exclusive, Retiring
    <2>2. \A u \in Threads : at'[u] \notin Retiring
      BY <1>22, <2>1, NoRetiring DEF Retry, CompileEnds, Leave, PlaceT, Retiring, Exclusive
    <2> QED BY <2>2 DEF Spared
  <1>23. ASSUME NEW t \in Threads, RetryNothing(t) PROVE Spared'
    BY <1>23 DEF RetryNothing, CompileEnds, Leave, memVars, codeVars, tableVars, threadVars, Spared,
           Retiring, PlaceT, InvT, MemT
  <1>24. ASSUME NEW t \in Threads, InvLog(t) PROVE Spared'
    BY <1>24 DEF InvLog, Goto, AfterLog, memVars, codeVars, tableVars, threadVars, Spared, Retiring,
           PlaceT, InvT, MemT
  <1>25. ASSUME NEW t \in Threads, InvFilter(t) PROVE Spared'
    <2>1. writer = None BY <1>25 DEF InvFilter, SharedFree
    <2>2. \A u \in Threads : at'[u] \notin Retiring
      BY <1>25, <2>1, NoRetiring DEF InvFilter, InvEnds, PlaceT, Retiring, Exclusive
    <2> QED BY <2>2 DEF Spared
  <1>26. ASSUME NEW t \in Threads, InvLock(t) PROVE Spared'
    <2>1. at[t] = "ilock" /\ writer = None /\ UNCHANGED <<blocks, words, mem>>
      BY <1>26 DEF InvLock, ExclusiveFree, codeVars
    <2>2. \A u \in Threads : at[u] \notin Retiring
      BY <2>1, NoRetiring
    <2>3. CASE InvEnds(t)
      <3>1. \A u \in Threads : at'[u] \notin Retiring
        BY <2>2, <2>3 DEF InvEnds, PlaceT, Retiring
      <3> QED BY <3>1 DEF Spared
    <2>4. CASE ~InvEnds(t)
      <3>1. /\ at' = [at EXCEPT ![t] = "gen"] /\ owed' = owed
            /\ inv' = [inv EXCEPT ![t].victims = Victims(inv[t].kind, inv[t].range)]
        BY <1>26, <2>4 DEF InvLock
      <3>2. inv[t] \in Invs BY <2>1 DEF Hands, Invalidating, Late
      <3>3. inv'[t].kind = inv[t].kind /\ inv'[t].victims = Victims(inv[t].kind, inv[t].range)
        BY <3>1, <3>2 DEF InvT, Invs
      <3>4. \A u \in Threads : at'[u] \in Retiring => u = t
        BY <2>2, <3>1 DEF PlaceT
      <3>5. ASSUME NEW b \in Blocks, blocks[b] # 0, b \notin Victims(inv[t].kind, inv[t].range)
            PROVE  inv[t].kind # "all" /\ \A l \in Deps[b] \cap owed[t] : words[blocks[b]][l] = mem[l]
        <4>1. inv[t].kind # "all" BY <3>5 DEF Victims
        <4> QED BY <2>1, <3>5, <4>1, SparedUnchanged
      <3> QED BY <2>1, <3>1, <3>3, <3>4, <3>5 DEF Spared
    <2> QED BY <2>3, <2>4
  <1>27. ASSUME NEW t \in Threads, InvGen(t) PROVE Spared'
    BY <1>27 DEF InvGen, Goto, memVars, codeVars, tableVars, threadVars, Spared, Retiring, PlaceT,
           InvT, MemT
  <1>28. ASSUME NEW t \in Threads, InvEpoch(t) PROVE Spared'
    BY <1>28 DEF InvEpoch, Goto, memVars, codeVars, tableVars, threadVars, Spared, Retiring, PlaceT,
           InvT, MemT
  <1>29. ASSUME NEW t \in Threads, InvRetire(t) PROVE Spared'
    <2>1. at[t] = "retire" /\ at' = [at EXCEPT ![t] = "guest"]
      BY <1>29 DEF InvRetire, InvEnds
    <2>2. \A u \in Threads : at'[u] \notin Retiring
      BY <2>1, OneHolder DEF PlaceT, Exclusive, Retiring
    <2> QED BY <2>2 DEF Spared
  <1>30. ASSUME NEW t \in Threads, Observe(t) \/ Chain(t) \/ (\E b \in Blocks : Indirect(t, b)) \/
               Return(t) \/ (\E l \in Lines : Fetch(t, l))
        PROVE  Spared'
    BY <1>30, <1>1 DEF Observe, Chain, Indirect, Return, Fetch, memVars, codeVars, tableVars,
           threadVars
  <1> QED BY <1>1, <1>2, <1>3, <1>4, <1>5, <1>6, <1>7, <1>8, <1>9, <1>10, <1>11, <1>12, <1>13,
            <1>14, <1>15, <1>16, <1>17, <1>18, <1>19, <1>20, <1>21, <1>22, <1>23, <1>24, <1>25,
            <1>26, <1>27, <1>28, <1>29, <1>30 DEF Next, Guest, Lookup, Compile, Invalidation

\* A block is fresh after the end of an invalidation whose own lines do not
\* make it stale.
LEMMA FreshEnds ==
    ASSUME Parts, TableFresh, NEW t \in Threads, owed' = [owed EXCEPT ![t] = {}],
           UNCHANGED <<mem, pcOf, words>>,
           \A b \in Blocks : blocks'[b] # 0 =>
              /\ blocks[b] # 0 /\ blocks'[b] = blocks[b]
              /\ \A l \in Deps[b] \cap owed[t] :
                   words[blocks[b]][l] = mem[l] \/ \E v \in Threads \ {t} : l \in owed[v]
    PROVE  TableFresh'
  <1>1. ASSUME NEW b \in Blocks, blocks'[b] # 0 PROVE (pcOf[blocks[b]] = b /\ Fresh(blocks[b]))'
    <2>1. blocks[b] # 0 /\ blocks'[b] = blocks[b] /\ pcOf[blocks[b]] = b /\ Fresh(blocks[b])
      BY <1>1 DEF TableFresh
    <2>2. ASSUME NEW l \in Deps[b] PROVE words[blocks[b]][l] = mem[l] \/ \E v \in Threads : l \in owed'[v]
      <3>1. CASE l \in owed[t]
        <4>1. ASSUME NEW v \in Threads \ {t}, l \in owed[v] PROVE l \in owed'[v]
          BY <4>1 DEF Parts, MemT
        <4> QED BY <1>1, <3>1, <4>1
      <3>2. CASE l \notin owed[t]
        <4>1. ASSUME NEW v \in Threads, l \in owed[v] PROVE l \in owed'[v]
          BY <3>2, <4>1 DEF Parts, MemT
        <4> QED BY <2>1, <4>1 DEF Fresh, Dirty
      <3> QED BY <3>1, <3>2
    <2> QED BY <2>1, <2>2 DEF Fresh, Dirty
  <1> QED BY <1>1 DEF TableFresh

\* A block published from words that are current, or dirty, is fresh.
LEMMA FreshPublished ==
    ASSUME Parts, TableFresh, NEW b \in Blocks, NEW x, x # 0, blocks' = [blocks EXCEPT ![b] = x],
           UNCHANGED <<mem, owed>>, pcOf'[x] = b,
           \A l \in Deps[b] : words'[x][l] = mem[l] \/ Dirty(l),
           \A c \in Blocks : blocks[c] # 0 => /\ pcOf'[blocks[c]] = pcOf[blocks[c]]
                                               /\ words'[blocks[c]] = words[blocks[c]]
    PROVE  TableFresh'
  <1>1. ASSUME NEW c \in Blocks, blocks'[c] # 0 PROVE (pcOf[blocks[c]] = c /\ Fresh(blocks[c]))'
    <2>1. CASE c = b
      <3>1. blocks'[c] = x BY <2>1 DEF Parts, TabT
      <3> QED BY <2>1, <3>1 DEF Fresh, Dirty
    <2>2. CASE c # b
      <3>1. blocks'[c] = blocks[c] BY <2>2 DEF Parts, TabT
      <3> QED BY <1>1, <3>1 DEF TableFresh, Fresh, Dirty
    <2> QED BY <2>1, <2>2
  <1> QED BY <1>1 DEF TableFresh

LEMMA NotInvalidated ==
    ASSUME NEW b \in Blocks, ~staged_entry_invalidated(b), NEW l \in Deps[b] PROVE ~Logged(l)
  BY DEF staged_entry_invalidated, Logged

LEMMA TableFreshStep ==
    ASSUME Parts, Locks, Hands, Drafted, Indexed, Spared, TableFresh, Next PROVE TableFresh'
  <1> USE Facts, MadeGrows DEF Parts, Drafted
  <1>1. ASSUME UNCHANGED <<blocks, pcOf, words, mem, owed>> PROVE TableFresh'
    BY <1>1 DEF TableFresh, Fresh, Dirty
  <1>2. ASSUME NEW t \in Threads, NEW l \in Lines, NEW v \in Values, Write(t, l, v) PROVE TableFresh'
    <2>1. /\ mem' = [mem EXCEPT ![l] = v] /\ owed' = [owed EXCEPT ![t] = {l}] /\ owed[t] = {}
          /\ UNCHANGED <<blocks, pcOf, words>>
      BY <1>2 DEF Write, tableVars, codeVars
    <2>2. \A m \in Lines : /\ Dirty(m) => Dirty(m)'
                           /\ mem'[m] = mem[m] \/ Dirty(m)'
      BY <2>1 DEF MemT, Dirty
    <2>3. ASSUME NEW b \in Blocks, blocks[b] # 0 PROVE (pcOf[blocks[b]] = b /\ Fresh(blocks[b]))'
      <3>1. pcOf[blocks[b]] = b /\ Fresh(blocks[b]) BY <2>3 DEF TableFresh
      <3> QED BY <2>1, <2>2, <3>1 DEF Fresh
    <2> QED BY <2>1, <2>3 DEF TableFresh
  <1>3. ASSUME NEW t \in Threads, Stage(t) PROVE TableFresh'
    <2>1. /\ made < MaxCode /\ made' = made + 1 /\ UNCHANGED <<blocks, mem, owed>>
          /\ pcOf' = [pcOf EXCEPT ![made'] = want[t]] /\ words' = [words EXCEPT ![made'] = draft]
      BY <1>3 DEF Stage, Emit, memVars, tableVars
    <2>2. made' \notin Made BY <2>1
    <2>3. \A b \in Blocks : blocks[b] # 0 => /\ pcOf'[blocks[b]] = pcOf[blocks[b]]
                                             /\ words'[blocks[b]] = words[blocks[b]]
      BY <2>1, <2>2 DEF TabT, CodeT
    <2> QED BY <2>1, <2>3 DEF TableFresh, Fresh, Dirty
  <1>4. ASSUME NEW t \in Threads, PublishStaged(t) PROVE TableFresh'
    <2>1. /\ at[t] = "pcheck" /\ run[t] # 0 /\ ~staged_entry_invalidated(want[t])
          /\ blocks' = [blocks EXCEPT ![want[t]] = run[t]] /\ UNCHANGED <<mem, owed, pcOf, words>>
      BY <1>4 DEF PublishStaged, Publish, memVars, codeVars
    <2>2. want[t] \in Blocks BY <2>1 DEF Hands, Compiling
    <2>3. words[run[t]] = draft /\ pcOf[run[t]] = want[t] /\ Missing(want[t]) = {}
      BY <2>1 DEF Staged
    <2>4. \A l \in Deps[want[t]] : draft[l] = mem[l] \/ Dirty(l)
      BY <2>1, <2>2, <2>3, NotInvalidated DEF Missing, Noticed, Current
    <2> QED BY <2>1, <2>2, <2>3, <2>4, FreshPublished
  <1>5. ASSUME NEW t \in Threads, Retry(t) PROVE TableFresh'
    <2>0. made < MaxCode /\ made' = made + 1
      BY <1>5 DEF Retry, Emit
    <2>1. /\ at[t] = "retry" /\ Missing(want[t]) = {}
          /\ pcOf' = [pcOf EXCEPT ![made'] = want[t]] /\ words' = [words EXCEPT ![made'] = draft]
          /\ blocks' = [blocks EXCEPT ![want[t]] = made'] /\ UNCHANGED <<mem, owed>>
      BY <1>5 DEF Retry, Emit, Publish, memVars
    <2>2. made' \notin Made /\ made' \in Slots /\ made' # 0 BY <2>0
    <2>3. want[t] \in Blocks BY <2>1 DEF Hands, Compiling
    <2>4. \A b \in Blocks : blocks[b] # 0 => /\ pcOf'[blocks[b]] = pcOf[blocks[b]]
                                             /\ words'[blocks[b]] = words[blocks[b]]
      BY <2>1, <2>2 DEF TabT, CodeT
    <2>5. pcOf'[made'] = want[t] /\ words'[made'] = draft
      BY <2>1, <2>2 DEF CodeT
    <2>6. \A l \in Deps[want[t]] : draft[l] = mem[l] \/ Dirty(l)
      BY <2>1, <2>3 DEF Missing, Noticed, Current
    <2>7. \A l \in Deps[want[t]] : words'[made'][l] = mem[l] \/ Dirty(l)
      BY <2>5, <2>6
    <2> HIDE MadeGrows, Facts
    <2> QED BY <2>1, <2>2, <2>3, <2>4, <2>5, <2>7, FreshPublished
  <1>6. ASSUME NEW t \in Threads, InvFilter(t) PROVE TableFresh'
    <2>1. at[t] = "filter" /\ writer = None /\ UNCHANGED <<blocks, mem, pcOf, words>>
      BY <1>6 DEF InvFilter, SharedFree, codeVars, tableVars
    <2>2. CASE \A g \in GranulesOf(inv[t].range) : index[g] = {}
      <3>1. owed' = [owed EXCEPT ![t] = {}] BY <1>6, <2>2 DEF InvFilter, InvEnds
      <3>2. \A b \in Blocks : blocks[b] # 0 => Deps[b] \cap owed[t] = {}
        BY <2>1, <2>2, SparedUnchanged
      <3> QED BY <2>1, <3>1, <3>2, FreshEnds
    <2>3. CASE ~ \A g \in GranulesOf(inv[t].range) : index[g] = {}
      <3>1. owed' = owed BY <1>6, <2>3 DEF InvFilter
      <3> QED BY <1>1, <2>1, <3>1
    <2> QED BY <2>2, <2>3
  <1>7. ASSUME NEW t \in Threads, InvLock(t) PROVE TableFresh'
    <2>1. at[t] = "ilock" /\ writer = None /\ UNCHANGED <<blocks, mem, pcOf, words>>
      BY <1>7 DEF InvLock, ExclusiveFree, codeVars
    <2>2. CASE owed' = owed BY <1>1, <2>1, <2>2
    <2>3. CASE owed' # owed
      <3>1. owed' = [owed EXCEPT ![t] = {}] /\ Victims(inv[t].kind, inv[t].range) = {}
        BY <1>7, <2>3 DEF InvLock, InvEnds
      <3>2. \A b \in Blocks : blocks[b] # 0 => \A l \in Deps[b] \cap owed[t] : words[blocks[b]][l] = mem[l]
        BY <2>1, <3>1, SparedUnchanged
      <3>3. \A b \in Blocks : blocks'[b] # 0 =>
              /\ blocks[b] # 0 /\ blocks'[b] = blocks[b]
              /\ \A l \in Deps[b] \cap owed[t] :
                   words[blocks[b]][l] = mem[l] \/ \E v \in Threads \ {t} : l \in owed[v]
        BY <2>1, <3>2
      <3> HIDE MadeGrows, Facts
      <3> QED BY <2>1, <3>1, <3>3, FreshEnds
    <2> QED BY <2>2, <2>3
  <1>8. ASSUME NEW t \in Threads, InvRetire(t) PROVE TableFresh'
    <2>1. /\ at[t] \in Retiring /\ owed' = [owed EXCEPT ![t] = {}] /\ UNCHANGED <<mem, pcOf, words>>
          /\ blocks' = [b \in Blocks |-> IF b \in inv[t].victims THEN 0 ELSE blocks[b]]
      BY <1>8 DEF InvRetire, InvEnds, codeVars, Retiring
    <2>2. \A b \in Blocks : blocks'[b] # 0 =>
            blocks[b] # 0 /\ blocks'[b] = blocks[b] /\ b \notin inv[t].victims
      BY <2>1
    <2> QED BY <2>1, <2>2, FreshEnds DEF Spared
  <1>9. ASSUME NEW t \in Threads, Observe(t) \/ Chain(t) \/ (\E b \in Blocks : Indirect(t, b)) \/
               (\E b \in Blocks : Call(t, b)) \/ Return(t) \/ (\E b \in Blocks : Dispatch(t, b))
               \/ (\E kind \in Kinds : Invalidate(t, kind)) \/ Sync(t) \/ LookCache(t) \/
               LookTable(t) \/ TryChain(t) \/ Fill(t) \/ Lease(t) \/ Bind(t) \/ CompileLock(t) \/
               CompileLook(t) \/ Arm(t) \/ (\E l \in Lines : Fetch(t, l)) \/ StageNothing(t) \/
               PublishLock(t) \/ PublishNothing(t) \/ PublishStale(t) \/ RetryNothing(t) \/
               InvLog(t) \/ InvGen(t) \/ InvEpoch(t)
        PROVE  TableFresh'
    BY <1>9, <1>1 DEF Observe, Chain, Indirect, Call, Goto, Return, Dispatch, Invalidate, Sync,
           sync_dispatch_cache, LookCache, Leave, LookTable, TryChain, Fill, Lease, Bind,
           CompileLock, CompileLook, Arm, Fetch, StageNothing, PublishLock, PublishNothing,
           CompileEnds, PublishStale, RetryNothing, InvLog, InvGen, InvEpoch, memVars, codeVars,
           tableVars
  <1> QED BY <1>1, <1>2, <1>3, <1>4, <1>5, <1>6, <1>7, <1>8, <1>9 DEF Next, Guest, Lookup, Compile,
            Invalidation

-----------------------------------------------------------------------------
(* The edges. *)

LEMMA LinkedEdges ==
    ASSUME NEW b \in Blocks, NEW bs, NEW lv, NEW pcs, bs[b] # 0 => pcs[bs[b]] = b,
           \A x \in Slots : edge[x] # 0 =>
              x \in lv /\ (Target[pcs[x]] # b => edge[x] = bs[Target[pcs[x]]]),
           NEW e, e = [x \in Slots |->
                         IF x \in lv /\ Target[pcs[x]] = b THEN bs[b]
                         ELSE IF x = bs[b] /\ x \in lv /\ bs[Target[b]] # 0 THEN bs[Target[b]]
                         ELSE edge[x]]
    PROVE  \A x \in Slots : e[x] # 0 => x \in lv /\ e[x] = bs[Target[pcs[x]]]
  <1> SUFFICES ASSUME NEW x \in Slots, e[x] # 0 PROVE x \in lv /\ e[x] = bs[Target[pcs[x]]]
    OBVIOUS
  <1>1. CASE x \in lv /\ Target[pcs[x]] = b BY <1>1
  <1>2. CASE ~(x \in lv /\ Target[pcs[x]] = b) /\ x = bs[b] /\ x \in lv /\ bs[Target[b]] # 0
    <2>1. e[x] = bs[Target[b]] BY <1>2
    <2>2. x # 0 BY Facts DEF Slots
    <2> QED BY <1>2, <2>1, <2>2
  <1>3. CASE ~(x \in lv /\ Target[pcs[x]] = b) /\ ~(x = bs[b] /\ x \in lv /\ bs[Target[b]] # 0)
    <2>1. e[x] = edge[x] BY <1>3
    <2> QED BY <1>3, <2>1
  <1> QED BY <1>1, <1>2, <1>3

\* The slot after the last one has no edge.
LEMMA NextCold == ASSUME Parts, Edges, made < MaxCode, made' = made + 1 PROVE edge[made'] = 0
  <1>1. made' \in Slots /\ made' \notin Made BY MadeGrows DEF Parts
  <1> HIDE DEF Made
  <1> QED BY <1>1 DEF Edges, Parts, EdgeT

\* Publishing x for block b keeps the edges true to the table.
LEMMA EdgesPublished ==
    ASSUME Parts, Edges, NEW b \in Blocks, blocks[b] = 0, NEW x, pcOf'[x] = b,
           blocks' = [blocks EXCEPT ![b] = x], edge' = Linked(b, blocks', live', pcOf'),
           live \subseteq live', \A y \in Slots : edge[y] # 0 => pcOf'[y] = pcOf[y]
    PROVE  Edges'
  <1>1. blocks'[b] = x BY DEF Parts, TabT
  <1>2. ASSUME NEW y \in Slots, edge[y] # 0
        PROVE  y \in live' /\ (Target[pcOf'[y]] # b => edge[y] = blocks'[Target[pcOf'[y]]])
    <2>1. y \in live /\ edge[y] = blocks[Target[pcOf[y]]] /\ pcOf'[y] = pcOf[y]
      BY <1>2 DEF Edges
    <2>2. Target[pcOf[y]] \in Blocks BY Facts DEF Parts, CodeT
    <2> QED BY <2>1, <2>2 DEF Parts, TabT
  <1>3. \A y \in Slots : edge'[y] # 0 => y \in live' /\ edge'[y] = blocks'[Target[pcOf'[y]]]
    <2>1. PICK bs : bs = blocks' OBVIOUS
    <2>2. PICK lv : lv = live' OBVIOUS
    <2>3. PICK pcs : pcs = pcOf' OBVIOUS
    <2>4. PICK e : e = edge' OBVIOUS
    <2>5. bs[b] # 0 => pcs[bs[b]] = b BY <1>1, <2>1, <2>3
    <2>6. \A y \in Slots : edge[y] # 0 => y \in lv /\ (Target[pcs[y]] # b => edge[y] = bs[Target[pcs[y]]])
      BY <1>2, <2>1, <2>2, <2>3
    <2>7. e = [y \in Slots |->
                 IF y \in lv /\ Target[pcs[y]] = b THEN bs[b]
                 ELSE IF y = bs[b] /\ y \in lv /\ bs[Target[b]] # 0 THEN bs[Target[b]]
                 ELSE edge[y]]
      BY <2>1, <2>2, <2>3, <2>4 DEF Linked
    <2>8. \A y \in Slots : e[y] # 0 => y \in lv /\ e[y] = bs[Target[pcs[y]]]
      BY <2>5, <2>6, <2>7, LinkedEdges, SMTT(60)
    <2> QED BY <2>1, <2>2, <2>3, <2>4, <2>8
  <1> QED BY <1>3 DEF Edges

LEMMA EdgesRelinked ==
    ASSUME Edges, NEW b \in Blocks, blocks[b] # 0 => pcOf[blocks[b]] = b,
           edge' = Linked(b, blocks, live, pcOf), UNCHANGED <<live, blocks, pcOf>>
    PROVE  Edges'
  <1>1. PICK e : e = edge' OBVIOUS
  <1>2. e = [x \in Slots |->
               IF x \in live /\ Target[pcOf[x]] = b THEN blocks[b]
               ELSE IF x = blocks[b] /\ x \in live /\ blocks[Target[b]] # 0 THEN blocks[Target[b]]
               ELSE edge[x]]
    BY <1>1 DEF Linked
  <1>3. \A x \in Slots : edge[x] # 0 =>
            x \in live /\ (Target[pcOf[x]] # b => edge[x] = blocks[Target[pcOf[x]]])
    BY DEF Edges
  <1>4. \A x \in Slots : e[x] # 0 => x \in live /\ e[x] = blocks[Target[pcOf[x]]]
    BY <1>2, <1>3, LinkedEdges
  <1> QED BY <1>1, <1>4 DEF Edges

LEMMA EdgesStep == ASSUME Parts, Hands, Staged, TableFresh, Edges, Next PROVE Edges'
  <1> USE Facts, MadeGrows DEF Parts
  <1>1. ASSUME UNCHANGED <<edge, live, blocks, pcOf>> PROVE Edges'
    BY <1>1 DEF Edges
  <1>2. ASSUME NEW t \in Threads, TryChain(t) PROVE Edges'
    <2>1. UNCHANGED <<live, blocks, pcOf>> /\ at[t] = "chain"
      BY <1>2 DEF TryChain, Goto, tableVars, codeVars
    <2>2. want[t] \in Blocks BY <2>1 DEF Hands, Looking
    <2>3. CASE edge' = edge BY <1>1, <2>1, <2>3
    <2>4. CASE edge' = Linked(want[t], blocks, live, pcOf)
      <3>1. blocks[want[t]] # 0 => pcOf[blocks[want[t]]] = want[t] BY <2>2 DEF TableFresh
      <3> QED BY <2>1, <2>2, <2>4, <3>1, EdgesRelinked
    <2> QED BY <1>2, <2>3, <2>4 DEF TryChain
  <1>3. ASSUME NEW t \in Threads, Stage(t) PROVE Edges'
    <2>1. made < MaxCode /\ made' = made + 1
      BY <1>3 DEF Stage, Emit
    <2>2. /\ live' = live \cup {made'} /\ UNCHANGED <<edge, blocks>>
          /\ pcOf' = [pcOf EXCEPT ![made'] = want[t]]
      BY <1>3 DEF Stage, Emit, tableVars
    <2>3. edge[made'] = 0 BY <2>1, NextCold
    <2> QED BY <2>2, <2>3 DEF Edges, CodeT
  <1>4. ASSUME NEW t \in Threads, PublishStaged(t) PROVE Edges'
    <2>1. /\ at[t] = "pcheck" /\ run[t] # 0 /\ UNCHANGED <<live, pcOf>>
          /\ blocks' = [blocks EXCEPT ![want[t]] = run[t]]
          /\ edge' = Linked(want[t], blocks', live', pcOf')
      BY <1>4 DEF PublishStaged, Publish, codeVars
    <2>2. want[t] \in Blocks /\ blocks[want[t]] = 0 BY <2>1 DEF Hands, Compiling, Drafting
    <2>3. pcOf'[run[t]] = want[t] BY <2>1 DEF Staged
    <2> QED BY <2>1, <2>2, <2>3, EdgesPublished
  <1>5. ASSUME NEW t \in Threads, PublishStale(t) PROVE Edges'
    <2>1. /\ live' = live \ {run[t]} /\ edge' = [edge EXCEPT ![run[t]] = 0]
          /\ UNCHANGED <<blocks, pcOf>>
      BY <1>5 DEF PublishStale, tableVars, codeVars
    <2> QED BY <2>1 DEF Edges, EdgeT
  <1>6. ASSUME NEW t \in Threads, Retry(t) PROVE Edges'
    <2>1. made < MaxCode /\ made' = made + 1
      BY <1>6 DEF Retry, Emit
    <2>2. /\ at[t] = "retry" /\ live' = live \cup {made'}
          /\ pcOf' = [pcOf EXCEPT ![made'] = want[t]]
          /\ blocks' = [blocks EXCEPT ![want[t]] = made']
          /\ edge' = Linked(want[t], blocks', live', pcOf')
      BY <1>6 DEF Retry, Emit, Publish
    <2>3. want[t] \in Blocks /\ blocks[want[t]] = 0 BY <2>2 DEF Hands, Compiling, Drafting
    <2>4. edge[made'] = 0 BY <2>1, NextCold
    <2>5. made' \in Slots BY <2>1
    <2>6. pcOf'[made'] = want[t] /\ \A y \in Slots : edge[y] # 0 => pcOf'[y] = pcOf[y]
      BY <2>2, <2>4, <2>5 DEF CodeT
    <2> QED BY <2>2, <2>3, <2>6, EdgesPublished
  <1>7. ASSUME NEW t \in Threads, InvRetire(t) PROVE Edges'
    <2> DEFINE dead == IF inv[t].kind = "all" THEN Slots ELSE Out(inv[t].victims)
    <2>1. /\ live' = live \ dead /\ pcOf' = pcOf
          /\ edge' = [x \in Slots |-> IF x \in dead \cup Into(inv[t].victims) THEN 0 ELSE edge[x]]
          /\ blocks' = [b \in Blocks |-> IF b \in inv[t].victims THEN 0 ELSE blocks[b]]
      BY <1>7 DEF InvRetire, codeVars
    <2> HIDE DEF dead
    <2>2. ASSUME NEW x \in Slots, edge'[x] # 0 PROVE x \in live' /\ edge'[x] = blocks'[Target[pcOf'[x]]]
      <3>1. x \notin dead /\ x \notin Into(inv[t].victims) /\ edge'[x] = edge[x] /\ edge[x] # 0
        BY <2>1, <2>2
      <3>2. x \in live /\ edge[x] = blocks[Target[pcOf[x]]] BY <3>1 DEF Edges
      <3>3. Target[pcOf[x]] \in Blocks \ inv[t].victims
        BY <3>1 DEF Into, CodeT
      <3> QED BY <2>1, <3>1, <3>2, <3>3
    <2> QED BY <2>2 DEF Edges
  <1>8. ASSUME NEW t \in Threads, (\E l \in Lines, v \in Values : Write(t, l, v)) \/ Observe(t) \/
               Chain(t) \/ (\E b \in Blocks : Indirect(t, b)) \/ (\E b \in Blocks : Call(t, b)) \/
               Return(t) \/ (\E b \in Blocks : Dispatch(t, b)) \/ (\E kind \in Kinds :
               Invalidate(t, kind)) \/ Sync(t) \/ LookCache(t) \/ LookTable(t) \/ Fill(t) \/
               Lease(t) \/ Bind(t) \/ CompileLock(t) \/ CompileLook(t) \/ Arm(t) \/ (\E l \in
               Lines : Fetch(t, l)) \/ StageNothing(t) \/ PublishLock(t) \/ PublishNothing(t) \/
               RetryNothing(t) \/ InvLog(t) \/ InvFilter(t) \/ InvLock(t) \/ InvGen(t) \/
               InvEpoch(t)
        PROVE  Edges'
    BY <1>8, <1>1 DEF Write, Observe, Chain, Indirect, Call, Goto, Return, Dispatch, Invalidate, Sync,
           sync_dispatch_cache, LookCache, Leave, LookTable, Fill, Lease, Bind, CompileLock,
           CompileLook, Arm, Fetch, StageNothing, PublishLock, PublishNothing, CompileEnds,
           RetryNothing, InvLog, InvFilter, InvEnds, InvLock, InvGen, InvEpoch, codeVars,
           edgeVars, tableVars
  <1> QED BY <1>1, <1>2, <1>3, <1>4, <1>5, <1>6, <1>7, <1>8 DEF Next, Guest, Lookup, Compile,
            Invalidation

-----------------------------------------------------------------------------
(* The theorems about the table. *)

LEMMA InitParts == ASSUME Init PROVE Parts
  <1> USE DEF Init
  <1>1. 0 \in Made BY DEF Made
  <1>2. (CHOOSE v \in Values : TRUE) \in Values /\ (CHOOSE b \in Blocks : TRUE) \in Blocks
    BY Facts
  <1>3. MemT /\ EdgeT /\ TabT /\ LockT /\ GenT /\ TlsT /\ PlaceT /\ RunT /\ InvT
    BY <1>1, <1>2, Facts DEF MemT, EdgeT, TabT, LockT, GenT, TlsT, PlaceT, RunT, InvT, Empty,
         Places, NoBlock
  <1>4. CodeT BY <1>2, Facts DEF CodeT, NoWords
  <1>5. <<>> \in Seq(SUBSET Lines) /\ Len(<<>>) <= LogMax BY Facts
  <1>6. CompT BY <1>5 DEF CompT, NoWords
  <1> QED BY <1>3, <1>4, <1>6 DEF Parts

LEMMA InitTable == ASSUME Init PROVE TableInv
  <1>1. TypeOK BY InitParts, TypeJoin
  <1>2. Locks /\ Hands
    BY Facts DEF Init, Locks, Hands, Exclusive, Compiling, Looking, Drafting, Invalidating, Late,
         Retiring
  <1>3. Drafted
    BY DEF Init, Drafted, Noticed, Idle, Staged
  <1>4. Indexed /\ Spared /\ TableFresh /\ Edges
    BY DEF Init, Indexed, Spared, TableFresh, Edges, Empty, Retiring
  <1> QED BY <1>1, <1>2, <1>3, <1>4 DEF TableInv

LEMMA TableStep == ASSUME TableInv, Next PROVE TableInv'
  <1>1. Parts BY TypeSplit DEF TableInv
  <1>2. TypeOK'
    <2>1. Parts' BY <1>1, TypeStep DEF TableInv
    <2> QED BY <2>1, TypeJoinNext
  <1>3. Locks' BY <1>1, LocksStep DEF TableInv
  <1>4. Hands' BY <1>1, HandsStep DEF TableInv
  <1>5. Drafted' BY <1>1, IdleStep, StagedStep, NoticedStep DEF TableInv, Drafted
  <1>6. Indexed' BY <1>1, IndexedStep DEF TableInv
  <1>7. Spared' BY <1>1, SparedStep DEF TableInv
  <1>8. TableFresh' BY <1>1, TableFreshStep DEF TableInv
  <1>9. Edges' BY <1>1, EdgesStep DEF TableInv, Drafted
  <1> QED BY <1>2, <1>3, <1>4, <1>5, <1>6, <1>7, <1>8, <1>9 DEF TableInv

LEMMA TableStutter == ASSUME TableInv, UNCHANGED vars PROVE TableInv'
  <1> USE DEF vars, memVars, codeVars, edgeVars, tableVars, lockVars, compVars, genVars, tlsVars, threadVars
  <1>1. TypeOK' BY DEF TableInv, TypeOK
  <1>2. Locks' /\ Hands' BY DEF TableInv, Locks, Hands
  <1>3. Drafted'
    BY DEF TableInv, Drafted, Noticed, Idle, Staged, Current, Logged, Coming, Dirty, Missing
  <1>4. Indexed' /\ Spared' BY DEF TableInv, Indexed, Spared
  <1>5. TableFresh' /\ Edges' BY DEF TableInv, TableFresh, Fresh, Dirty, Edges
  <1> QED BY <1>1, <1>2, <1>3, <1>4, <1>5 DEF TableInv

LEMMA TableAlways == Spec => []TableInv
  <1>1. Init => TableInv BY InitTable
  <1>2. TableInv /\ [Next]_vars => TableInv' BY TableStep, TableStutter
  <1> QED BY <1>1, <1>2, PTL DEF Spec

\* The variables of CodeCache.cpp and Dispatch.cpp keep their types: no edge,
\* table entry or cache entry ever names a slot of the code buffer that was
\* not emitted, and the log of invalidations never exceeds its array.
THEOREM CacheTypes == Spec => []TypeOK
  <1>1. TableInv => TypeOK BY DEF TableInv
  <1> QED BY <1>1, TableAlways, PTL

\* compile_entry never publishes, and no invalidation ever leaves, a block
\* that is older than the last completed invalidation of a line it depends on.
THEOREM PublishedFresh == Spec => []TableFresh
  <1>1. TableInv => TableFresh BY DEF TableInv
  <1> QED BY <1>1, TableAlways, PTL

\* No chain edge, of a published block or of a retired one that still runs,
\* leads to revoked code.
THEOREM ChainsFresh == Spec => []EdgesFresh
  <1>1. ASSUME TableInv PROVE EdgesFresh
    <2>1. Parts BY <1>1, TypeSplit DEF TableInv
    <2>2. ASSUME NEW x \in Slots, edge[x] # 0 PROVE Fresh(edge[x])
      <3>1. edge[x] = blocks[Target[pcOf[x]]] BY <1>1, <2>2 DEF TableInv, Edges
      <3>2. Target[pcOf[x]] \in Blocks BY <2>1, Facts DEF Parts, CodeT
      <3> QED BY <1>1, <2>2, <3>1, <3>2 DEF TableInv, TableFresh
    <2> QED BY <2>2 DEF EdgesFresh
  <1>2. TableInv => EdgesFresh BY <1>1
  <1> QED BY <1>2, TableAlways, PTL

-----------------------------------------------------------------------------
(* What a thread knows to be clean, the generation and the epoch. *)

LEMMA ObservedStep == ASSUME Parts, Observed, Next PROVE Observed'
  <1> USE Facts DEF Parts
  <1>1. ASSUME UNCHANGED <<obs, owed>> PROVE Observed'
    BY <1>1 DEF Observed, Dirty, MemT
  <1>2. ASSUME NEW t \in Threads, NEW l \in Lines, NEW v \in Values, Write(t, l, v) PROVE Observed'
    BY <1>2 DEF Write, memVars, Observed, Dirty, MemT
  <1>3. ASSUME NEW t \in Threads, Observe(t) PROVE Observed'
    BY <1>3 DEF Observe, memVars, Observed, Dirty, MemT
  <1>4. ASSUME NEW t \in Threads, InvFilter(t) PROVE Observed'
    BY <1>4 DEF InvFilter, InvEnds, memVars, Observed, Dirty, MemT
  <1>5. ASSUME NEW t \in Threads, InvLock(t) PROVE Observed'
    <2>1. obs' = obs /\ (owed' = owed \/ owed' = [owed EXCEPT ![t] = {}])
      BY <1>5 DEF InvLock, InvEnds
    <2> QED BY <2>1 DEF Observed, Dirty, MemT
  <1>6. ASSUME NEW t \in Threads, InvRetire(t) PROVE Observed'
    BY <1>6 DEF InvRetire, InvEnds, memVars, Observed, Dirty, MemT
  <1>7. ASSUME NEW t \in Threads, Chain(t) \/ (\E b \in Blocks : Indirect(t, b)) \/ (\E b \in Blocks
               : Call(t, b)) \/ Return(t) \/ (\E b \in Blocks : Dispatch(t, b)) \/ (\E kind \in
               Kinds : Invalidate(t, kind)) \/ Sync(t) \/ LookCache(t) \/ LookTable(t) \/
               TryChain(t) \/ Fill(t) \/ Lease(t) \/ Bind(t) \/ CompileLock(t) \/ CompileLook(t)
               \/ Arm(t) \/ (\E l \in Lines : Fetch(t, l)) \/ Stage(t) \/ StageNothing(t) \/
               PublishLock(t) \/ PublishNothing(t) \/ PublishStaged(t) \/ PublishStale(t) \/
               Retry(t) \/ RetryNothing(t) \/ InvLog(t) \/ InvGen(t) \/ InvEpoch(t)
        PROVE  Observed'
    BY <1>7, <1>1 DEF Chain, Indirect, Call, Goto, Return, Dispatch, Invalidate, Sync,
           sync_dispatch_cache, LookCache, Leave, LookTable, TryChain, Fill, Lease, Bind,
           CompileLock, CompileLook, Arm, Fetch, Stage, Emit, StageNothing, PublishLock,
           PublishNothing, CompileEnds, PublishStaged, Publish, PublishStale, Retry, RetryNothing,
           InvLog, InvGen, InvEpoch, memVars
  <1> QED BY <1>1, <1>2, <1>3, <1>4, <1>5, <1>6, <1>7 DEF Next, Guest, Lookup, Compile, Invalidation

LEMMA EpochsStep == ASSUME Parts, Locks, Epochs, Next PROVE Epochs'
  <1> USE Facts DEF Parts
  <1>1. ASSUME UNCHANGED <<gen, epoch, at>> PROVE Epochs'
    BY <1>1 DEF Epochs, PlaceT
  <1>2. ASSUME NEW t \in Threads, NEW b \in Blocks, Call(t, b) PROVE Epochs'
    BY <1>2 DEF Call, Goto, genVars, threadVars, Epochs, PlaceT
  <1>3. ASSUME NEW t \in Threads, NEW b \in Blocks, Dispatch(t, b) PROVE Epochs'
    BY <1>3 DEF Dispatch, Goto, genVars, threadVars, Epochs, PlaceT
  <1>4. ASSUME NEW t \in Threads, NEW kind \in Kinds, Invalidate(t, kind) PROVE Epochs'
    BY <1>4 DEF Invalidate, AfterLog, genVars, threadVars, Epochs, PlaceT
  <1>5. ASSUME NEW t \in Threads, Sync(t) PROVE Epochs'
    BY <1>5 DEF Sync, Goto, sync_dispatch_cache, genVars, threadVars, Epochs, PlaceT
  <1>6. ASSUME NEW t \in Threads, LookCache(t) PROVE Epochs'
    BY <1>6 DEF LookCache, Leave, genVars, threadVars, Epochs, PlaceT
  <1>7. ASSUME NEW t \in Threads, LookTable(t) PROVE Epochs'
    BY <1>7 DEF LookTable, genVars, threadVars, Epochs, PlaceT
  <1>8. ASSUME NEW t \in Threads, TryChain(t) PROVE Epochs'
    BY <1>8 DEF TryChain, Goto, Linked, genVars, threadVars, Epochs, PlaceT
  <1>9. ASSUME NEW t \in Threads, Fill(t) PROVE Epochs'
    BY <1>9 DEF Fill, Leave, genVars, threadVars, Epochs, PlaceT
  <1>10. ASSUME NEW t \in Threads, Lease(t) PROVE Epochs'
    BY <1>10 DEF Lease, Goto, genVars, threadVars, Epochs, PlaceT
  <1>11. ASSUME NEW t \in Threads, Bind(t) PROVE Epochs'
    BY <1>11 DEF Bind, Leave, sync_dispatch_cache, genVars, threadVars, Epochs, PlaceT
  <1>12. ASSUME NEW t \in Threads, CompileLock(t) PROVE Epochs'
    BY <1>12 DEF CompileLock, Goto, genVars, threadVars, Epochs, PlaceT
  <1>13. ASSUME NEW t \in Threads, CompileLook(t) PROVE Epochs'
    BY <1>13 DEF CompileLook, genVars, threadVars, Epochs, PlaceT
  <1>14. ASSUME NEW t \in Threads, Arm(t) PROVE Epochs'
    BY <1>14 DEF Arm, Goto, genVars, threadVars, Epochs, PlaceT
  <1>15. ASSUME NEW t \in Threads, Stage(t) PROVE Epochs'
    BY <1>15 DEF Stage, Goto, Emit, genVars, threadVars, Epochs, PlaceT
  <1>16. ASSUME NEW t \in Threads, StageNothing(t) PROVE Epochs'
    BY <1>16 DEF StageNothing, Goto, genVars, threadVars, Epochs, PlaceT
  <1>17. ASSUME NEW t \in Threads, PublishLock(t) PROVE Epochs'
    BY <1>17 DEF PublishLock, Goto, genVars, threadVars, Epochs, PlaceT
  <1>18. ASSUME NEW t \in Threads, PublishNothing(t) PROVE Epochs'
    BY <1>18 DEF PublishNothing, CompileEnds, Leave, genVars, threadVars, Epochs, PlaceT
  <1>19. ASSUME NEW t \in Threads, PublishStaged(t) PROVE Epochs'
    BY <1>19 DEF PublishStaged, Publish, Linked, CompileEnds, Leave, genVars, threadVars, Epochs,
           PlaceT
  <1>20. ASSUME NEW t \in Threads, PublishStale(t) PROVE Epochs'
    BY <1>20 DEF PublishStale, Goto, genVars, threadVars, Epochs, PlaceT
  <1>21. ASSUME NEW t \in Threads, Retry(t) PROVE Epochs'
    BY <1>21 DEF Retry, Emit, Publish, Linked, CompileEnds, Leave, genVars, threadVars, Epochs, PlaceT
  <1>22. ASSUME NEW t \in Threads, RetryNothing(t) PROVE Epochs'
    BY <1>22 DEF RetryNothing, CompileEnds, Leave, genVars, threadVars, Epochs, PlaceT
  <1>23. ASSUME NEW t \in Threads, InvLog(t) PROVE Epochs'
    BY <1>23 DEF InvLog, Goto, AfterLog, genVars, threadVars, Epochs, PlaceT
  <1>24. ASSUME NEW t \in Threads, InvFilter(t) PROVE Epochs'
    BY <1>24 DEF InvFilter, InvEnds, genVars, threadVars, Epochs, PlaceT
  <1>25. ASSUME NEW t \in Threads, InvLock(t) PROVE Epochs'
    BY <1>25 DEF InvLock, InvEnds, genVars, threadVars, Epochs, PlaceT
  <1>26. ASSUME NEW t \in Threads, InvGen(t) PROVE Epochs'
    <2>1. at[t] = "gen" /\ at' = [at EXCEPT ![t] = "epoch"] /\ gen' = gen + 1 /\ epoch' = epoch
      BY <1>26 DEF InvGen, Goto
    <2>2. ~ \E u \in Threads : at[u] = "epoch" BY <2>1, OneHolder DEF Exclusive
    <2>3. \E u \in Threads : at'[u] = "epoch" BY <2>1 DEF PlaceT
    <2>4. gen = epoch + 1 BY <2>2 DEF Epochs
    <2>5. gen' = epoch' + 2 BY <2>1, <2>4 DEF GenT
    <2> QED BY <2>3, <2>5 DEF Epochs
  <1>27. ASSUME NEW t \in Threads, InvEpoch(t) PROVE Epochs'
    <2>1. at[t] = "epoch" /\ at' = [at EXCEPT ![t] = "retire"] /\ gen' = gen /\ epoch' = epoch + 1
      BY <1>27 DEF InvEpoch, Goto
    <2>2. \A u \in Threads : at[u] = "epoch" => u = t BY <2>1, OneHolder DEF Exclusive
    <2>3. ~ \E u \in Threads : at'[u] = "epoch" BY <2>1, <2>2 DEF PlaceT
    <2>4. gen = epoch + 2 BY <2>1 DEF Epochs
    <2>5. gen' = epoch' + 1 BY <2>1, <2>4 DEF GenT
    <2> QED BY <2>3, <2>5 DEF Epochs
  <1>28. ASSUME NEW t \in Threads, InvRetire(t) PROVE Epochs'
    BY <1>28 DEF InvRetire, InvEnds, genVars, threadVars, Epochs, PlaceT
  <1>29. ASSUME NEW t \in Threads, (\E l \in Lines, v \in Values : Write(t, l, v)) \/ Observe(t) \/
               Chain(t) \/ (\E b \in Blocks : Indirect(t, b)) \/ Return(t) \/ (\E l \in Lines :
               Fetch(t, l))
        PROVE  Epochs'
    BY <1>29, <1>1 DEF Write, Observe, Chain, Indirect, Return, Fetch, genVars, threadVars
  <1> QED BY <1>1, <1>2, <1>3, <1>4, <1>5, <1>6, <1>7, <1>8, <1>9, <1>10, <1>11, <1>12, <1>13,
            <1>14, <1>15, <1>16, <1>17, <1>18, <1>19, <1>20, <1>21, <1>22, <1>23, <1>24, <1>25,
            <1>26, <1>27, <1>28, <1>29 DEF Next, Guest, Lookup, Compile, Invalidation

LEMMA GenAhead == ASSUME Parts, Epochs PROVE gen > epoch
  BY DEF Parts, GenT, Epochs

LEMMA LeasesStep == ASSUME Parts, Epochs, Leases, Next PROVE Leases'
  <1> USE Facts, GenAhead DEF Parts
  <1>1. ASSUME UNCHANGED <<gen, epoch, at, tlsGen, seen, ibl>> PROVE Leases'
    BY <1>1 DEF Leases, Looking, Compiling, PlaceT, TlsT, GenT
  <1>2. ASSUME NEW t \in Threads, NEW b \in Blocks, Call(t, b) PROVE Leases'
    BY <1>2 DEF Call, Goto, genVars, tlsVars, threadVars, Leases, Looking, Compiling, PlaceT, TlsT,
           GenT
  <1>3. ASSUME NEW t \in Threads, NEW b \in Blocks, Dispatch(t, b) PROVE Leases'
    BY <1>3 DEF Dispatch, Goto, genVars, tlsVars, threadVars, Leases, Looking, Compiling, PlaceT,
           TlsT, GenT
  <1>4. ASSUME NEW t \in Threads, NEW kind \in Kinds, Invalidate(t, kind) PROVE Leases'
    BY <1>4 DEF Invalidate, AfterLog, genVars, tlsVars, threadVars, Leases, Looking, Compiling,
           PlaceT, TlsT, GenT
  <1>5. ASSUME NEW t \in Threads, Sync(t) PROVE Leases'
    BY <1>5 DEF Sync, Goto, sync_dispatch_cache, genVars, tlsVars, threadVars, Leases, Looking,
           Compiling, PlaceT, TlsT, GenT, Empty
  <1>6. ASSUME NEW t \in Threads, LookCache(t) PROVE Leases'
    BY <1>6 DEF LookCache, Leave, genVars, tlsVars, threadVars, Leases, Looking, Compiling, PlaceT,
           TlsT, GenT
  <1>7. ASSUME NEW t \in Threads, LookTable(t) PROVE Leases'
    BY <1>7 DEF LookTable, genVars, tlsVars, threadVars, Leases, Looking, Compiling, PlaceT, TlsT,
           GenT
  <1>8. ASSUME NEW t \in Threads, TryChain(t) PROVE Leases'
    BY <1>8 DEF TryChain, Goto, Linked, genVars, tlsVars, threadVars, Leases, Looking, Compiling,
           PlaceT, TlsT, GenT
  <1>9. ASSUME NEW t \in Threads, Fill(t) PROVE Leases'
    BY <1>9 DEF Fill, Leave, genVars, tlsVars, threadVars, Leases, Looking, Compiling, PlaceT, TlsT,
           GenT
  <1>10. ASSUME NEW t \in Threads, Lease(t) PROVE Leases'
    BY <1>10 DEF Lease, Goto, genVars, tlsVars, threadVars, Leases, Looking, Compiling, PlaceT, TlsT,
           GenT
  <1>11. ASSUME NEW t \in Threads, Bind(t) PROVE Leases'
    BY <1>11 DEF Bind, Leave, sync_dispatch_cache, genVars, tlsVars, threadVars, Leases, Looking,
           Compiling, PlaceT, TlsT, GenT, Empty
  <1>12. ASSUME NEW t \in Threads, CompileLock(t) PROVE Leases'
    BY <1>12 DEF CompileLock, Goto, genVars, tlsVars, threadVars, Leases, Looking, Compiling, PlaceT,
           TlsT, GenT
  <1>13. ASSUME NEW t \in Threads, CompileLook(t) PROVE Leases'
    BY <1>13 DEF CompileLook, genVars, tlsVars, threadVars, Leases, Looking, Compiling, PlaceT, TlsT,
           GenT
  <1>14. ASSUME NEW t \in Threads, Arm(t) PROVE Leases'
    BY <1>14 DEF Arm, Goto, genVars, tlsVars, threadVars, Leases, Looking, Compiling, PlaceT, TlsT,
           GenT
  <1>15. ASSUME NEW t \in Threads, Stage(t) PROVE Leases'
    BY <1>15 DEF Stage, Goto, Emit, genVars, tlsVars, threadVars, Leases, Looking, Compiling, PlaceT,
           TlsT, GenT
  <1>16. ASSUME NEW t \in Threads, StageNothing(t) PROVE Leases'
    BY <1>16 DEF StageNothing, Goto, genVars, tlsVars, threadVars, Leases, Looking, Compiling, PlaceT,
           TlsT, GenT
  <1>17. ASSUME NEW t \in Threads, PublishLock(t) PROVE Leases'
    BY <1>17 DEF PublishLock, Goto, genVars, tlsVars, threadVars, Leases, Looking, Compiling, PlaceT,
           TlsT, GenT
  <1>18. ASSUME NEW t \in Threads, PublishNothing(t) PROVE Leases'
    BY <1>18 DEF PublishNothing, CompileEnds, Leave, genVars, tlsVars, threadVars, Leases, Looking,
           Compiling, PlaceT, TlsT, GenT
  <1>19. ASSUME NEW t \in Threads, PublishStaged(t) PROVE Leases'
    BY <1>19 DEF PublishStaged, Publish, Linked, CompileEnds, Leave, genVars, tlsVars, threadVars,
           Leases, Looking, Compiling, PlaceT, TlsT, GenT
  <1>20. ASSUME NEW t \in Threads, PublishStale(t) PROVE Leases'
    BY <1>20 DEF PublishStale, Goto, genVars, tlsVars, threadVars, Leases, Looking, Compiling, PlaceT,
           TlsT, GenT
  <1>21. ASSUME NEW t \in Threads, Retry(t) PROVE Leases'
    BY <1>21 DEF Retry, Emit, Publish, Linked, CompileEnds, Leave, genVars, tlsVars, threadVars,
           Leases, Looking, Compiling, PlaceT, TlsT, GenT
  <1>22. ASSUME NEW t \in Threads, RetryNothing(t) PROVE Leases'
    BY <1>22 DEF RetryNothing, CompileEnds, Leave, genVars, tlsVars, threadVars, Leases, Looking,
           Compiling, PlaceT, TlsT, GenT
  <1>23. ASSUME NEW t \in Threads, InvLog(t) PROVE Leases'
    BY <1>23 DEF InvLog, Goto, AfterLog, genVars, tlsVars, threadVars, Leases, Looking, Compiling,
           PlaceT, TlsT, GenT
  <1>24. ASSUME NEW t \in Threads, InvFilter(t) PROVE Leases'
    <2>1. /\ at[t] = "filter" /\ \E p \in {"guest", "ilock"} : at' = [at EXCEPT ![t] = p]
          /\ UNCHANGED <<gen, epoch, tlsGen, seen, ibl>>
      BY <1>24 DEF InvFilter, InvEnds, genVars, tlsVars
    <2> QED BY <2>1 DEF Leases, Looking, Compiling, PlaceT
  <1>25. ASSUME NEW t \in Threads, InvLock(t) PROVE Leases'
    <2>1. /\ at[t] = "ilock" /\ \E p \in {"guest", "gen"} : at' = [at EXCEPT ![t] = p]
          /\ UNCHANGED <<gen, epoch, tlsGen, seen, ibl>>
      BY <1>25 DEF InvLock, InvEnds, genVars, tlsVars
    <2> QED BY <2>1 DEF Leases, Looking, Compiling, PlaceT
  <1>26. ASSUME NEW t \in Threads, InvGen(t) PROVE Leases'
    BY <1>26 DEF InvGen, Goto, genVars, tlsVars, threadVars, Leases, Looking, Compiling, PlaceT, TlsT,
           GenT
  <1>27. ASSUME NEW t \in Threads, InvEpoch(t) PROVE Leases'
    BY <1>27 DEF InvEpoch, Goto, genVars, tlsVars, threadVars, Leases, Looking, Compiling, PlaceT,
           TlsT, GenT
  <1>28. ASSUME NEW t \in Threads, InvRetire(t) PROVE Leases'
    BY <1>28 DEF InvRetire, InvEnds, genVars, tlsVars, threadVars, Leases, Looking, Compiling, PlaceT,
           TlsT, GenT
  <1>29. ASSUME NEW t \in Threads, (\E l \in Lines, v \in Values : Write(t, l, v)) \/ Observe(t) \/
               Chain(t) \/ (\E b \in Blocks : Indirect(t, b)) \/ Return(t) \/ (\E l \in Lines :
               Fetch(t, l))
        PROVE  Leases'
    BY <1>29, <1>1 DEF Write, Observe, Chain, Indirect, Return, Fetch, genVars, tlsVars, threadVars
  <1> QED BY <1>1, <1>2, <1>3, <1>4, <1>5, <1>6, <1>7, <1>8, <1>9, <1>10, <1>11, <1>12, <1>13,
            <1>14, <1>15, <1>16, <1>17, <1>18, <1>19, <1>20, <1>21, <1>22, <1>23, <1>24, <1>25,
            <1>26, <1>27, <1>28, <1>29 DEF Next, Guest, Lookup, Compile, Invalidation

-----------------------------------------------------------------------------
(* The threads' caches. *)

\* A block that had no code is in nobody's caches.
LEMMA CachesPublished ==
    ASSUME Parts, Hands, Caches, NEW t \in Threads, NEW x, want[t] \in Blocks, blocks[want[t]] = 0,
           blocks' = [blocks EXCEPT ![want[t]] = x], run' = [run EXCEPT ![t] = x],
           at' = [at EXCEPT ![t] = "fill"], UNCHANGED <<tlsGen, epoch, cache, ibl, want>>
    PROVE  Caches'
  <1> SUFFICES ASSUME NEW u \in Threads, tlsGen[u] > epoch
               PROVE  /\ \A b \in Blocks : /\ cache[u][b] # 0 => cache[u][b] = blocks'[b]
                                           /\ ibl[u][b] # 0 => ibl[u][b] = blocks'[b]
                      /\ at'[u] \in {"chain", "fill"} => run'[u] = blocks'[want[u]]
    BY DEF Caches
  <1>1. ASSUME NEW b \in Blocks PROVE /\ cache[u][b] # 0 => cache[u][b] = blocks'[b]
                                      /\ ibl[u][b] # 0 => ibl[u][b] = blocks'[b]
    <2>1. /\ cache[u][b] # 0 => cache[u][b] = blocks[b]
          /\ ibl[u][b] # 0 => ibl[u][b] = blocks[b]
      BY DEF Caches
    <2>2. blocks[b] # 0 => blocks'[b] = blocks[b] BY DEF Parts, TabT
    <2> QED BY <2>1, <2>2
  <1>2. ASSUME at'[u] \in {"chain", "fill"} PROVE run'[u] = blocks'[want[u]]
    <2>1. CASE u = t BY <2>1 DEF Parts, RunT, TabT
    <2>2. CASE u # t
      <3>1. at[u] \in {"chain", "fill"} BY <1>2, <2>2 DEF Parts, PlaceT
      <3>2. run[u] = blocks[want[u]] /\ want[u] \in Blocks /\ run[u] # 0
        BY <3>1 DEF Caches, Hands, Looking
      <3>3. run'[u] = run[u] BY <2>2 DEF Parts, RunT
      <3>4. blocks'[want[u]] = blocks[want[u]] BY <3>2 DEF Parts, TabT
      <3> QED BY <3>2, <3>3, <3>4
    <2> QED BY <2>1, <2>2
  <1> QED BY <1>1, <1>2

LEMMA CachesStep == ASSUME Parts, Locks, Hands, Epochs, Leases, Caches, Dropped, Next PROVE Caches'
  <1> USE Facts, GenAhead DEF Parts
  <1>1. ASSUME UNCHANGED <<tlsGen, epoch, cache, ibl, blocks, at, run, want>> PROVE Caches'
    BY <1>1 DEF Caches, PlaceT, TlsT, GenT, RunT, TabT
  <1>2. ASSUME NEW t \in Threads, Chain(t) PROVE Caches'
    BY <1>2 DEF Chain, tableVars, genVars, tlsVars, threadVars, Caches, PlaceT, TlsT, GenT, RunT, TabT
  <1>3. ASSUME NEW t \in Threads, NEW b \in Blocks, Indirect(t, b) PROVE Caches'
    BY <1>3 DEF Indirect, tableVars, genVars, tlsVars, threadVars, Caches, PlaceT, TlsT, GenT, RunT,
           TabT
  <1>4. ASSUME NEW t \in Threads, NEW b \in Blocks, Call(t, b) PROVE Caches'
    BY <1>4 DEF Call, Goto, tableVars, genVars, tlsVars, threadVars, Caches, PlaceT, TlsT, GenT, RunT,
           TabT
  <1>5. ASSUME NEW t \in Threads, Return(t) PROVE Caches'
    BY <1>5 DEF Return, tableVars, genVars, tlsVars, threadVars, Caches, PlaceT, TlsT, GenT, RunT,
           TabT
  <1>6. ASSUME NEW t \in Threads, NEW b \in Blocks, Dispatch(t, b) PROVE Caches'
    BY <1>6 DEF Dispatch, Goto, tableVars, genVars, tlsVars, threadVars, Caches, PlaceT, TlsT, GenT,
           RunT, TabT
  <1>7. ASSUME NEW t \in Threads, NEW kind \in Kinds, Invalidate(t, kind) PROVE Caches'
    BY <1>7 DEF Invalidate, AfterLog, tableVars, genVars, tlsVars, threadVars, Caches, PlaceT, TlsT,
           GenT, RunT, TabT
  <1>8. ASSUME NEW t \in Threads, Sync(t) PROVE Caches'
    BY <1>8 DEF Sync, Goto, sync_dispatch_cache, tableVars, genVars, tlsVars, threadVars, Caches,
           PlaceT, TlsT, GenT, RunT, TabT, Empty
  <1>9. ASSUME NEW t \in Threads, LookCache(t) PROVE Caches'
    BY <1>9 DEF LookCache, Leave, tableVars, genVars, tlsVars, threadVars, Caches, PlaceT, TlsT, GenT,
           RunT, TabT
  <1>10. ASSUME NEW t \in Threads, LookTable(t) PROVE Caches'
    BY <1>10 DEF LookTable, tableVars, genVars, tlsVars, threadVars, Caches, PlaceT, TlsT, GenT, RunT,
           TabT
  <1>11. ASSUME NEW t \in Threads, TryChain(t) PROVE Caches'
    BY <1>11 DEF TryChain, Goto, Linked, tableVars, genVars, tlsVars, threadVars, Caches, PlaceT,
           TlsT, GenT, RunT, TabT
  <1>12. ASSUME NEW t \in Threads, Fill(t) PROVE Caches'
    BY <1>12 DEF Fill, Leave, tableVars, genVars, tlsVars, threadVars, Caches, PlaceT, TlsT, GenT,
           RunT, TabT
  <1>13. ASSUME NEW t \in Threads, Lease(t) PROVE Caches'
    BY <1>13 DEF Lease, Goto, tableVars, genVars, tlsVars, threadVars, Caches, PlaceT, TlsT, GenT,
           RunT, TabT
  <1>14. ASSUME NEW t \in Threads, Bind(t) PROVE Caches'
    BY <1>14 DEF Bind, Leave, sync_dispatch_cache, tableVars, genVars, tlsVars, threadVars, Caches,
           PlaceT, TlsT, GenT, RunT, TabT, Empty
  <1>15. ASSUME NEW t \in Threads, CompileLock(t) PROVE Caches'
    BY <1>15 DEF CompileLock, Goto, tableVars, genVars, tlsVars, threadVars, Caches, PlaceT, TlsT,
           GenT, RunT, TabT
  <1>16. ASSUME NEW t \in Threads, CompileLook(t) PROVE Caches'
    BY <1>16 DEF CompileLook, tableVars, genVars, tlsVars, threadVars, Caches, PlaceT, TlsT, GenT,
           RunT, TabT
  <1>17. ASSUME NEW t \in Threads, Arm(t) PROVE Caches'
    BY <1>17 DEF Arm, Goto, tableVars, genVars, tlsVars, threadVars, Caches, PlaceT, TlsT, GenT, RunT,
           TabT
  <1>18. ASSUME NEW t \in Threads, Stage(t) PROVE Caches'
    BY <1>18 DEF Stage, Goto, Emit, tableVars, genVars, tlsVars, threadVars, Caches, PlaceT, TlsT,
           GenT, RunT, TabT
  <1>19. ASSUME NEW t \in Threads, StageNothing(t) PROVE Caches'
    BY <1>19 DEF StageNothing, Goto, tableVars, genVars, tlsVars, threadVars, Caches, PlaceT, TlsT,
           GenT, RunT, TabT
  <1>20. ASSUME NEW t \in Threads, PublishLock(t) PROVE Caches'
    BY <1>20 DEF PublishLock, Goto, tableVars, genVars, tlsVars, threadVars, Caches, PlaceT, TlsT,
           GenT, RunT, TabT
  <1>21. ASSUME NEW t \in Threads, PublishNothing(t) PROVE Caches'
    BY <1>21 DEF PublishNothing, CompileEnds, Leave, tableVars, genVars, tlsVars, threadVars, Caches,
           PlaceT, TlsT, GenT, RunT, TabT
  <1>22. ASSUME NEW t \in Threads, PublishStaged(t) PROVE Caches'
    <2>1. /\ at[t] \in Drafting /\ blocks' = [blocks EXCEPT ![want[t]] = run[t]]
          /\ run' = [run EXCEPT ![t] = run[t]] /\ at' = [at EXCEPT ![t] = "fill"]
          /\ UNCHANGED <<tlsGen, epoch, cache, ibl, want>>
      BY <1>22 DEF PublishStaged, Publish, CompileEnds, Leave, genVars, tlsVars, Drafting
    <2>2. want[t] \in Blocks /\ blocks[want[t]] = 0 BY <2>1 DEF Hands, Drafting, Compiling
    <2> HIDE MadeGrows, Facts
    <2> QED BY <2>1, <2>2, CachesPublished
  <1>23. ASSUME NEW t \in Threads, PublishStale(t) PROVE Caches'
    BY <1>23 DEF PublishStale, Goto, tableVars, genVars, tlsVars, threadVars, Caches, PlaceT, TlsT,
           GenT, RunT, TabT
  <1>24. ASSUME NEW t \in Threads, Retry(t) PROVE Caches'
    <2>0. made + 1 # 0 /\ made' = made + 1
      BY <1>24 DEF Retry, Emit, CodeT
    <2>1. /\ at[t] \in Drafting /\ blocks' = [blocks EXCEPT ![want[t]] = made']
          /\ run' = [run EXCEPT ![t] = made'] /\ at' = [at EXCEPT ![t] = "fill"]
          /\ UNCHANGED <<tlsGen, epoch, cache, ibl, want>>
      BY <1>24, <2>0 DEF Retry, Publish, CompileEnds, Leave, genVars, tlsVars, Drafting
    <2>2. want[t] \in Blocks /\ blocks[want[t]] = 0 BY <2>1 DEF Hands, Drafting, Compiling
    <2> HIDE MadeGrows, Facts
    <2> QED BY <2>1, <2>2, CachesPublished
  <1>25. ASSUME NEW t \in Threads, RetryNothing(t) PROVE Caches'
    BY <1>25 DEF RetryNothing, CompileEnds, Leave, tableVars, genVars, tlsVars, threadVars, Caches,
           PlaceT, TlsT, GenT, RunT, TabT
  <1>26. ASSUME NEW t \in Threads, InvLog(t) PROVE Caches'
    BY <1>26 DEF InvLog, Goto, AfterLog, tableVars, genVars, tlsVars, threadVars, Caches, PlaceT,
           TlsT, GenT, RunT, TabT
  <1>27. ASSUME NEW t \in Threads, InvFilter(t) PROVE Caches'
    BY <1>27 DEF InvFilter, InvEnds, tableVars, genVars, tlsVars, threadVars, Caches, PlaceT, TlsT,
           GenT, RunT, TabT
  <1>28. ASSUME NEW t \in Threads, InvLock(t) PROVE Caches'
    BY <1>28 DEF InvLock, InvEnds, tableVars, genVars, tlsVars, threadVars, Caches, PlaceT, TlsT,
           GenT, RunT, TabT
  <1>29. ASSUME NEW t \in Threads, InvGen(t) PROVE Caches'
    BY <1>29 DEF InvGen, Goto, tableVars, genVars, tlsVars, threadVars, Caches, PlaceT, TlsT, GenT,
           RunT, TabT
  <1>30. ASSUME NEW t \in Threads, InvEpoch(t) PROVE Caches'
    BY <1>30 DEF InvEpoch, Goto, tableVars, genVars, tlsVars, threadVars, Caches, PlaceT, TlsT, GenT,
           RunT, TabT
  <1>31. ASSUME NEW t \in Threads, InvRetire(t) PROVE Caches'
    <2>1. /\ at[t] = "retire" /\ at' = [at EXCEPT ![t] = "guest"]
          /\ blocks' = [b \in Blocks |-> IF b \in inv[t].victims THEN 0 ELSE blocks[b]]
          /\ cache' = [cache EXCEPT ![t] = [b \in Blocks |-> IF b \in inv[t].victims THEN 0 ELSE cache[t][b]]]
          /\ UNCHANGED <<tlsGen, gen, epoch, ibl, run, want>>
      BY <1>31 DEF InvRetire, InvEnds, genVars
    <2>2. \A u \in Threads : tlsGen[u] > epoch => tlsGen[u] = gen
      <3>1. ~ \E u \in Threads : at[u] = "epoch" BY <2>1, OneHolder DEF Exclusive
      <3>2. gen = epoch + 1 BY <3>1 DEF Epochs
      <3> QED BY <3>2 DEF Leases, TlsT, GenT
    <2> SUFFICES ASSUME NEW u \in Threads, tlsGen[u] > epoch
                 PROVE  /\ \A b \in Blocks : /\ cache'[u][b] # 0 => cache'[u][b] = blocks'[b]
                                             /\ ibl[u][b] # 0 => ibl[u][b] = blocks'[b]
                        /\ at'[u] \in {"chain", "fill"} => run[u] = blocks'[want[u]]
      BY <2>1 DEF Caches
    <2>3. \A b \in inv[t].victims : /\ cache[u][b] = 0 /\ ibl[u][b] = 0
                                    /\ at[u] \in {"chain", "fill"} => want[u] # b
      BY <2>1, <2>2 DEF Dropped
    <2>4. /\ \A b \in Blocks : /\ cache[u][b] # 0 => cache[u][b] = blocks[b]
                               /\ ibl[u][b] # 0 => ibl[u][b] = blocks[b]
          /\ at[u] \in {"chain", "fill"} => run[u] = blocks[want[u]]
      BY DEF Caches
    <2>5. ASSUME NEW b \in Blocks PROVE /\ cache'[u][b] # 0 => cache'[u][b] = blocks'[b]
                                        /\ ibl[u][b] # 0 => ibl[u][b] = blocks'[b]
      <3>1. cache'[u][b] # 0 => cache'[u][b] = cache[u][b] BY <2>1 DEF TlsT
      <3> QED BY <2>1, <2>3, <2>4, <3>1
    <2>6. ASSUME at'[u] \in {"chain", "fill"} PROVE run[u] = blocks'[want[u]]
      <3>1. at[u] \in {"chain", "fill"} BY <2>1, <2>6 DEF PlaceT
      <3>2. want[u] \in Blocks BY <3>1 DEF Hands, Looking
      <3> QED BY <2>1, <2>3, <2>4, <3>1, <3>2
    <2> QED BY <2>5, <2>6
  <1>32. ASSUME NEW t \in Threads, (\E l \in Lines, v \in Values : Write(t, l, v)) \/ Observe(t) \/
               (\E l \in Lines : Fetch(t, l))
        PROVE  Caches'
    BY <1>32, <1>1 DEF Write, Observe, Fetch, tableVars, genVars, tlsVars, threadVars
  <1> QED BY <1>1, <1>2, <1>3, <1>4, <1>5, <1>6, <1>7, <1>8, <1>9, <1>10, <1>11, <1>12, <1>13,
            <1>14, <1>15, <1>16, <1>17, <1>18, <1>19, <1>20, <1>21, <1>22, <1>23, <1>24, <1>25,
            <1>26, <1>27, <1>28, <1>29, <1>30, <1>31, <1>32 DEF Next, Guest, Lookup, Compile,
            Invalidation

\* Looking at the generation leaves no victim in the thread's caches.
LEMMA SyncDrops ==
    ASSUME Parts, Dropped, NEW t \in Threads, sync_dispatch_cache(t), NEW s \in Threads, tlsGen'[s] = gen,
           NEW u \in Threads, at[u] \in {"epoch", "retire"}, NEW b \in inv[u].victims
    PROVE  cache'[s][b] = 0 /\ ibl'[s][b] = 0
  <1>1. b \in Blocks BY DEF Parts, InvT, Invs, NoInv
  <1>2. CASE tlsGen[s] = gen
    <2>1. cache[s][b] = 0 /\ ibl[s][b] = 0 BY <1>2 DEF Dropped
    <2> QED BY <1>1, <2>1 DEF sync_dispatch_cache, Empty, Parts, TlsT
  <1>3. CASE tlsGen[s] # gen
    <2>1. s = t BY <1>3 DEF sync_dispatch_cache, Parts, TlsT
    <2> QED BY <1>1, <1>3, <2>1 DEF sync_dispatch_cache, Empty, Parts, TlsT
  <1> QED BY <1>2, <1>3

LEMMA DroppedStep == ASSUME Parts, Locks, Hands, Leases, Dropped, Next PROVE Dropped'
  <1> USE Facts DEF Parts
  <1>1. ASSUME UNCHANGED <<tlsGen, gen, at, inv, cache, ibl, want>> PROVE Dropped'
    BY <1>1 DEF Dropped, PlaceT, TlsT, InvT
  <1>2. ASSUME NEW t \in Threads, NEW b \in Blocks, Call(t, b) PROVE Dropped'
    BY <1>2 DEF Call, Goto, genVars, tlsVars, threadVars, Dropped, PlaceT, TlsT, InvT
  <1>3. ASSUME NEW t \in Threads, NEW b \in Blocks, Dispatch(t, b) PROVE Dropped'
    BY <1>3 DEF Dispatch, Goto, genVars, tlsVars, threadVars, Dropped, PlaceT, TlsT, InvT
  <1>4. ASSUME NEW t \in Threads, NEW kind \in Kinds, Invalidate(t, kind) PROVE Dropped'
    BY <1>4 DEF Invalidate, AfterLog, genVars, tlsVars, threadVars, Dropped, PlaceT, TlsT, InvT
  <1>5. ASSUME NEW t \in Threads, Sync(t) PROVE Dropped'
    <2>1. sync_dispatch_cache(t) /\ UNCHANGED <<gen, inv>> /\ at' = [at EXCEPT ![t] = "look"]
      BY <1>5 DEF Sync, Goto, Leave, genVars
    <2>2. \A u \in Threads : /\ at'[u] \in {"epoch", "retire"} => at[u] \in {"epoch", "retire"}
                            /\ at'[u] \in {"chain", "fill"} => u # t /\ at[u] \in {"chain", "fill"}
      BY <2>1 DEF PlaceT
    <2>3. \A u \in Threads : u # t => tlsGen'[u] = tlsGen[u] /\ want'[u] = want[u]
      BY <1>5 DEF Sync, Leave, sync_dispatch_cache, TlsT, PlaceT
    <2> QED BY <2>1, <2>2, <2>3, SyncDrops DEF Dropped
  <1>6. ASSUME NEW t \in Threads, LookCache(t) PROVE Dropped'
    BY <1>6 DEF LookCache, Leave, genVars, tlsVars, threadVars, Dropped, PlaceT, TlsT, InvT, Hands,
           Looking
  <1>7. ASSUME NEW t \in Threads, LookTable(t) PROVE Dropped'
    <2>1. writer = None BY <1>7 DEF LookTable, SharedFree
    <2>2. \A u \in Threads : at'[u] \notin {"epoch", "retire"}
      BY <1>7, <2>1, NoRetiring DEF LookTable, PlaceT, Retiring, Exclusive
    <2> QED BY <2>2 DEF Dropped
  <1>8. ASSUME NEW t \in Threads, TryChain(t) PROVE Dropped'
    BY <1>8 DEF TryChain, Goto, Linked, genVars, tlsVars, threadVars, Dropped, PlaceT, TlsT, InvT
  <1>9. ASSUME NEW t \in Threads, Fill(t) PROVE Dropped'
    BY <1>9 DEF Fill, Leave, genVars, tlsVars, threadVars, Dropped, PlaceT, TlsT, InvT, Hands, Looking
  <1>10. ASSUME NEW t \in Threads, Lease(t) PROVE Dropped'
    BY <1>10 DEF Lease, Goto, genVars, tlsVars, threadVars, Dropped, PlaceT, TlsT, InvT
  <1>11. ASSUME NEW t \in Threads, Bind(t) PROVE Dropped'
    <2>1. sync_dispatch_cache(t) /\ UNCHANGED <<gen, inv>> /\ at' = [at EXCEPT ![t] = "guest"]
      BY <1>11 DEF Bind, Goto, Leave, genVars
    <2>2. \A u \in Threads : /\ at'[u] \in {"epoch", "retire"} => at[u] \in {"epoch", "retire"}
                            /\ at'[u] \in {"chain", "fill"} => u # t /\ at[u] \in {"chain", "fill"}
      BY <2>1 DEF PlaceT
    <2>3. \A u \in Threads : u # t => tlsGen'[u] = tlsGen[u] /\ want'[u] = want[u]
      BY <1>11 DEF Bind, Leave, sync_dispatch_cache, TlsT, PlaceT
    <2> QED BY <2>1, <2>2, <2>3, SyncDrops DEF Dropped
  <1>12. ASSUME NEW t \in Threads, CompileLock(t) PROVE Dropped'
    BY <1>12 DEF CompileLock, Goto, genVars, tlsVars, threadVars, Dropped, PlaceT, TlsT, InvT
  <1>13. ASSUME NEW t \in Threads, CompileLook(t) PROVE Dropped'
    <2>1. writer = None /\ (at' = [at EXCEPT ![t] = "arm"] \/ at' = [at EXCEPT ![t] = "fill"])
      BY <1>13 DEF CompileLook, SharedFree
    <2>2. \A u \in Threads : at'[u] \notin {"epoch", "retire"}
      BY <2>1, NoRetiring DEF PlaceT, Retiring
    <2> QED BY <2>2 DEF Dropped
  <1>14. ASSUME NEW t \in Threads, Arm(t) PROVE Dropped'
    BY <1>14 DEF Arm, Goto, genVars, tlsVars, threadVars, Dropped, PlaceT, TlsT, InvT
  <1>15. ASSUME NEW t \in Threads, Stage(t) PROVE Dropped'
    BY <1>15 DEF Stage, Goto, Emit, genVars, tlsVars, threadVars, Dropped, PlaceT, TlsT, InvT
  <1>16. ASSUME NEW t \in Threads, StageNothing(t) PROVE Dropped'
    BY <1>16 DEF StageNothing, Goto, genVars, tlsVars, threadVars, Dropped, PlaceT, TlsT, InvT
  <1>17. ASSUME NEW t \in Threads, PublishLock(t) PROVE Dropped'
    BY <1>17 DEF PublishLock, Goto, genVars, tlsVars, threadVars, Dropped, PlaceT, TlsT, InvT
  <1>18. ASSUME NEW t \in Threads, PublishNothing(t) PROVE Dropped'
    <2>1. at[t] \in Exclusive \ Retiring BY <1>18 DEF PublishNothing, Goto, Exclusive, Retiring
    <2>2. \A u \in Threads : at'[u] \notin {"epoch", "retire"}
      BY <1>18, <2>1, NoRetiring DEF PublishNothing, CompileEnds, Leave, PlaceT, Retiring, Exclusive
    <2> QED BY <2>2 DEF Dropped
  <1>19. ASSUME NEW t \in Threads, PublishStaged(t) PROVE Dropped'
    <2>1. at[t] \in Exclusive \ Retiring BY <1>19 DEF PublishStaged, Goto, Exclusive, Retiring
    <2>2. \A u \in Threads : at'[u] \notin {"epoch", "retire"}
      BY <1>19, <2>1, NoRetiring DEF PublishStaged, CompileEnds, Leave, PlaceT, Retiring, Exclusive
    <2> QED BY <2>2 DEF Dropped
  <1>20. ASSUME NEW t \in Threads, PublishStale(t) PROVE Dropped'
    <2>1. at[t] \in Exclusive \ Retiring BY <1>20 DEF PublishStale, Goto, Exclusive, Retiring
    <2>2. \A u \in Threads : at'[u] \notin {"epoch", "retire"}
      BY <1>20, <2>1, NoRetiring DEF PublishStale, Goto, PlaceT, Retiring, Exclusive
    <2> QED BY <2>2 DEF Dropped
  <1>21. ASSUME NEW t \in Threads, Retry(t) PROVE Dropped'
    <2>1. at[t] \in Exclusive \ Retiring BY <1>21 DEF Retry, Goto, Exclusive, Retiring
    <2>2. \A u \in Threads : at'[u] \notin {"epoch", "retire"}
      BY <1>21, <2>1, NoRetiring DEF Retry, CompileEnds, Leave, PlaceT, Retiring, Exclusive
    <2> QED BY <2>2 DEF Dropped
  <1>22. ASSUME NEW t \in Threads, RetryNothing(t) PROVE Dropped'
    <2>1. at[t] \in Exclusive \ Retiring BY <1>22 DEF RetryNothing, Goto, Exclusive, Retiring
    <2>2. \A u \in Threads : at'[u] \notin {"epoch", "retire"}
      BY <1>22, <2>1, NoRetiring DEF RetryNothing, CompileEnds, Leave, PlaceT, Retiring, Exclusive
    <2> QED BY <2>2 DEF Dropped
  <1>23. ASSUME NEW t \in Threads, InvLog(t) PROVE Dropped'
    BY <1>23 DEF InvLog, Goto, AfterLog, genVars, tlsVars, threadVars, Dropped, PlaceT, TlsT, InvT
  <1>24. ASSUME NEW t \in Threads, InvFilter(t) PROVE Dropped'
    <2>1. writer = None BY <1>24 DEF InvFilter, SharedFree
    <2>2. \A u \in Threads : at'[u] \notin {"epoch", "retire"}
      BY <1>24, <2>1, NoRetiring DEF InvFilter, InvEnds, PlaceT, Retiring, Exclusive
    <2> QED BY <2>2 DEF Dropped
  <1>25. ASSUME NEW t \in Threads, InvLock(t) PROVE Dropped'
    <2>1. writer = None /\ (at' = [at EXCEPT ![t] = "gen"] \/ at' = [at EXCEPT ![t] = "guest"])
      BY <1>25 DEF InvLock, InvEnds, ExclusiveFree
    <2>2. \A u \in Threads : at'[u] \notin {"epoch", "retire"}
      BY <2>1, NoRetiring DEF PlaceT, Retiring
    <2> QED BY <2>2 DEF Dropped
  <1>26. ASSUME NEW t \in Threads, InvGen(t) PROVE Dropped'
    <2>1. gen' = gen + 1 /\ tlsGen' = tlsGen BY <1>26 DEF InvGen, tlsVars
    <2>2. \A u \in Threads : tlsGen'[u] # gen' BY <2>1 DEF Leases, TlsT, GenT
    <2> QED BY <2>2 DEF Dropped
  <1>27. ASSUME NEW t \in Threads, InvEpoch(t) PROVE Dropped'
    BY <1>27 DEF InvEpoch, Goto, genVars, tlsVars, threadVars, Dropped, PlaceT, TlsT, InvT
  <1>28. ASSUME NEW t \in Threads, InvRetire(t) PROVE Dropped'
    <2>1. at[t] = "retire" /\ at' = [at EXCEPT ![t] = "guest"]
      BY <1>28 DEF InvRetire, InvEnds
    <2>2. \A u \in Threads : at'[u] \notin {"epoch", "retire"}
      BY <2>1, OneHolder DEF PlaceT, Exclusive
    <2> QED BY <2>2 DEF Dropped
  <1>29. ASSUME NEW t \in Threads, (\E l \in Lines, v \in Values : Write(t, l, v)) \/ Observe(t) \/
               Chain(t) \/ (\E b \in Blocks : Indirect(t, b)) \/ Return(t) \/ (\E l \in Lines :
               Fetch(t, l))
        PROVE  Dropped'
    BY <1>29, <1>1 DEF Write, Observe, Chain, Indirect, Return, Fetch, genVars, tlsVars, threadVars
  <1> QED BY <1>1, <1>2, <1>3, <1>4, <1>5, <1>6, <1>7, <1>8, <1>9, <1>10, <1>11, <1>12, <1>13,
            <1>14, <1>15, <1>16, <1>17, <1>18, <1>19, <1>20, <1>21, <1>22, <1>23, <1>24, <1>25,
            <1>26, <1>27, <1>28, <1>29 DEF Next, Guest, Lookup, Compile, Invalidation

-----------------------------------------------------------------------------
(* What a thread enters. *)

LEMMA FreshGood ==
    ASSUME Parts, Observed, NEW t \in Threads, NEW x, Fresh(x) PROVE Good(t, x)
  BY DEF Fresh, Good, Observed

LEMMA PublishedGood ==
    ASSUME Parts, Observed, TableFresh, NEW t \in Threads, NEW b \in Blocks, blocks[b] # 0
    PROVE  Good(t, blocks[b])
  BY FreshGood DEF TableFresh

\* What is good stays good, as long as its slot is not written.
LEMMA GoodKept ==
    ASSUME Parts, NEW t \in Threads, NEW x, Good(t, x), pcOf'[x] = pcOf[x], words'[x] = words[x],
           \/ obs' = obs /\ mem' = mem
           \/ \E l \in Lines, v \in Values : /\ mem' = [mem EXCEPT ![l] = v]
                                             /\ obs' = [u \in Threads |-> obs[u] \ {l}]
    PROVE  Good(t, x)'
  <1>1. \A l \in obs'[t] : l \in obs[t] /\ mem'[l] = mem[l]
    BY DEF Parts, MemT
  <1> QED BY <1>1 DEF Good

LEMMA FoundStep ==
    ASSUME Parts, Locks, Hands, TableFresh, TableFresh', Observed, Epochs, Leases, Caches, Found, Next
    PROVE  Found'
  <1> USE Facts, MadeGrows DEF Parts
  <1>1. ASSUME UNCHANGED <<at, cache, run, obs, pcOf, words, mem>> PROVE Found'
    BY <1>1 DEF Found, Good, PlaceT, TlsT, RunT
  <1>2. ASSUME NEW t \in Threads, NEW l \in Lines, NEW v \in Values, Write(t, l, v) PROVE Found'
    <2>1. /\ UNCHANGED <<at, cache, run, pcOf, words>>
          /\ mem' = [mem EXCEPT ![l] = v] /\ obs' = [u \in Threads |-> obs[u] \ {l}]
      BY <1>2 DEF Write, codeVars, tlsVars, threadVars
    <2>2. \A u \in Threads, x \in Made : Good(u, x) => Good(u, x)'
      BY <2>1, GoodKept
    <2> QED BY <2>1, <2>2 DEF Found, TlsT, RunT
  <1>3. ASSUME NEW t \in Threads, Observe(t) PROVE Found'
    <2>1. /\ UNCHANGED <<at, cache, run, pcOf, words, mem>> /\ at[t] = "guest"
          /\ \A u \in Threads : u # t => obs'[u] = obs[u]
      BY <1>3 DEF Observe, codeVars, tlsVars, threadVars, MemT
    <2>2. \A u \in Threads, x \in Made : u # t /\ Good(u, x) => Good(u, x)'
      BY <2>1 DEF Good
    <2> QED BY <2>1, <2>2 DEF Found, TlsT, RunT
  <1>4. ASSUME NEW t \in Threads, Chain(t) PROVE Found'
    BY <1>4 DEF Chain, memVars, codeVars, tlsVars, threadVars, Found, Good, PlaceT, TlsT, RunT
  <1>5. ASSUME NEW t \in Threads, NEW b \in Blocks, Indirect(t, b) PROVE Found'
    BY <1>5 DEF Indirect, memVars, codeVars, tlsVars, threadVars, Found, Good, PlaceT, TlsT, RunT
  <1>6. ASSUME NEW t \in Threads, NEW b \in Blocks, Call(t, b) PROVE Found'
    BY <1>6 DEF Call, Goto, memVars, codeVars, tlsVars, threadVars, Found, Good, PlaceT, TlsT, RunT
  <1>7. ASSUME NEW t \in Threads, Return(t) PROVE Found'
    BY <1>7 DEF Return, memVars, codeVars, tlsVars, threadVars, Found, Good, PlaceT, TlsT, RunT
  <1>8. ASSUME NEW t \in Threads, NEW b \in Blocks, Dispatch(t, b) PROVE Found'
    BY <1>8 DEF Dispatch, Goto, memVars, codeVars, tlsVars, threadVars, Found, Good, PlaceT, TlsT,
           RunT
  <1>9. ASSUME NEW t \in Threads, NEW kind \in Kinds, Invalidate(t, kind) PROVE Found'
    BY <1>9 DEF Invalidate, AfterLog, memVars, codeVars, tlsVars, threadVars, Found, Good, PlaceT,
           TlsT, RunT
  <1>10. ASSUME NEW t \in Threads, Sync(t) PROVE Found'
    <2>1. /\ at' = [at EXCEPT ![t] = "look"] /\ UNCHANGED <<run, pcOf, words, mem, obs, blocks>>
          /\ \A u \in Threads : u # t => cache'[u] = cache[u]
      BY <1>10 DEF Sync, Goto, sync_dispatch_cache, memVars, codeVars, tableVars, TlsT
    <2>2. \A b \in Blocks : cache'[t][b] # 0 => tlsGen[t] = gen /\ cache'[t][b] = cache[t][b]
      BY <1>10 DEF Sync, sync_dispatch_cache, Empty, TlsT
    <2>3. ASSUME NEW b \in Blocks, cache'[t][b] # 0 PROVE Good(t, cache'[t][b])
      <3>1. cache'[t][b] = blocks[b] BY <2>2, <2>3, GenAhead DEF Caches
      <3> QED BY <2>3, <3>1, PublishedGood
    <2> QED BY <2>1, <2>3 DEF Found, Good, PlaceT
  <1>11. ASSUME NEW t \in Threads, LookCache(t) PROVE Found'
    <2>1. /\ run' = [run EXCEPT ![t] = cache[t][want[t]]] /\ want[t] \in Blocks
          /\ UNCHANGED <<cache, pcOf, words, mem, obs>> /\ at[t] = "look" /\ cache[t][want[t]] # 0
          /\ \E p \in {"lease", "guest"} : at' = [at EXCEPT ![t] = p]
      BY <1>11 DEF LookCache, Leave, memVars, codeVars, Hands, Looking
    <2> QED BY <2>1 DEF Found, Good, PlaceT, RunT
  <1>12. ASSUME NEW t \in Threads, LookTable(t) PROVE Found'
    <2>1. /\ run' = [run EXCEPT ![t] = blocks[want[t]]] /\ want[t] \in Blocks
          /\ UNCHANGED <<cache, pcOf, words, mem, obs>>
          /\ \E p \in {"chain", "compile", "fill", "arm"} : at' = [at EXCEPT ![t] = p]
          /\ at'[t] \in {"chain", "fill"} => blocks[want[t]] # 0
      BY <1>12 DEF LookTable, memVars, codeVars, tlsVars, Hands, Looking, Compiling, PlaceT
    <2>2. blocks[want[t]] # 0 => Good(t, blocks[want[t]])
      BY <2>1, PublishedGood
    <2> QED BY <2>1, <2>2 DEF Found, Good, PlaceT, RunT
  <1>13. ASSUME NEW t \in Threads, TryChain(t) PROVE Found'
    BY <1>13 DEF TryChain, Goto, Linked, memVars, codeVars, tlsVars, threadVars, Found, Good, PlaceT,
           TlsT, RunT
  <1>14. ASSUME NEW t \in Threads, Fill(t) PROVE Found'
    BY <1>14 DEF Fill, Leave, memVars, codeVars, tlsVars, threadVars, Found, Good, PlaceT, TlsT, RunT,
           Hands, Looking
  <1>15. ASSUME NEW t \in Threads, Lease(t) PROVE Found'
    BY <1>15 DEF Lease, Goto, memVars, codeVars, tlsVars, threadVars, Found, Good, PlaceT, TlsT, RunT
  <1>16. ASSUME NEW t \in Threads, Bind(t) PROVE Found'
    BY <1>16 DEF Bind, Leave, sync_dispatch_cache, memVars, codeVars, tlsVars, threadVars, Found,
           Good, PlaceT, TlsT, RunT
  <1>17. ASSUME NEW t \in Threads, CompileLock(t) PROVE Found'
    BY <1>17 DEF CompileLock, Goto, memVars, codeVars, tlsVars, threadVars, Found, Good, PlaceT, TlsT,
           RunT
  <1>18. ASSUME NEW t \in Threads, CompileLook(t) PROVE Found'
    <2>1. /\ run' = [run EXCEPT ![t] = blocks[want[t]]] /\ want[t] \in Blocks
          /\ UNCHANGED <<cache, pcOf, words, mem, obs>>
          /\ \E p \in {"chain", "compile", "fill", "arm"} : at' = [at EXCEPT ![t] = p]
          /\ at'[t] \in {"chain", "fill"} => blocks[want[t]] # 0
      BY <1>18 DEF CompileLook, memVars, codeVars, tlsVars, Hands, Looking, Compiling, PlaceT
    <2>2. blocks[want[t]] # 0 => Good(t, blocks[want[t]])
      BY <2>1, PublishedGood
    <2> QED BY <2>1, <2>2 DEF Found, Good, PlaceT, RunT
  <1>19. ASSUME NEW t \in Threads, Arm(t) PROVE Found'
    BY <1>19 DEF Arm, Goto, memVars, codeVars, tlsVars, threadVars, Found, Good, PlaceT, TlsT, RunT
  <1>20. ASSUME NEW t \in Threads, Stage(t) PROVE Found'
    <2>0. made < MaxCode /\ made' = made + 1
      BY <1>20 DEF Stage, Emit
    <2>1. /\ pcOf' = [pcOf EXCEPT ![made'] = want[t]] /\ words' = [words EXCEPT ![made'] = draft]
          /\ at' = [at EXCEPT ![t] = "plock"] /\ run' = [run EXCEPT ![t] = made']
          /\ UNCHANGED <<cache, mem, obs>>
      BY <1>20 DEF Stage, Goto, Emit, memVars, tlsVars
    <2>2. made' \notin Made BY <2>0
    <2>3. \A x \in Made : pcOf'[x] = pcOf[x] /\ words'[x] = words[x]
      BY <2>1, <2>2 DEF CodeT
    <2>4. \A u \in Threads, x \in Made : Good(u, x) => Good(u, x)'
      BY <2>1, <2>3 DEF Good
    <2> QED BY <2>1, <2>4 DEF Found, PlaceT, TlsT, RunT
  <1>21. ASSUME NEW t \in Threads, StageNothing(t) PROVE Found'
    BY <1>21 DEF StageNothing, Goto, memVars, codeVars, tlsVars, threadVars, Found, Good, PlaceT,
           TlsT, RunT
  <1>22. ASSUME NEW t \in Threads, PublishLock(t) PROVE Found'
    BY <1>22 DEF PublishLock, Goto, memVars, codeVars, tlsVars, threadVars, Found, Good, PlaceT, TlsT,
           RunT
  <1>23. ASSUME NEW t \in Threads, PublishNothing(t) PROVE Found'
    BY <1>23 DEF PublishNothing, CompileEnds, Leave, memVars, codeVars, tlsVars, threadVars, Found,
           Good, PlaceT, TlsT, RunT
  <1>24. ASSUME NEW t \in Threads, PublishStaged(t) PROVE Found'
    <2>1. /\ at[t] = "pcheck" /\ run[t] # 0 /\ at' = [at EXCEPT ![t] = "fill"]
          /\ run' = [run EXCEPT ![t] = run[t]] /\ blocks' = [blocks EXCEPT ![want[t]] = run[t]]
          /\ UNCHANGED <<cache, pcOf, words, mem, owed, obs>>
      BY <1>24 DEF PublishStaged, Publish, CompileEnds, Leave, memVars, codeVars, tlsVars
    <2>2. want[t] \in Blocks BY <2>1 DEF Hands, Compiling
    <2>3. Fresh(run[t])
      <3>1. blocks'[want[t]] = run[t] BY <2>1, <2>2 DEF TabT
      <3> QED BY <2>1, <2>2, <3>1 DEF TableFresh, Fresh, Dirty
    <2>4. Good(t, run[t]) BY <2>3, FreshGood
    <2> QED BY <2>1, <2>4 DEF Found, Good, PlaceT, RunT
  <1>25. ASSUME NEW t \in Threads, PublishStale(t) PROVE Found'
    BY <1>25 DEF PublishStale, Goto, memVars, codeVars, tlsVars, threadVars, Found, Good, PlaceT,
           TlsT, RunT
  <1>26. ASSUME NEW t \in Threads, Retry(t) PROVE Found'
    <2>0. made < MaxCode /\ made' = made + 1 /\ made + 1 # 0
      BY <1>26 DEF Retry, Emit, CodeT
    <2>1. /\ at[t] = "retry" /\ at' = [at EXCEPT ![t] = "fill"]
          /\ run' = [run EXCEPT ![t] = made'] /\ blocks' = [blocks EXCEPT ![want[t]] = made']
          /\ pcOf' = [pcOf EXCEPT ![made'] = want[t]] /\ words' = [words EXCEPT ![made'] = draft]
          /\ UNCHANGED <<cache, mem, owed, obs>>
      BY <1>26, <2>0 DEF Retry, Emit, Publish, CompileEnds, Leave, memVars, tlsVars
    <2>2. made' \notin Made /\ made' \in Slots /\ made' # 0 BY <2>0
    <2>3. want[t] \in Blocks BY <2>1 DEF Hands, Compiling
    <2>4. Fresh(made)' /\ Good(t, made)'
      <3>1. blocks'[want[t]] = made' BY <2>1, <2>3 DEF TabT
      <3>2. Fresh(made)' BY <2>2, <2>3, <3>1 DEF TableFresh, Fresh, Dirty
      <3>3. \A l \in obs[t] : ~Dirty(l)' BY <2>1 DEF Observed, Dirty
      <3> QED BY <2>1, <3>2, <3>3 DEF Fresh, Good
    <2>5. \A u \in Threads, x \in Made : Good(u, x) => Good(u, x)'
      BY <2>1, <2>2, GoodKept DEF CodeT
    <2>6. \A u \in Threads : u # t => run'[u] = run[u] /\ at'[u] = at[u]
      BY <2>1 DEF RunT, PlaceT
    <2>7. run'[t] = made' /\ at'[t] = "fill" BY <2>1 DEF RunT, PlaceT
    <2>8. (Good(t, run[t]))' BY <2>4, <2>7 DEF Good
    <2>9. ASSUME NEW u \in Threads, u # t
           PROVE  /\ at'[u] = "look" => \A b \in Blocks : cache'[u][b] # 0 => (Good(u, cache[u][b]))'
                  /\ at'[u] \in {"chain", "fill", "lease", "bind"} => (Good(u, run[u]))'
      <3>1. run'[u] = run[u] /\ at'[u] = at[u] /\ cache'[u] = cache[u] BY <2>1, <2>6, <2>9
      <3>2. run[u] \in Made /\ \A b \in Blocks : cache[u][b] \in Made BY DEF RunT, TlsT
      <3> QED BY <2>5, <3>1, <3>2 DEF Found, Good
    <2> QED BY <2>7, <2>8, <2>9 DEF Found
  <1>27. ASSUME NEW t \in Threads, RetryNothing(t) PROVE Found'
    BY <1>27 DEF RetryNothing, CompileEnds, Leave, memVars, codeVars, tlsVars, threadVars, Found,
           Good, PlaceT, TlsT, RunT
  <1>28. ASSUME NEW t \in Threads, InvLog(t) PROVE Found'
    BY <1>28 DEF InvLog, Goto, AfterLog, memVars, codeVars, tlsVars, threadVars, Found, Good, PlaceT,
           TlsT, RunT
  <1>29. ASSUME NEW t \in Threads, InvFilter(t) PROVE Found'
    <2>1. /\ \E p \in {"guest", "ilock"} : at' = [at EXCEPT ![t] = p]
          /\ UNCHANGED <<cache, run, pcOf, words, mem, obs>>
      BY <1>29 DEF InvFilter, InvEnds, codeVars, tlsVars
    <2> QED BY <2>1 DEF Found, Good, PlaceT
  <1>30. ASSUME NEW t \in Threads, InvLock(t) PROVE Found'
    <2>1. /\ \E p \in {"guest", "gen"} : at' = [at EXCEPT ![t] = p]
          /\ UNCHANGED <<cache, run, pcOf, words, mem, obs>>
      BY <1>30 DEF InvLock, InvEnds, codeVars, tlsVars
    <2> QED BY <2>1 DEF Found, Good, PlaceT
  <1>31. ASSUME NEW t \in Threads, InvGen(t) PROVE Found'
    BY <1>31 DEF InvGen, Goto, memVars, codeVars, tlsVars, threadVars, Found, Good, PlaceT, TlsT, RunT
  <1>32. ASSUME NEW t \in Threads, InvEpoch(t) PROVE Found'
    BY <1>32 DEF InvEpoch, Goto, memVars, codeVars, tlsVars, threadVars, Found, Good, PlaceT, TlsT,
           RunT
  <1>33. ASSUME NEW t \in Threads, InvRetire(t) PROVE Found'
    <2>1. /\ at' = [at EXCEPT ![t] = "guest"] /\ UNCHANGED <<run, pcOf, words, mem, obs>>
          /\ cache' = [cache EXCEPT ![t] = [b \in Blocks |-> IF b \in inv[t].victims THEN 0 ELSE cache[t][b]]]
      BY <1>33 DEF InvRetire, InvEnds, codeVars
    <2> QED BY <2>1 DEF Found, Good, PlaceT, TlsT
  <1>34. ASSUME NEW t \in Threads, (\E l \in Lines : Fetch(t, l))
        PROVE  Found'
    BY <1>34, <1>1 DEF Fetch, memVars, codeVars, tlsVars, threadVars
  <1> QED BY <1>1, <1>2, <1>3, <1>4, <1>5, <1>6, <1>7, <1>8, <1>9, <1>10, <1>11, <1>12, <1>13,
            <1>14, <1>15, <1>16, <1>17, <1>18, <1>19, <1>20, <1>21, <1>22, <1>23, <1>24, <1>25,
            <1>26, <1>27, <1>28, <1>29, <1>30, <1>31, <1>32, <1>33, <1>34 DEF Next, Guest, Lookup,
            Compile, Invalidation

LEMMA InitEnter == ASSUME Init PROVE EnterInv
  <1>1. Parts /\ TableInv BY InitParts, InitTable
  <1>2. Observed BY DEF Init, Observed, Dirty
  <1>3. Epochs /\ Leases
    BY DEF Init, Epochs, Leases, Looking, Compiling, Empty
  <1>4. Caches /\ Dropped /\ Found
    BY DEF Init, Caches, Dropped, Found, Empty
  <1> QED BY <1>1, <1>2, <1>3, <1>4 DEF EnterInv

LEMMA EnterStep == ASSUME EnterInv, Next PROVE EnterInv'
  <1>1. Parts BY TypeSplit DEF EnterInv, TableInv
  <1>2. TableInv' BY TableStep DEF EnterInv
  <1>3. Observed' BY <1>1, ObservedStep DEF EnterInv
  <1>4. Epochs' BY <1>1, EpochsStep DEF EnterInv, TableInv
  <1>5. Leases' BY <1>1, LeasesStep DEF EnterInv
  <1>6. Caches' BY <1>1, CachesStep DEF EnterInv, TableInv
  <1>7. Dropped' BY <1>1, DroppedStep DEF EnterInv, TableInv
  <1>8. Found' BY <1>1, <1>2, FoundStep DEF EnterInv, TableInv
  <1> QED BY <1>2, <1>3, <1>4, <1>5, <1>6, <1>7, <1>8 DEF EnterInv

LEMMA EnterStutter == ASSUME EnterInv, UNCHANGED vars PROVE EnterInv'
  <1>1. TableInv' BY TableStutter DEF EnterInv
  <1> USE DEF vars, memVars, codeVars, edgeVars, tableVars, lockVars, compVars, genVars, tlsVars, threadVars
  <1>2. Observed' BY DEF EnterInv, Observed, Dirty
  <1>3. Epochs' /\ Leases' BY DEF EnterInv, Epochs, Leases
  <1>4. Caches' /\ Dropped' BY DEF EnterInv, Caches, Dropped
  <1>5. Found' BY DEF EnterInv, Found, Good
  <1> QED BY <1>1, <1>2, <1>3, <1>4, <1>5 DEF EnterInv

\* The steps that enter code: from the thread's caches, from what a lookup
\* found, and from native code through an edge or the indirect-branch table.
Enters(t) == LookCache(t) \/ Fill(t) \/ Bind(t) \/ Chain(t) \/ \E b \in Blocks : Indirect(t, b)

LEMMA EnteredBy == ASSUME Parts, Next, NEW s \in Threads, Entered(s) # 0 PROVE Enters(s)
  <1> USE DEF Parts
  <1>1. ASSUME UNCHANGED <<at, run, ret>> PROVE FALSE
    BY <1>1 DEF Entered
  <1>2. ASSUME NEW t \in Threads, Chain(t) PROVE Enters(s)
    BY <1>2 DEF Chain, threadVars, Enters, Entered, PlaceT, RunT
  <1>3. ASSUME NEW t \in Threads, NEW b \in Blocks, Indirect(t, b) PROVE Enters(s)
    BY <1>3 DEF Indirect, threadVars, Enters, Entered, PlaceT, RunT
  <1>4. ASSUME NEW t \in Threads, NEW b \in Blocks, Call(t, b) PROVE FALSE
    BY <1>4 DEF Call, Goto, threadVars, Entered, PlaceT, RunT
  <1>5. ASSUME NEW t \in Threads, Return(t) PROVE FALSE
    BY <1>5 DEF Return, threadVars, Entered, PlaceT, RunT
  <1>6. ASSUME NEW t \in Threads, NEW b \in Blocks, Dispatch(t, b) PROVE FALSE
    BY <1>6 DEF Dispatch, Goto, threadVars, Entered, PlaceT, RunT
  <1>7. ASSUME NEW t \in Threads, NEW kind \in Kinds, Invalidate(t, kind) PROVE FALSE
    BY <1>7 DEF Invalidate, AfterLog, threadVars, Entered, PlaceT, RunT
  <1>8. ASSUME NEW t \in Threads, Sync(t) PROVE FALSE
    BY <1>8 DEF Sync, Goto, sync_dispatch_cache, threadVars, Entered, PlaceT, RunT
  <1>9. ASSUME NEW t \in Threads, LookCache(t) PROVE Enters(s)
    BY <1>9 DEF LookCache, Leave, threadVars, Enters, Entered, PlaceT, RunT
  <1>10. ASSUME NEW t \in Threads, LookTable(t) PROVE FALSE
    BY <1>10 DEF LookTable, threadVars, Entered, PlaceT, RunT
  <1>11. ASSUME NEW t \in Threads, TryChain(t) PROVE FALSE
    BY <1>11 DEF TryChain, Goto, threadVars, Entered, PlaceT, RunT
  <1>12. ASSUME NEW t \in Threads, Fill(t) PROVE Enters(s)
    BY <1>12 DEF Fill, Leave, threadVars, Enters, Entered, PlaceT, RunT
  <1>13. ASSUME NEW t \in Threads, Lease(t) PROVE FALSE
    BY <1>13 DEF Lease, Goto, threadVars, Entered, PlaceT, RunT
  <1>14. ASSUME NEW t \in Threads, Bind(t) PROVE Enters(s)
    BY <1>14 DEF Bind, Leave, sync_dispatch_cache, threadVars, Enters, Entered, PlaceT, RunT
  <1>15. ASSUME NEW t \in Threads, CompileLock(t) PROVE FALSE
    BY <1>15 DEF CompileLock, Goto, threadVars, Entered, PlaceT, RunT
  <1>16. ASSUME NEW t \in Threads, CompileLook(t) PROVE FALSE
    BY <1>16 DEF CompileLook, threadVars, Entered, PlaceT, RunT
  <1>17. ASSUME NEW t \in Threads, Arm(t) PROVE FALSE
    BY <1>17 DEF Arm, Goto, threadVars, Entered, PlaceT, RunT
  <1>18. ASSUME NEW t \in Threads, Stage(t) PROVE FALSE
    BY <1>18 DEF Stage, Goto, threadVars, Entered, PlaceT, RunT
  <1>19. ASSUME NEW t \in Threads, StageNothing(t) PROVE FALSE
    BY <1>19 DEF StageNothing, Goto, threadVars, Entered, PlaceT, RunT
  <1>20. ASSUME NEW t \in Threads, PublishLock(t) PROVE FALSE
    BY <1>20 DEF PublishLock, Goto, threadVars, Entered, PlaceT, RunT
  <1>21. ASSUME NEW t \in Threads, PublishNothing(t) PROVE FALSE
    BY <1>21 DEF PublishNothing, CompileEnds, Leave, threadVars, Entered, PlaceT, RunT
  <1>22. ASSUME NEW t \in Threads, PublishStaged(t) PROVE FALSE
    BY <1>22 DEF PublishStaged, CompileEnds, Leave, threadVars, Entered, PlaceT, RunT
  <1>23. ASSUME NEW t \in Threads, PublishStale(t) PROVE FALSE
    BY <1>23 DEF PublishStale, Goto, threadVars, Entered, PlaceT, RunT
  <1>24. ASSUME NEW t \in Threads, Retry(t) PROVE FALSE
    BY <1>24 DEF Retry, CompileEnds, Leave, threadVars, Entered, PlaceT, RunT
  <1>25. ASSUME NEW t \in Threads, RetryNothing(t) PROVE FALSE
    BY <1>25 DEF RetryNothing, CompileEnds, Leave, threadVars, Entered, PlaceT, RunT
  <1>26. ASSUME NEW t \in Threads, InvLog(t) PROVE FALSE
    BY <1>26 DEF InvLog, Goto, AfterLog, threadVars, Entered, PlaceT, RunT
  <1>27. ASSUME NEW t \in Threads, InvFilter(t) PROVE FALSE
    BY <1>27 DEF InvFilter, InvEnds, threadVars, Entered, PlaceT, RunT
  <1>28. ASSUME NEW t \in Threads, InvLock(t) PROVE FALSE
    BY <1>28 DEF InvLock, InvEnds, threadVars, Entered, PlaceT, RunT
  <1>29. ASSUME NEW t \in Threads, InvGen(t) PROVE FALSE
    BY <1>29 DEF InvGen, Goto, threadVars, Entered, PlaceT, RunT
  <1>30. ASSUME NEW t \in Threads, InvEpoch(t) PROVE FALSE
    BY <1>30 DEF InvEpoch, Goto, threadVars, Entered, PlaceT, RunT
  <1>31. ASSUME NEW t \in Threads, InvRetire(t) PROVE FALSE
    BY <1>31 DEF InvRetire, InvEnds, threadVars, Entered, PlaceT, RunT
  <1>32. ASSUME NEW t \in Threads,
                \/ \E l \in Lines, v \in Values : Write(t, l, v)
                \/ Observe(t)
                \/ \E l \in Lines : Fetch(t, l)
         PROVE  FALSE
    BY <1>32, <1>1 DEF Write, Observe, Fetch, threadVars
  <1> QED BY <1>1, <1>2, <1>3, <1>4, <1>5, <1>6, <1>7, <1>8, <1>9, <1>10, <1>11, <1>12, <1>13,
            <1>14, <1>15, <1>16, <1>17, <1>18, <1>19, <1>20, <1>21, <1>22, <1>23, <1>24, <1>25,
            <1>26, <1>27, <1>28, <1>29, <1>30, <1>31, <1>32 DEF Next, Guest, Lookup, Compile,
            Invalidation

\* What is entered is good: a lookup's find, an edge's target, or an entry of
\* an indirect-branch table younger than the lease that is still current.
LEMMA EnteredGood == ASSUME EnterInv, NEW t \in Threads, Enters(t) PROVE Entered(t) # 0 => Good(t, Entered(t))
  <1>0. Parts BY TypeSplit DEF EnterInv, TableInv
  <1> USE DEF EnterInv, TableInv
  <1>1. CASE LookCache(t)
    <2>1. want[t] \in Blocks BY <1>1 DEF LookCache, Hands, Looking
    <2>2. Good(t, cache[t][want[t]]) BY <1>1, <2>1 DEF LookCache, Found
    <2>3. at[t] = "look" /\ run'[t] = cache[t][want[t]] BY <1>0, <1>1 DEF LookCache, Parts, RunT
    <2>4. Entered(t) \in {0, run'[t]} BY <2>3 DEF Entered
    <2> QED BY <2>2, <2>3, <2>4
  <1>2. CASE Fill(t) \/ Bind(t)
    <2>1. at[t] \in {"fill", "bind"} /\ run'[t] = run[t] BY <1>2 DEF Fill, Bind
    <2>2. Good(t, run[t]) BY <2>1 DEF Found
    <2>3. Entered(t) \in {0, run'[t]} BY <2>1 DEF Entered
    <2> QED BY <2>1, <2>2, <2>3
  <1>3. CASE Chain(t)
    <2>1. at[t] = "guest" /\ run'[t] = edge[run[t]] /\ edge[run[t]] # 0 /\ run[t] # 0
      BY <1>0, <1>3 DEF Chain, Parts, RunT
    <2>2. run[t] \in Slots BY <1>0, <2>1, MadeFacts DEF Parts, RunT
    <2>3. Fresh(edge[run[t]])
      <3>1. edge[run[t]] = blocks[Target[pcOf[run[t]]]] BY <2>1, <2>2 DEF Edges
      <3>2. Target[pcOf[run[t]]] \in Blocks BY <1>0, <2>2, Facts DEF Parts, CodeT
      <3> QED BY <2>1, <3>1, <3>2 DEF TableFresh
    <2>4. Good(t, edge[run[t]]) BY <1>0, <2>3, FreshGood
    <2>5. Entered(t) \in {0, run'[t]} BY <2>1 DEF Entered
    <2> QED BY <2>1, <2>4, <2>5
  <1>4. ASSUME NEW b \in Blocks, Indirect(t, b) PROVE Entered(t) # 0 => Good(t, Entered(t))
    <2>1. at[t] = "guest" /\ run'[t] = ibl[t][b] /\ ibl[t][b] # 0 /\ seen[t] = epoch
      BY <1>0, <1>4 DEF Indirect, Parts, RunT
    <2>2. tlsGen[t] > epoch BY <2>1 DEF Leases
    <2>3. ibl[t][b] = blocks[b] BY <2>1, <2>2 DEF Caches
    <2>4. Good(t, ibl[t][b]) BY <1>0, <2>1, <2>3, PublishedGood
    <2>5. Entered(t) \in {0, run'[t]} BY <2>1 DEF Entered
    <2> QED BY <2>1, <2>4, <2>5
  <1> QED BY <1>1, <1>2, <1>3, <1>4 DEF Enters

\* A thread that has synchronised with the end of an invalidation never enters
\* code translated from the old bytes, through the table, its own caches, a
\* chain edge or the indirect-branch table.
THEOREM NeverEntersStale == Spec => EntersFresh
  <1>1. Init => EnterInv BY InitEnter
  <1>2. EnterInv /\ [Next]_vars => EnterInv' BY EnterStep, EnterStutter
  <1>3. ASSUME EnterInv, Next
        PROVE  \A t \in Threads : Entered(t) # 0 =>
                  \A l \in obs[t] \cap Deps[pcOf[Entered(t)]] : words[Entered(t)][l] = mem[l]
    <2>1. Parts BY <1>3, TypeSplit DEF EnterInv, TableInv
    <2> SUFFICES ASSUME NEW t \in Threads, Entered(t) # 0 PROVE Good(t, Entered(t))
      BY DEF Good
    <2>2. Enters(t) BY <1>3, <2>1, EnteredBy
    <2> QED BY <1>3, <2>2, EnteredGood
  <1> QED BY <1>1, <1>2, <1>3, PTL DEF Spec, EntersFresh
=============================================================================
