----------------------------- MODULE CodeCache -----------------------------
(***************************************************************************)
(* FrostJIT's table of translations once the process has several threads   *)
(* (FrostJIT/Runtime/CodeCache.cpp, Dispatch.cpp, Compiler/FrostJIT.hpp):  *)
(* compiling under the shared table lock, publication, the chain edges     *)
(* between blocks, the per-thread dispatch caches, and the invalidations   *)
(* that guest cache maintenance and mapping changes cause.                 *)
(*                                                                         *)
(* A translation is a slot of the append-only code buffer; slot 0 is none  *)
(* (a cold edge, an empty cache entry, the interpreter).  Guest code is    *)
(* bytes in lines; a block depends on the lines of its own instructions,   *)
(* of the leaves inlined into it and of the successors whose flags it read *)
(* (BlockEntry's range, inlined_ranges_, flag_deps).  A guest that changes *)
(* a line invalidates it next; until then the line is dirty.               *)
(*                                                                         *)
(* Cached interpreter decisions (a table entry without code) interpret the *)
(* bytes of the moment and cannot be stale; they are left out, and so are  *)
(* Tier-2 regions and the single-threaded mode, which has no second party. *)
(***************************************************************************)
EXTENDS Naturals, Sequences, FiniteSets

CONSTANTS Threads,      \* guest CPUs, one host thread each
          None,         \* no thread
          Blocks,       \* the guest pcs that start a block (numbers, as pcs)
          Lines,        \* the cache lines that hold guest code
          Values,       \* what a line can hold
          Unread,       \* a line the current compile has not fetched
          Deps,         \* the lines a block's translation depends on
          Inliners,     \* the blocks with an inlined leaf
          Target,       \* the block its static exit chains to
          Page,         \* the lines on the page of a line
          Granule,      \* the index granule of a line (CODE_INDEX_GRANULE)
          LogMax,       \* how many ranges compile_invalidations_ holds (64)
          MaxCode,      \* bound: the translations the code buffer has room for
          MaxWrites,    \* bound: changes of guest code
          Writers,      \* bound: the threads that change it
          Callers       \* bound: the threads that call through jit_call_helper

ASSUME CodeAssumption ==
    /\ Blocks \subseteq Nat \ {0} /\ Blocks # {} /\ Values # {}
    /\ Deps \in [Blocks -> SUBSET Lines]
    /\ Inliners \subseteq Blocks
    /\ Target \in [Blocks -> Blocks]
    /\ Page \in [Lines -> SUBSET Lines]
    /\ \A l \in Lines : l \in Page[l]
    /\ Lines = DOMAIN Granule
    /\ Unread \notin Values
    /\ None \notin Threads /\ Writers \subseteq Threads /\ Callers \subseteq Threads
    /\ LogMax \in Nat /\ MaxCode \in Nat /\ MaxWrites \in Nat

Slots == 1..MaxCode
Granules == {Granule[l] : l \in Lines}

VARIABLES
    mem,       \* guest code
    writes,    \* how often it was changed
    owed,      \* per thread: the lines it changed and has not yet invalidated
    obs,       \* history, per thread: the lines the guest knows to be clean
    \* The code buffer.
    made,      \* the slots in use
    pcOf,      \* the block a slot translates
    words,     \* the words it was translated from
    live,      \* MtEdge::live of its edge
    edge,      \* MtEdge::target of its edge, 0 for its cold exit
    \* The table.
    blocks,    \* blocks_: the published slot of a block, or 0
    index,     \* code_index_: the blocks that may depend on a granule
    writer,    \* who holds blocks_mutex_ exclusively
    readers,   \* who holds it shared beyond one step
    \* The compiler.
    compiler,  \* who holds compile_mutex_
    draft,     \* the words fetched so far by the compile under way
    active,    \* shared_compile_active_
    log,       \* compile_invalidations_
    overflow,  \* compile_invalidations_overflow_
    \* Dispatch.
    gen,       \* cache_generation_
    epoch,     \* g_jit_preempt_epoch
    tlsGen,    \* tls_cache_generation_
    seen,      \* CPU::jit_epoch_seen
    cache,     \* tls_last_block_ and the inline cache
    ibl,       \* the indirect-branch table
    \* Control.
    at,        \* what a thread is doing
    want,      \* the block it dispatches or compiles
    run,       \* the translation it runs, or has looked up
    ret,       \* the translation that called jit_call_helper, or 0
    inv        \* the invalidation a thread is in: its kind, range and victims

memVars == <<mem, writes, owed, obs>>
codeVars == <<made, pcOf, words>>
edgeVars == <<live, edge>>
tableVars == <<blocks, index>>
lockVars == <<writer, readers, compiler>>
compVars == <<draft, active, log, overflow>>
genVars == <<gen, epoch>>
tlsVars == <<tlsGen, seen, cache, ibl>>
threadVars == <<at, want, run, ret, inv>>
vars == <<memVars, codeVars, edgeVars, tableVars, lockVars, compVars, genVars, tlsVars, threadVars>>

-----------------------------------------------------------------------------
(* Types. *)

Places == {"guest", "sync", "look", "chain", "fill", "lease", "bind",
           "compile", "clook", "arm", "read", "plock", "pcheck", "retry",
           "log", "filter", "ilock", "gen", "epoch", "retire"}

Kinds == {"cache", "map", "all"}

NoInv == [kind |-> "none", range |-> {}, victims |-> {}]
Invs == [kind : Kinds, range : SUBSET Lines, victims : SUBSET Blocks]

NoBlock == 0
Empty == [b \in Blocks |-> 0]
NoWords == [l \in Lines |-> Unread]

TypeOK ==
    /\ mem \in [Lines -> Values] /\ writes \in Nat
    /\ owed \in [Threads -> SUBSET Lines] /\ obs \in [Threads -> SUBSET Lines]
    /\ made \in 0..MaxCode
    /\ pcOf \in [Slots -> Blocks] /\ words \in [Slots -> [Lines -> Values \cup {Unread}]]
    /\ live \in SUBSET (1..made) /\ edge \in [Slots -> 0..made]
    /\ blocks \in [Blocks -> 0..made] /\ index \in [Granules -> SUBSET Blocks]
    /\ writer \in Threads \cup {None} /\ readers \in SUBSET Threads
    /\ compiler \in Threads \cup {None}
    /\ draft \in [Lines -> Values \cup {Unread}]
    /\ active \in BOOLEAN /\ overflow \in BOOLEAN
    /\ log \in Seq(SUBSET Lines) /\ Len(log) <= LogMax
    /\ gen \in Nat /\ epoch \in Nat
    /\ tlsGen \in [Threads -> Nat] /\ seen \in [Threads -> Nat]
    /\ cache \in [Threads -> [Blocks -> 0..made]] /\ ibl \in [Threads -> [Blocks -> 0..made]]
    /\ at \in [Threads -> Places] /\ want \in [Threads -> Blocks \cup {NoBlock}]
    /\ run \in [Threads -> 0..made] /\ ret \in [Threads -> 0..made]
    /\ inv \in [Threads -> Invs \cup {NoInv}]

\* Every thread starts in the interpreter, with nothing translated.
Init ==
    /\ mem = [l \in Lines |-> CHOOSE v \in Values : TRUE] /\ writes = 0
    /\ owed = [t \in Threads |-> {}] /\ obs = [t \in Threads |-> Lines]
    /\ made = 0
    /\ pcOf = [x \in Slots |-> CHOOSE b \in Blocks : TRUE]
    /\ words = [x \in Slots |-> NoWords]
    /\ live = {} /\ edge = [x \in Slots |-> 0]
    /\ blocks = Empty /\ index = [g \in Granules |-> {}]
    /\ writer = None /\ readers = {} /\ compiler = None
    /\ draft = NoWords /\ active = FALSE /\ log = <<>> /\ overflow = FALSE
    /\ gen = 1 /\ epoch = 0
    /\ tlsGen = [t \in Threads |-> 0] /\ seen = [t \in Threads |-> 0]
    /\ cache = [t \in Threads |-> Empty] /\ ibl = [t \in Threads |-> Empty]
    /\ at = [t \in Threads |-> "guest"]
    /\ want = [t \in Threads |-> NoBlock]
    /\ run = [t \in Threads |-> 0] /\ ret = [t \in Threads |-> 0]
    /\ inv = [t \in Threads |-> NoInv]

-----------------------------------------------------------------------------
(* Helpers. *)

Goto(t, from, to) == at[t] = from /\ at' = [at EXCEPT ![t] = to]

Nested(t) == ret[t] # 0

Dirty(l) == \E t \in Threads : l \in owed[t]

SharedFree == writer = None
ExclusiveFree == writer = None /\ readers = {}

\* The dispatcher goes on to p; back in guest code its pc is forgotten.
Leave(t, p) ==
    /\ at' = [at EXCEPT ![t] = p]
    /\ want' = IF p = "guest" THEN [want EXCEPT ![t] = NoBlock] ELSE want

\* sync_dispatch_cache: the thread's caches are dropped when the generation
\* moved.
sync_dispatch_cache(t) ==
    /\ tlsGen' = [tlsGen EXCEPT ![t] = gen]
    /\ cache' = IF tlsGen[t] = gen THEN cache ELSE [cache EXCEPT ![t] = Empty]
    /\ ibl' = IF tlsGen[t] = gen THEN ibl ELSE [ibl EXCEPT ![t] = Empty]

-----------------------------------------------------------------------------
(* The guest. *)

\* A store to code, or a mapping replaced: the change itself.
Write(t, l, v) ==
    /\ at[t] = "guest" /\ owed[t] = {} /\ t \in Writers /\ writes < MaxWrites
    /\ mem' = [mem EXCEPT ![l] = v]
    /\ writes' = writes + 1
    /\ owed' = [owed EXCEPT ![t] = {l}]
    /\ obs' = [u \in Threads |-> obs[u] \ {l}]
    /\ UNCHANGED <<codeVars, edgeVars, tableVars, lockVars, compVars, genVars, tlsVars, threadVars>>

\* The guest synchronises with the threads that changed code and finished
\* their cache maintenance (it reads a flag, then executes ISB).
Observe(t) ==
    /\ at[t] = "guest"
    /\ obs' = [obs EXCEPT ![t] = {l \in Lines : ~Dirty(l)}]
    /\ UNCHANGED <<mem, writes, owed, codeVars, edgeVars, tableVars, lockVars, compVars,
                   genVars, tlsVars, threadVars>>

\* The static exit of a block: a jump through the edge's cell.  An edge that
\* goes backward also compares the epoch with the CPU's lease.
Chain(t) ==
    /\ at[t] = "guest" /\ run[t] # 0 /\ edge[run[t]] # 0
    /\ Target[pcOf[run[t]]] <= pcOf[run[t]] => seen[t] = epoch
    /\ run' = [run EXCEPT ![t] = edge[run[t]]]
    /\ UNCHANGED <<memVars, codeVars, edgeVars, tableVars, lockVars, compVars, genVars, tlsVars,
                   at, want, ret, inv>>

\* BR/BLR/RET through the indirect-branch table: a miss inside a nested call,
\* without an entry, or when the epoch moved since the lease.
Indirect(t, b) ==
    /\ at[t] = "guest" /\ run[t] # 0 /\ ~Nested(t)
    /\ ibl[t][b] # 0 /\ seen[t] = epoch
    /\ run' = [run EXCEPT ![t] = ibl[t][b]]
    /\ UNCHANGED <<memVars, codeVars, edgeVars, tableVars, lockVars, compVars, genVars, tlsVars,
                   at, want, ret, inv>>

\* A call that goes through jit_call_helper, and its return.
Call(t, b) ==
    /\ t \in Callers /\ run[t] # 0 /\ ~Nested(t)
    /\ Goto(t, "guest", "sync")
    /\ ret' = [ret EXCEPT ![t] = run[t]]
    /\ run' = [run EXCEPT ![t] = 0]
    /\ want' = [want EXCEPT ![t] = b]
    /\ UNCHANGED <<memVars, codeVars, edgeVars, tableVars, lockVars, compVars, genVars, tlsVars, inv>>

Return(t) ==
    /\ at[t] = "guest" /\ Nested(t)
    /\ run' = [run EXCEPT ![t] = ret[t]]
    /\ ret' = [ret EXCEPT ![t] = 0]
    /\ UNCHANGED <<memVars, codeVars, edgeVars, tableVars, lockVars, compVars, genVars, tlsVars,
                   at, want, inv>>

-----------------------------------------------------------------------------
(* run_block, and the loop of jit_call_helper. *)

\* A block exits to its dispatcher.  run_block takes the lease first; the
\* helper takes it after the lookup.
Dispatch(t, b) ==
    /\ Goto(t, "guest", "sync")
    /\ seen' = IF Nested(t) THEN seen ELSE [seen EXCEPT ![t] = epoch]
    /\ run' = [run EXCEPT ![t] = 0]
    /\ want' = [want EXCEPT ![t] = b]
    /\ UNCHANGED <<memVars, codeVars, edgeVars, tableVars, lockVars, compVars, genVars,
                   tlsGen, cache, ibl, ret, inv>>

Sync(t) ==
    /\ Goto(t, "sync", "look")
    /\ sync_dispatch_cache(t)
    /\ UNCHANGED <<memVars, codeVars, edgeVars, tableVars, lockVars, compVars, genVars,
                   seen, want, run, ret, inv>>

\* A hit in the thread's own caches needs no lock; run_block notes it for the
\* indirect branches.
LookCache(t) ==
    LET b == want[t] IN
    /\ at[t] = "look" /\ cache[t][b] # 0
    /\ run' = [run EXCEPT ![t] = cache[t][b]]
    /\ Leave(t, IF Nested(t) THEN "lease" ELSE "guest")
    /\ ibl' = IF Nested(t) THEN ibl ELSE [ibl EXCEPT ![t][b] = cache[t][b]]
    /\ UNCHANGED <<memVars, codeVars, edgeVars, tableVars, lockVars, compVars, genVars,
                   tlsGen, seen, cache, ret, inv>>

\* The table, under the shared lock.
LookTable(t) ==
    LET x == blocks[want[t]] IN
    /\ at[t] = "look" /\ cache[t][want[t]] = 0 /\ SharedFree
    /\ run' = [run EXCEPT ![t] = x]
    /\ at' = [at EXCEPT ![t] = IF x = 0 THEN "compile" ELSE IF Nested(t) THEN "fill" ELSE "chain"]
    /\ UNCHANGED <<memVars, codeVars, edgeVars, tableVars, lockVars, compVars, genVars, tlsVars,
                   want, ret, inv>>

\* try_chain_block then chain_back_references, with the table bs, the live
\* edges lv and the blocks pcs of the slots: the edge of the published block b,
\* if its target has code, and the live edges to b.  (A chained entry is not
\* chained again; its edge already is what the table says.)
Linked(b, bs, lv, pcs) ==
    [x \in Slots |->
        IF x \in lv /\ Target[pcs[x]] = b THEN bs[b]
        ELSE IF x = bs[b] /\ x \in lv /\ bs[Target[b]] # 0 THEN bs[Target[b]]
        ELSE edge[x]]

\* Lazy chaining, when the exclusive lock can be had at once.
TryChain(t) ==
    /\ Goto(t, "chain", "fill")
    /\ \/ /\ ExclusiveFree /\ blocks[want[t]] # 0
          /\ edge' = Linked(want[t], blocks, live, pcOf)
       \/ UNCHANGED edge
    /\ UNCHANGED <<memVars, codeVars, live, tableVars, lockVars, compVars, genVars, tlsVars,
                   want, run, ret, inv>>

\* The looked-up block goes into the thread's caches and, in run_block, runs.
Fill(t) ==
    LET b == want[t] IN
    /\ at[t] = "fill"
    /\ Leave(t, IF Nested(t) THEN "lease" ELSE "guest")
    /\ cache' = [cache EXCEPT ![t][b] = run[t]]
    /\ ibl' = IF Nested(t) THEN ibl ELSE [ibl EXCEPT ![t][b] = run[t]]
    /\ UNCHANGED <<memVars, codeVars, edgeVars, tableVars, lockVars, compVars, genVars,
                   tlsGen, seen, run, ret, inv>>

\* jit_call_helper's lease, then bind_ibl.
Lease(t) ==
    /\ Goto(t, "lease", "bind")
    /\ seen' = [seen EXCEPT ![t] = epoch]
    /\ UNCHANGED <<memVars, codeVars, edgeVars, tableVars, lockVars, compVars, genVars,
                   tlsGen, cache, ibl, want, run, ret, inv>>

\* Mutant: the helper binds the table without looking at the generation.
BindUnsynced(t) ==
    /\ at[t] = "bind" /\ Leave(t, "guest")
    /\ UNCHANGED <<memVars, codeVars, edgeVars, tableVars, lockVars, compVars, genVars, tlsVars,
                   run, ret, inv>>

Bind(t) ==
    /\ at[t] = "bind" /\ Leave(t, "guest")
    /\ sync_dispatch_cache(t)
    /\ UNCHANGED <<memVars, codeVars, edgeVars, tableVars, lockVars, compVars, genVars,
                   seen, run, ret, inv>>

-----------------------------------------------------------------------------
(* compile_entry. *)

CompileLock(t) ==
    /\ Goto(t, "compile", "clook")
    /\ compiler = None /\ compiler' = t
    /\ UNCHANGED <<memVars, codeVars, edgeVars, tableVars, writer, readers, compVars, genVars,
                   tlsVars, want, run, ret, inv>>

\* Under the shared lock: somebody else's translation, or an empty log.
CompileLook(t) ==
    LET x == blocks[want[t]] IN
    /\ at[t] = "clook" /\ SharedFree
    /\ at' = [at EXCEPT ![t] = IF x = 0 THEN "arm" ELSE "fill"]
    /\ run' = [run EXCEPT ![t] = x]
    /\ IF x = 0
       THEN /\ readers' = readers \cup {t} /\ log' = <<>> /\ overflow' = FALSE
            /\ UNCHANGED compiler
       ELSE compiler' = None /\ UNCHANGED <<readers, log, overflow>>
    /\ UNCHANGED <<memVars, codeVars, edgeVars, tableVars, writer, draft, active, genVars, tlsVars,
                   want, ret, inv>>

Arm(t) ==
    /\ Goto(t, "arm", "read")
    /\ active' = TRUE
    /\ UNCHANGED <<memVars, codeVars, edgeVars, tableVars, lockVars, draft, log, overflow,
                   genVars, tlsVars, want, run, ret, inv>>

Missing(b) == {l \in Deps[b] : draft[l] = Unread}

\* translate_block fetches guest code a word at a time, without a lock that
\* would keep other threads from changing it.
Fetch(t, l) ==
    /\ at[t] \in {"read", "retry"} /\ l \in Missing(want[t])
    /\ draft' = [draft EXCEPT ![l] = mem[l]]
    /\ UNCHANGED <<memVars, codeVars, edgeVars, tableVars, lockVars, active, log, overflow,
                   genVars, tlsVars, threadVars>>

\* The code of block b appended to the buffer, its edge live and cold.
Emit(b) ==
    /\ Missing(b) = {} /\ made < MaxCode
    /\ made' = made + 1
    /\ pcOf' = [pcOf EXCEPT ![made + 1] = b]
    /\ words' = [words EXCEPT ![made + 1] = draft]

\* The end of the shared compile: a staged block, or nothing (guest memory
\* that cannot be fetched).
Stage(t) ==
    /\ Goto(t, "read", "plock")
    /\ Emit(want[t])
    /\ live' = live \cup {made + 1}
    /\ run' = [run EXCEPT ![t] = made + 1]
    /\ readers' = readers \ {t}
    /\ UNCHANGED <<memVars, edge, tableVars, writer, compiler, compVars, genVars, tlsVars,
                   want, ret, inv>>

StageNothing(t) ==
    /\ Goto(t, "read", "plock")
    /\ readers' = readers \ {t}
    /\ UNCHANGED <<memVars, codeVars, edgeVars, tableVars, writer, compiler, compVars, genVars,
                   tlsVars, want, run, ret, inv>>

PublishLock(t) ==
    /\ Goto(t, "plock", "pcheck")
    /\ ExclusiveFree /\ writer' = t
    /\ active' = FALSE
    /\ UNCHANGED <<memVars, codeVars, edgeVars, tableVars, readers, compiler, draft, log, overflow,
                   genVars, tlsVars, want, run, ret, inv>>

staged_entry_invalidated(b) ==
    overflow \/ \E i \in 1..Len(log) : log[i] \cap Deps[b] # {}

\* publish_translation(b, x): the granules remembered, the table entry, the
\* links.
Publish(b, x, lv, pcs) ==
    LET bs == [blocks EXCEPT ![b] = x] IN
    /\ blocks' = bs
    /\ index' = [g \in Granules |->
                    IF \E l \in Deps[b] : Granule[l] = g THEN index[g] \cup {b} ELSE index[g]]
    /\ edge' = Linked(b, bs, lv, pcs)

\* Both locks released, with what the table now holds for the block.
CompileEnds(t, x) ==
    /\ writer' = None /\ compiler' = None /\ UNCHANGED readers
    /\ draft' = NoWords /\ UNCHANGED <<active, log, overflow>>
    /\ run' = [run EXCEPT ![t] = x]
    /\ Leave(t, IF x = 0 THEN "guest" ELSE "fill")

PublishNothing(t) ==
    /\ at[t] = "pcheck" /\ run[t] = 0
    /\ CompileEnds(t, 0)
    /\ UNCHANGED <<memVars, codeVars, edgeVars, tableVars, genVars, tlsVars, ret, inv>>

PublishStaged(t) ==
    /\ at[t] = "pcheck" /\ run[t] # 0
    /\ ~staged_entry_invalidated(want[t])
    /\ Publish(want[t], run[t], live, pcOf)
    /\ CompileEnds(t, run[t])
    /\ UNCHANGED <<memVars, codeVars, live, genVars, tlsVars, ret, inv>>

\* The bytes changed while compiling: the staged block's edge is revoked, and
\* the block is translated again with the table held.
PublishStale(t) ==
    /\ run[t] # 0
    /\ Goto(t, "pcheck", "retry")
    /\ staged_entry_invalidated(want[t])
    /\ live' = live \ {run[t]}
    /\ edge' = [edge EXCEPT ![run[t]] = 0]
    /\ run' = [run EXCEPT ![t] = 0]
    /\ draft' = NoWords
    /\ UNCHANGED <<memVars, codeVars, tableVars, lockVars, active, log, overflow, genVars, tlsVars,
                   want, ret, inv>>

Retry(t) ==
    /\ at[t] = "retry"
    /\ Emit(want[t])
    /\ live' = live \cup {made + 1}
    /\ Publish(want[t], made + 1, live', pcOf')
    /\ CompileEnds(t, made + 1)
    /\ UNCHANGED <<memVars, genVars, tlsVars, ret, inv>>

RetryNothing(t) ==
    /\ at[t] = "retry"
    /\ CompileEnds(t, 0)
    /\ UNCHANGED <<memVars, codeVars, edgeVars, tableVars, genVars, tlsVars, ret, inv>>

-----------------------------------------------------------------------------
(* invalidate_range and invalidate_all. *)

\* Cache maintenance names a line, a mapping change its whole pages.
Range(kind, ls) ==
    CASE kind = "cache" -> ls
      [] kind = "map"   -> UNION {Page[l] : l \in ls}
      [] kind = "all"   -> Lines

\* The step after the log: a range first looks at the index.
AfterLog(kind) == IF kind = "all" THEN "ilock" ELSE "filter"

\* log_invalidation_for_compiles: a fence, then a look whether a compile is
\* under way.
Invalidate(t, kind) ==
    /\ at[t] = "guest" /\ owed[t] # {}
    /\ at' = [at EXCEPT ![t] = IF active THEN "log" ELSE AfterLog(kind)]
    /\ inv' = [inv EXCEPT ![t] = [kind |-> kind, range |-> Range(kind, owed[t]), victims |-> {}]]
    /\ UNCHANGED <<memVars, codeVars, edgeVars, tableVars, lockVars, compVars, genVars, tlsVars,
                   want, run, ret>>

\* Mutant: a range that finds the log full is dropped.
InvLogDrops(t) ==
    /\ Goto(t, "log", AfterLog(inv[t].kind))
    /\ log' = IF Len(log) < LogMax THEN Append(log, inv[t].range) ELSE log
    /\ UNCHANGED <<memVars, codeVars, edgeVars, tableVars, lockVars, draft, active, overflow, genVars,
                   tlsVars, want, run, ret, inv>>

\* Mutant: the log has no end.
InvLogEndless(t) ==
    /\ Goto(t, "log", AfterLog(inv[t].kind))
    /\ log' = Append(log, inv[t].range)
    /\ UNCHANGED <<memVars, codeVars, edgeVars, tableVars, lockVars, draft, active, overflow, genVars,
                   tlsVars, want, run, ret, inv>>

InvLog(t) ==
    /\ Goto(t, "log", AfterLog(inv[t].kind))
    /\ IF Len(log) < LogMax
       THEN log' = Append(log, inv[t].range) /\ UNCHANGED overflow
       ELSE overflow' = TRUE /\ UNCHANGED log
    /\ UNCHANGED <<memVars, codeVars, edgeVars, tableVars, lockVars, draft, active, genVars,
                   tlsVars, want, run, ret, inv>>

\* The invalidation is over and the guest's instruction or system call returns.
InvEnds(t) ==
    /\ at' = [at EXCEPT ![t] = "guest"]
    /\ owed' = [owed EXCEPT ![t] = {}]
    /\ inv' = [inv EXCEPT ![t] = NoInv]

GranulesOf(r) == {Granule[l] : l \in r}

\* Ranges without indexed code are answered under the shared lock.
InvFilter(t) ==
    /\ at[t] = "filter" /\ SharedFree
    /\ IF \A g \in GranulesOf(inv[t].range) : index[g] = {}
       THEN InvEnds(t)
       ELSE /\ at' = [at EXCEPT ![t] = "ilock"] /\ UNCHANGED <<owed, inv>>
    /\ UNCHANGED <<mem, writes, obs, codeVars, edgeVars, tableVars, lockVars, compVars, genVars,
                   tlsVars, want, run, ret>>

\* block_code_unchanged: the words recorded are those in memory.  The words of
\* an inlined leaf are not recorded.
Unchanged(x) == pcOf[x] \notin Inliners /\ \A l \in Deps[pcOf[x]] : words[x][l] = mem[l]

\* Under the exclusive lock: the index entries of blocks no longer published
\* are pruned; of the others, those that overlap the range are victims, unless
\* the reason leaves bytes in place and the block still matches them.
Candidates(r) == {b \in UNION {index[g] : g \in GranulesOf(r)} : blocks[b] # 0}
Pruned(r) ==
    [g \in Granules |-> IF g \in GranulesOf(r) THEN {b \in index[g] : blocks[b] # 0} ELSE index[g]]
Victims(kind, r) ==
    IF kind = "all" THEN {b \in Blocks : blocks[b] # 0}
    ELSE {b \in Candidates(r) : /\ Deps[b] \cap r # {}
                                /\ ~(kind = "cache" /\ Unchanged(blocks[b]))}

InvLock(t) ==
    LET i == inv[t]
        v == Victims(i.kind, i.range)
    IN
    /\ at[t] = "ilock" /\ ExclusiveFree
    /\ index' = IF i.kind = "all" THEN [g \in Granules |-> {}] ELSE Pruned(i.range)
    /\ IF v = {} /\ i.kind # "all"
       THEN InvEnds(t) /\ UNCHANGED writer
       ELSE /\ writer' = t
            /\ at' = [at EXCEPT ![t] = "gen"]
            /\ inv' = [inv EXCEPT ![t].victims = v]
            /\ UNCHANGED owed
    /\ UNCHANGED <<mem, writes, obs, codeVars, edgeVars, blocks, readers, compiler, compVars,
                   genVars, tlsVars, want, run, ret>>

\* invalidate_dispatch_cache: the generation, then the epoch.
InvGen(t) ==
    /\ Goto(t, "gen", "epoch")
    /\ gen' = gen + 1
    /\ UNCHANGED <<memVars, codeVars, edgeVars, tableVars, lockVars, compVars, epoch, tlsVars,
                   want, run, ret, inv>>

InvEpoch(t) ==
    /\ Goto(t, "epoch", "retire")
    /\ epoch' = epoch + 1
    /\ UNCHANGED <<memVars, codeVars, edgeVars, tableVars, lockVars, compVars, gen, tlsVars,
                   want, run, ret, inv>>

\* retire_blocks_locked: the edges out of a victim die, the edges into it go
\* cold, the victims leave the table and this thread's caches (not its
\* indirect-branch table, which the epoch revokes).  A full invalidation kills
\* every edge.
Out(V) == {x \in Slots : pcOf[x] \in V}

\* Mutant: only the edges out of a victim are cut.
IntoNothing(V) == {}

Into(V) == {x \in Slots : Target[pcOf[x]] \in V}

InvRetire(t) ==
    LET i == inv[t]
        dead == IF i.kind = "all" THEN Slots ELSE Out(i.victims)
    IN
    /\ at[t] = "retire"
    /\ live' = live \ dead
    /\ edge' = [x \in Slots |-> IF x \in dead \cup Into(i.victims) THEN 0 ELSE edge[x]]
    /\ blocks' = [b \in Blocks |-> IF b \in i.victims THEN 0 ELSE blocks[b]]
    /\ cache' = [cache EXCEPT ![t] = [b \in Blocks |-> IF b \in i.victims THEN 0 ELSE cache[t][b]]]
    /\ writer' = None
    /\ InvEnds(t)
    /\ UNCHANGED <<mem, writes, obs, codeVars, index, readers, compiler, compVars, genVars,
                   tlsGen, seen, ibl, want, run, ret>>

-----------------------------------------------------------------------------
Guest(t) ==
    \/ \E l \in Lines, v \in Values : Write(t, l, v)
    \/ Observe(t)
    \/ Chain(t)
    \/ \E b \in Blocks : Indirect(t, b) \/ Call(t, b) \/ Dispatch(t, b)
    \/ Return(t)
    \/ \E kind \in Kinds : Invalidate(t, kind)

Lookup(t) ==
    \/ Sync(t) \/ LookCache(t) \/ LookTable(t) \/ TryChain(t) \/ Fill(t) \/ Lease(t) \/ Bind(t)

Compile(t) ==
    \/ CompileLock(t) \/ CompileLook(t) \/ Arm(t)
    \/ \E l \in Lines : Fetch(t, l)
    \/ Stage(t) \/ StageNothing(t)
    \/ PublishLock(t) \/ PublishNothing(t) \/ PublishStaged(t) \/ PublishStale(t)
    \/ Retry(t) \/ RetryNothing(t)

Invalidation(t) ==
    \/ InvLog(t) \/ InvFilter(t) \/ InvLock(t) \/ InvGen(t) \/ InvEpoch(t) \/ InvRetire(t)

Next == \E t \in Threads : Guest(t) \/ Lookup(t) \/ Compile(t) \/ Invalidation(t)

Spec == Init /\ [][Next]_vars

\* C++ code goes on, and a std::shared_mutex or std::mutex that is free again
\* and again is eventually had.  Nothing is assumed of the guest.
FairSpec ==
    /\ Spec
    /\ \A t \in Threads : SF_vars(Lookup(t) \/ Compile(t) \/ Invalidation(t))

-----------------------------------------------------------------------------
(* Properties. *)

\* The words of translation x are those of memory, except on lines whose
\* change has not been invalidated yet.
Fresh(x) == \A l \in Deps[pcOf[x]] : words[x][l] = mem[l] \/ Dirty(l)

\* No published block is older than the last completed invalidation of a line
\* it depends on: an invalidation that came while the block was compiled under
\* the shared lock was logged and seen, or found the block in the table
\* (log_invalidation_for_compiles, staged_entry_invalidated, the retry).
TableFresh == \A b \in Blocks : blocks[b] # 0 => pcOf[blocks[b]] = b /\ Fresh(blocks[b])

\* No chain edge leads to code that an invalidation has revoked, not even one
\* of a block that is itself retired and still running (retire_mt_source, the
\* edges of mt_edge_refs_, refresh_mt_edges).
EdgesFresh == \A x \in Slots : edge[x] # 0 => Fresh(edge[x])

\* The code whose entry a step of thread t is, or 0.  Returning to a caller
\* is no entry.
Entered(t) ==
    IF at[t] \in {"look", "fill", "bind"} /\ at'[t] = "guest" THEN run'[t]
    ELSE IF at[t] = "guest" /\ at'[t] = "guest" /\ ret'[t] = ret[t] /\ run'[t] # run[t] THEN run'[t]
    ELSE 0

\* A thread that has synchronised with the end of an invalidation never again
\* enters code translated from the old bytes, whichever way it enters: the
\* table, its caches, a chain edge, or the indirect-branch table in the
\* middle of native code (the generation and the epoch, and the order in which
\* both sides touch them).
EntersFresh ==
    [][\A t \in Threads : Entered(t) # 0 =>
          \A l \in obs[t] \cap Deps[pcOf[Entered(t)]] : words[Entered(t)][l] = mem[l]]_vars

\* Every lookup, compile and invalidation ends: the table lock, the compile
\* mutex and the log are taken in one order.
DispatchEnds == \A t \in Threads : at[t] # "guest" ~> at[t] = "guest"
=============================================================================
