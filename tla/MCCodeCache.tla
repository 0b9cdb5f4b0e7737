---------------------------- MODULE MCCodeCache ----------------------------
(***************************************************************************)
(* Small instances of CodeCache.                                           *)
(***************************************************************************)
EXTENDS CodeCache, TLC

CONSTANTS t1, t2, l1, l2

\* One block that loops to itself, and a line of data beside its code: compiles
\* against invalidations that do and that do not concern them.
LoopDeps == 1 :> {l1}
LoopTarget == 1 :> 1

\* Two blocks that chain to each other; the code of the first never changes.
PairDeps == 1 :> {} @@ 2 :> {l1}
PairTarget == 1 :> 2 @@ 2 :> 1

MCPage == [l \in Lines |-> Lines]
MCGranule == [l \in Lines |-> 1]
=============================================================================
