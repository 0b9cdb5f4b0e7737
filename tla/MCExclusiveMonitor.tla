------------------------- MODULE MCExclusiveMonitor -------------------------
(***************************************************************************)
(* Small instances of ExclusiveMonitor.  Two 8-byte granules in buckets of *)
(* their own.                                                              *)
(***************************************************************************)
EXTENDS ExclusiveMonitor, TLC

CONSTANTS t1, t2, lo, hi, b1, b2, v1, v2

MCThreads == {t1, t2}
MCCells == {lo, hi}

\* One granule, one width.
MCOne == {{lo}}
MCOneBucket == [a \in MCOne |-> b1]

\* Two words and the X pair that starts at the first: the pair's bucket is
\* that of its base.
MCPair == {{hi}, {lo, hi}}
MCPairBucket == [a \in MCPair |-> IF lo \in a THEN b1 ELSE b2]

MCValues == {v1, v2}

\* Threads and values are only compared for equality.
Symmetry == Permutations(MCThreads) \cup Permutations(MCValues)
=============================================================================
