----------------------------- MODULE MCRelaxedSort -----------------------------
EXTENDS RelaxedSort, TLC

MCDistance == 1 .. 3
MCStopAfter == [m \in {"hnsw", "sptag", "spann"} |-> 1]
MCReadAhead == [m \in {"spann", "pase"} |-> 2]
MCSymmetry == Permutations(Row)
=============================================================================
