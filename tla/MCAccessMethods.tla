--------------------------- MODULE MCAccessMethods ---------------------------
EXTENDS AccessMethods, TLC

MCDistance == 1 .. 2
MCStopAfter ==
  [m \in {"hnsw", "sptag", "spann"} |-> IF m = "spann" THEN 1 ELSE 2]
MCReadAhead == [m \in {"spann", "pase"} |-> 3]
MCSymmetry == Permutations(Row)
=============================================================================
