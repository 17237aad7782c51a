CONSTANTS
  t1 = t1
  t2 = t2
  short = short
  long = long
  b1 = b1
  b2 = b2
  Tid = {t1, t2}
  Vec = {short, long}
  Dim <- MCDim
  NULL = NULL
  Backend = {b1, b2}
  Methods = {"hnsw", "pase_hnsw", "sptag"}
  Garbage <- MCGarbage
  MaxBuilds = 2
SPECIFICATION Spec
SYMMETRY Symmetry
INVARIANTS IInv RankedByOwnVector HoldsBuiltAndOwn ReadOnlyHoldsAll FitsCapacity
CHECK_DEADLOCK FALSE
