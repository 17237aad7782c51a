CONSTANTS
  r1 = r1
  r2 = r2
  NoRow = NoRow
  Row = {r1, r2}
  Distance <- MCDistance
  Methods = {"hnsw", "sptag", "spann"}
  StopAfter <- MCStopAfter
  ReadAhead <- MCReadAhead
  OrderQueue = 2
  RangeQueue = 2
  Kinds = {"range", "both"}
  NullArgs = {FALSE}
SPECIFICATION Spec
SYMMETRY MCSymmetry
INVARIANTS WithinThreshold
CHECK_DEADLOCK FALSE
