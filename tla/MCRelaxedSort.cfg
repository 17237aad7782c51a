CONSTANTS
  r1 = r1
  r2 = r2
  r3 = r3
  r4 = r4
  NoRow = NoRow
  Row = {r1, r2, r3, r4}
  Distance <- MCDistance
  OrderQueue = 2
  RangeQueue = 1
  StopAfter <- MCStopAfter
  ReadAhead <- MCReadAhead
  Kinds = {"order"}
  NullArgs = {FALSE}
  Limit = 2
  Shapes = {"scan", "result", "join"}
  Methods = {"hnsw", "sptag", "spann", "pase", "plain"}
  Others = {TRUE, FALSE}
SPECIFICATION SortSpec
SYMMETRY MCSymmetry
INVARIANTS SortInv FullAnswer ExactIfSettled
PROPERTIES PromiseSpec
CHECK_DEADLOCK FALSE
