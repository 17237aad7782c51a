CONSTANTS
  r1 = r1
  r2 = r2
  r3 = r3
  r4 = r4
  NoRow = NoRow
  Row = {r1, r2, r3, r4}
  Distance <- MCDistance
  Methods = {"hnsw", "sptag", "spann", "pase"}
  StopAfter <- MCStopAfter
  ReadAhead <- MCReadAhead
  OrderQueue = 2
  RangeQueue = 2
  Kinds = {"order", "range", "neither"}
  NullArgs = {TRUE, FALSE}
SPECIFICATION Spec
SYMMETRY MCSymmetry
INVARIANTS IInv InOrderMeans ReturnsWhatIsInRange ClosesIterators ReadAheadComesFirst GivesUpWithReason
CHECK_DEADLOCK FALSE
