CONSTANTS
  r1 = r1
  r2 = r2
  NoRow = NoRow
  Row = {r1, r2}
  Distance <- MCDistance
  OrderQueue = 1
  RangeQueue = 1
  StopAfter <- MCStopAfter
  ReadAhead <- MCReadAhead
  Kinds = {"order"}
  NullArgs = {FALSE}
  Limit = 0
  Shapes = {"scan"}
  Methods = {"plain"}
  Others = {}
SPECIFICATION SortSpec
SYMMETRY MCSymmetry
INVARIANTS NoRowLost
CHECK_DEADLOCK FALSE
