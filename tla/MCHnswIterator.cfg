CONSTANTS
  n1 = n1
  n2 = n2
  n3 = n3
  i1 = i1
  i2 = i2
  Node = {n1, n2, n3}
  Iter = {i1, i2}
  NoIter = NoIter
  Distance <- MCDistance
  Graphs <- MCGraphs
  Loaded <- MCLoaded
  MaxLinks = 2
  TagMod = 2
  MaxLists = 2
  MaxDeleted = 1
SPECIFICATION MCSpec
SYMMETRY MCSymmetry
INVARIANTS IInv EachOnce ListsOwnedOnce ReachesAll InversionsAreNew
CHECK_DEADLOCK FALSE
