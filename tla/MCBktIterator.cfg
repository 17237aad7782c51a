SPECIFICATION Spec
CONSTANTS
  s1 = s1
  s2 = s2
  s3 = s3
  s4 = s4
  Sample = {s1, s2, s3, s4}
  Graphs <- MCGraphs
  CopiesOf <- MCCopies
  Distance <- MCDistance
  HeadBatch = 2
  MaxScans = 2
SYMMETRY MCSymmetry
INVARIANTS IInv ReturnsAll
PROPERTY ImplementsSource
CHECK_DEADLOCK FALSE
