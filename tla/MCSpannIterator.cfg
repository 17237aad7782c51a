SPECIFICATION Spec
CONSTANTS
  h1 = h1
  h2 = h2
  h3 = h3
  v1 = v1
  v2 = v2
  v3 = v3
  v4 = v4
  v5 = v5
  HeadId = {h1, h2, h3}
  Vector <- MCVector
  NoVector = NoVector
  VidOf <- MCVidOf
  Batch = 2
  Postings <- MCPostings
  MaxScans = 2
INVARIANTS IInv LosesOnlyLastEntries
PROPERTIES ImplementsSource
CHECK_DEADLOCK FALSE
