CONSTANTS
  t1 = t1
  t2 = t2
  t3 = t3
  t4 = t4
  t5 = t5
  Tid = {t1, t2, t3, t4, t5}
  NULL = NULL
  Ranks <- MCRanks
  NumChild = 2
  Ef = 2
  K = 2
  TermCond = 1
SPECIFICATION Spec
SYMMETRY Symmetry
INVARIANTS IInv KeepsBest ExactWhenExhausted StopsWhenStable StopsInTime ContextLeaksOnlyOnSeen
PROPERTY PromiseSpec
CHECK_DEADLOCK FALSE
