SPECIFICATION Spec
CONSTANTS
  t1 = t1
  t2 = t2
  t3 = t3
  Tid = {t1, t2, t3}
  NULL = NULL
  Ranks <- MCRanks
  NumChild = 2
  KArg = 2
  TermCondArg = 1
  Modulus = 66
PROPERTIES PromiseSpec Termination
CHECK_DEADLOCK FALSE
