SPECIFICATION Spec
CONSTANTS
  a1 = a1
  a2 = a2
  b1 = b1
  f1 = f1
  f2 = f2
  list = list
  cursor = cursor
  table = table
  None = None
  Calls = {a1, a2, b1, f1, f2}
  Portals = {list, cursor, table}
  Query <- MCQuery
  InFrom = {table}
  SqlArgs <- MCSqlArgs
  Texts <- MCTexts
  NumChild = 2
  Modulus = 102
INVARIANTS IInv NestedCallsKeepApart StackIsBalanced SettingIsKept CallsFit
CHECK_DEADLOCK FALSE
