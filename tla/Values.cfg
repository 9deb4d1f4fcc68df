SPECIFICATION Spec
CONSTANTS
  Global <- MCGlobal
  TypeOf <- MCTypeOf
  LocalType <- MCLocalType
  MaxDims = 2
  Size = {0, 1}
  Length = {1}
  StorageId <- MCStorageId
  Reserve = 6
  MaxLocals = 1
  MaxLost = 1
  Depth = 1
  Form = {"alloc", "init", "call", "effect"}
INVARIANTS
  ValuesTypeOK
  CountsHolders
  NeverCorrupt
  StatementsLeaveNothing
CHECK_DEADLOCK FALSE
