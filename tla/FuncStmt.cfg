SPECIFICATION Spec
CONSTANTS
  CharMax = 1
  IntMax = 3
  LongMax = 7
  MaxDims = 2
  GlobalType <- MCGlobalType
  Func <- MCFunc
  Body <- MCBody
  Stmt <- FuncStmt
  FuncNames <- MCFuncNames
  GlobalValue <- MCGlobalValue
  InitialHeap <- MCInitialHeap
INVARIANT
  AcceptedIsGenerated
CHECK_DEADLOCK FALSE
