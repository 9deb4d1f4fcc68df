SPECIFICATION Spec
CONSTANTS
  CharMax = 1
  IntMax = 3
  LongMax = 7
  MaxDims = 2
  GlobalType <- MCGlobalType
  Func <- MCFunc
  Body <- MCBody
  Stmt <- MCStmt
  FuncNames <- MCFuncNames
  GlobalValue <- MCGlobalValue
  InitialHeap <- MCInitialHeap
INVARIANTS
  ExprTypeOK
  
  AcceptedIsGenerated
  NeverMisreads
  OperandsAreTyped
  ResultIsMeaning
CHECK_DEADLOCK FALSE
