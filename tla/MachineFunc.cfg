CONSTANTS
  bool = bool
  long = long
  void = void
  fun = fun
  proc = proc
  main = main
  unwritten = unwritten
  DataType = {bool, long}
  Bool = bool
  Void = void
  Size <- SizeOf
  VarType = {bool, long}
  Func = {fun, proc}
  Main = main
  Args <- ArgsOf
  Result <- ResultOf
  ExprForm = {"literal", "variable", "call", "sum", "self"}
  UndefinedInsert = {"prepend", "crash"}
  Unwritten = unwritten
  MaxCode <- FuncCode
  MaxDepth = 4
  LocalsCapacity = 9
  OperandsCapacity = 8
  MaxFrames = 3
SPECIFICATION RunSpec
INVARIANTS
  TypeInv
  CodeEnds
  MachineTypeOK
  FramesMatchLayout
  OnlySelfReadsAbort
  ReadsTheVariable
PROPERTY
  ReturnRestoresCaller
