CONSTANTS
  bool = bool
  long = long
  void = void
  fun = fun
  proc = proc
  main = main
  unwritten = unwritten
  DataType = {bool, long}
  Bool = bool
  Void = void
  Size <- SizeOf
  VarType = {bool, long}
  Func = {}
  Main = main
  Args <- NoArgs
  Result <- NoResult
  ExprForm = {"literal"}
  UndefinedInsert = {"prepend", "crash"}
  Unwritten = unwritten
  MaxCode <- MainCode
  MaxDepth = 5
  LocalsCapacity = 4
  OperandsCapacity = 3
  MaxFrames = 1
SPECIFICATION FairRunSpec
INVARIANTS
  CodeKeepsLayout
  JumpsAreWritten
  ExitsClean
PROPERTY
  StraightCodeExits
