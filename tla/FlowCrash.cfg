CONSTANTS
  bool = bool
  long = long
  void = void
  fun = fun
  proc = proc
  main = main
  unwritten = unwritten
  DataType = {bool, long}
  Bool = bool
  Void = void
  Size <- SizeOf
  VarType = {bool, long}
  Func = {}
  Main = main
  Args <- NoArgs
  Result <- NoResult
  ExprForm = {"literal", "variable"}
  UndefinedInsert = {"crash"}
  Unwritten = unwritten
  MaxCode <- MainCode
  MaxDepth = 5
SPECIFICATION Spec
INVARIANT
  EveryFlowIsAnalyzed
