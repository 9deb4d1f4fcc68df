CONSTANTS
  count = count
  total = total
  part = part
  run = run
  help = help
  print = print
  scan = scan
  beep = beep
  Var = {count, total, part}
  Func = {run}
  Native = {print}
  Size <- SizeOfThree
  Word = 4
  None = none
  Text <- Definitions
  SourceFile = {a, b, c}
  LibFile = {}
  Available = {print}
  Absent = absent
  CutAt = {20}
  MaxFileSize = 60
  MaxInputs = 3
  MaxRuns = 5
SPECIFICATION Spec
INVARIANT
  DefsNeverOverflow
