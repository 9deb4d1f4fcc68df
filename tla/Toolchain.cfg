CONSTANTS
  count = count
  total = total
  part = part
  run = run
  help = help
  print = print
  scan = scan
  beep = beep
  Var = {count, total}
  Func = {run, help}
  Native = {print, scan, beep}
  Size <- SizeOf
  Word = 16
  None = none
  Text <- Programs
  SourceFile = {a, b}
  LibFile = {lib}
  Available = {print, scan}
  Absent = absent
  CutAt = {20}
  MaxFileSize = 44
  MaxInputs = 2
  MaxRuns = 5
SPECIFICATION Spec
INVARIANTS
  TablesMatchCode
  ExeIsResolved
  LibrariesAreTransparent
  CutFilesAreNoticed
