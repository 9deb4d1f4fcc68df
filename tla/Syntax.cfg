SPECIFICATION Spec
CONSTANTS
  IntMax = 20
  LongMax = 100
  Sources <- MCSources
INVARIANTS
  SyntaxTypeOK
  PositionsAreTrue
  ParsesGrammar
  ParsesWhatIsPrinted
  
PROPERTY
  LexesLongest
CHECK_DEADLOCK FALSE
