CONSTANTS
  Word = 16
  Byte = {x, y}
  Garbage = garbage
  Counts = {1, 3}
  Sizes = {0, 5}
  MaxSize = 6
SPECIFICATION Spec
INVARIANT
  TypeInv
PROPERTY
  ImplementsString
