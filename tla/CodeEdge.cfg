CONSTANTS
  Word = 16
  Byte = {x}
  Garbage = garbage
  Counts = {1, 4}
  Sizes = {0}
  MaxSize = 11
SPECIFICATION Spec
INVARIANT
  CapacityCoversWrite
