SPECIFICATION Spec
CONSTANTS
  i1 = i1  i2 = i2
  Imports = {i1, i2}
  Amounts = {1, 2}
  Price = 1
  MaxSeq = 5
  FirstFiles <- MCFirstFiles
INVARIANTS TypeOK MemoryIsFile StateVerifies
PROPERTY NothingAckedIsLost
CHECK_DEADLOCK FALSE
