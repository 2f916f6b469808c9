SPECIFICATION Spec
CONSTANTS
  Attached = {"master"}
  Cylinders = 4
  Heads = 2
  Sectors = 2
  Byte = 3
  HeadByte = 2
  SECTOR_SIZEW = 2
  Damage <- MayFail
  Careful = FALSE
  Counts = {0, 1, 2}
  Numbers = {1, 2}
  CylLows = {0, 2}
  CylHighs = {0, 1}
  HeadBytes <- Selections
INVARIANTS
  CounterInRange
CHECK_DEADLOCK TRUE
