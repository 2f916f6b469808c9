SPECIFICATION Spec
CONSTANTS
  Attached = {"master", "slave"}
  Cylinders = 1
  Heads = 2
  Sectors = 1
  Byte = 2
  HeadByte = 2
  SECTOR_SIZEW = 2
  Damage <- MayFail
  Careful = TRUE
  Counts = {1}
  Numbers = {0}
  CylLows = {}
  CylHighs = {}
  HeadBytes <- Selections
INVARIANTS
  RequestMeansTransfer
  OneAnswers
CHECK_DEADLOCK TRUE
