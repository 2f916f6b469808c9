SPECIFICATION Spec
CONSTANTS
  Byte = 4
  Shifts = 8
  CharSigned = TRUE
  Programs <- AllPrograms
  Inputs <- Start
  EmulateCBug = TRUE
INVARIANTS
  TypeOK
  ProgramsCompute
PROPERTIES
  InstructionsRight
CHECK_DEADLOCK FALSE
