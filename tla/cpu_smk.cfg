SPECIFICATION Spec
CONSTANTS
  v60 = v60
  v274 = v274
  Lines = {"STOP", "IRQ2"}
  Vectors = {v60, v274}
  NWords = 6
  Ram <- RamWords
  Readable <- ReadableWords
  HaltModes <- SmkModes
  LoadPSW <- AnyLowByte
  StartPSW <- AnyPSW
  VM1G = FALSE
INVARIANTS
  TypeOK
  AtMostOneFault
  FlagsQuiescent
  TracePairs
PROPERTIES
  Escalation
CHECK_DEADLOCK TRUE
