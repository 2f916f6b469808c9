SPECIFICATION FairSpec
CONSTANTS
  v60 = v60
  v274 = v274
  Lines = {"STOP", "IRQ2"}
  Vectors = {v60, v274}
  NWords = 6
  Ram <- RamWords
  Readable <- ReadableWords
  HaltModes <- PlainModes
  LoadPSW <- AnyLowByte
  StartPSW <- AnyPSW
  VM1G = FALSE
INVARIANTS
  StopFlagFresh
  WaitClean
PROPERTIES
  TTrapEachInstr
  HangupRecovers
  StopServed
CHECK_DEADLOCK TRUE
