SPECIFICATION Spec
CONSTANTS
  KBD_BUFFER_SIZE = 3
  FrameBits = 3
  Codes <- KeyCodes
  Lock = {"num"}
  MaxFaults = 1
INVARIANTS
  TypeOK
  BufferIsQueue
  Resync
  ManagerNotStuck
PROPERTIES
  LossBounded
  CodesAreRead
CHECK_DEADLOCK TRUE
