SPECIFICATION Spec
CONSTANTS
  Drives = {"A"}
  Bare = {"B"}
  Absent = {"C"}
  MaxTrack = 0
  TrackLen = 3
  Image <- BlankDisk
  SectorSize <- Sizes
  CrcStep <- LinearStep
  Commands <- WriterCommands
  Words = {258, 772}
  MaxWrites = 4
INVARIANTS
  RequestMeansRoom
  SealedBlocksGood
PROPERTIES
  WriteQueue
CHECK_DEADLOCK TRUE
