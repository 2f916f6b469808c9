SPECIFICATION Spec
CONSTANTS
  Drives = {"A"}
  Bare = {}
  Absent = {}
  MaxTrack = 0
  TrackLen = 5
  Image <- UnluckyDisk
  SectorSize <- Sizes
  CrcStep <- LinearStep
  Commands <- PulseCommands
  Words = {}
  MaxWrites = 0
INVARIANTS
  OkMeansRead
CHECK_DEADLOCK TRUE
