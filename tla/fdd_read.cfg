SPECIFICATION FairSpec
CONSTANTS
  Drives = {"A"}
  Bare = {}
  Absent = {}
  MaxTrack = 1
  TrackLen = 11
  Image <- OneDisk
  SectorSize <- Sizes
  CrcStep <- LinearStep
  Commands <- ReaderCommands
  Words = {}
  MaxWrites = 0
INVARIANTS
  TypeOK
  VerdictRight
  OkMeansGood
PROPERTIES
  SearchEnds
CHECK_DEADLOCK TRUE
