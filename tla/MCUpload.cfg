SPECIFICATION UploadFairSpec
CONSTANTS
  None = None
  Garbled = Garbled
  Hosts = {0, 1}
  Switches = {2}
  Ids = {0, 1, 9}
  Names = {"short", "long"}
  Chunks = {"a", "b", "c"}
  FullChunks = {"b", "c"}
  Dirs = {"t0", "t1"}
  Port <- StarPort
  Disk0 <- TwoFiles
  Scripts <- OneSender
  FirstHost = 0
  Patient = TRUE
  Room = 8
  FramesPerRead = 2
  PingTimer = 2
  MaxChunks = 2
INVARIANTS StoredFilesAreWhole
PROPERTIES UploadLands
