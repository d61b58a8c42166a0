SPECIFICATION UploadSpec
CONSTANTS
  None = None
  Garbled = Garbled
  Hosts = {0, 1, 3}
  Switches = {2}
  Ids = {0, 1, 3, 9}
  Names = {"short", "long"}
  Chunks = {"a", "b", "c"}
  FullChunks = {"b", "c"}
  Dirs = {"t0", "t1"}
  Port <- ThreePort
  Disk0 <- TwoFiles
  Scripts <- TwoSenders
  FirstHost = 0
  Patient = TRUE
  Room = 12
  FramesPerRead = 2
  PingTimer = 2
  MaxChunks = 2
INVARIANTS StoredFilesAreWhole
