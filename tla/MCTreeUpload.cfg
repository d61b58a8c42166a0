SPECIFICATION UploadSpec
CONSTANTS
  None = None
  Garbled = Garbled
  Hosts = {0, 1}
  Switches = {2, 3}
  Ids = {0, 1, 9}
  Names = {"short", "long"}
  Chunks = {"a", "b", "c"}
  FullChunks = {"b", "c"}
  Dirs = {"t0", "t1"}
  Port <- TwoSwitchPort
  Disk0 <- TwoFiles
  Scripts <- ToUnheard
  FirstHost = 1
  Patient = TRUE
  Room = 8
  FramesPerRead = 2
  PingTimer = 2
  MaxChunks = 2
INVARIANTS StoredFilesAreWhole
