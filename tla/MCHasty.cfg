SPECIFICATION FairSpec
CONSTANTS
  None = None
  Garbled = Garbled
  Hosts = {0, 1}
  Switches = {2}
  Ids = {0, 1, 9}
  Names = {}
  Chunks = {}
  FullChunks = {}
  Dirs = {"t0"}
  Port <- StarPort
  Disk0 <- NoDisk
  Scripts <- Hasty
  FirstHost = 0
  Patient = FALSE
  Room = 2
  FramesPerRead = 26
  PingTimer = 2
  MaxChunks = 1
PROPERTIES ManagerReturns
