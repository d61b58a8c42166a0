SPECIFICATION FairSpec
CONSTANTS
  None = None
  Garbled = Garbled
  Hosts = {0, 1}
  Switches = {2, 3}
  Ids = {0, 1, 9}
  Names = {}
  Chunks = {}
  FullChunks = {}
  Dirs = {"t0"}
  Port <- TreePort
  Disk0 <- NoDisk
  Scripts <- OnePing
  FirstHost = 0
  Patient = TRUE
  Room = 2
  Route <- TreeRoute
  FramesPerRead = 26
  PingTimer = 1
  MaxChunks = 1
INVARIANTS LearnedPortsLead WayBackIsKnown OneAnswerPerRequest
PROPERTIES EchoesDie
