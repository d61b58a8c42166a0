SPECIFICATION FairSpec
CONSTANTS
  None = None
  Clients = {"a", "b"}
  Servers = {1, 2}
  Reader = 1
  Backlog = 2
  Room = 2
  FramesPerRead = 2
  Remote = {"b"}
  MaxPackets = 2
  MaxStarts = 2
INVARIANT PacketsComeInTurn
PROPERTY AcceptedIsServed
CHECK_DEADLOCK FALSE
