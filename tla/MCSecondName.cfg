SPECIFICATION Spec
CONSTANTS
  TableSize = 5
  Hosts = {0, 1}
  alpha = alpha
  alphabet = alphabet
  Names = {alpha, alphabet}
  Stray = Stray
  NoId = NoId
  Readings <- LeftOver
  Memory <- ClearedMemory
INVARIANT RegisteredHostsAreListed
CHECK_DEADLOCK FALSE
