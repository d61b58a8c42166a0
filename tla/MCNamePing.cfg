SPECIFICATION FairSpec
CONSTANTS
  Hosts = {0, 1}
  Server = 100
  Consoles = {0, 1}
  FirstHost = 0
  alpha = alpha
  alphabet = alphabet
  Names = {alpha, alphabet}
  TableSize = 5
  Stray = Stray
  NoId = NoId
  Readings <- LeftOver
  Memory <- ClearedMemory
  Port <- TwoHosts
  PacketsPerRead = 2
  MaxCommands = 3
PROPERTY NamePingReturns
