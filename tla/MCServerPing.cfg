SPECIFICATION FairSpec
CONSTANTS
  Hosts = {0, 1}
  Server = 100
  Consoles = {100}
  FirstHost = 100
  alpha = alpha
  alphabet = alphabet
  Names = {alpha, alphabet}
  TableSize = 5
  Stray = Stray
  NoId = NoId
  Readings <- LeftOver
  Memory <- ClearedMemory
  Port <- TwoHosts
  PacketsPerRead = 2
  MaxCommands = 1
PROPERTY NameIsAnswered
