SPECIFICATION NetSpec
CONSTANTS
  Null = Null
  Configs <- AllConfigs
  Memory <- Anything
INVARIANTS PortsAreTheLinks PipesJoinTheEnds TopologyHolds FirstHostIsCurrent
CHECK_DEADLOCK FALSE
