CONSTANTS
  QueueSize = 2
  StaleTicks = 1
  StartingElixirCap = 5
  MaxElixir = 6
  MaxConnections = 1
  MaxRequests = 1
SPECIFICATION FairSpec
INVARIANTS
  SessionInv
  RoundCycle
PROPERTIES
  GameOverIsFinal
  PhasesEnd
