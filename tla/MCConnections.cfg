SPECIFICATION FairSpec
CONSTANTS
  SendSize = 1
  QueueSize = 1
  MaxConns = 2
  MaxGames = 1
INVARIANTS ConnectionsInv
PROPERTIES ClosedIsSilent PumpsEnd NewestArrives
\* When the clients have gone and the game is over, nothing is left to do.
CHECK_DEADLOCK FALSE
