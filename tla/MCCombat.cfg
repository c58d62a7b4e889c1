CONSTANTS
  Definition <- MCDefinition
  Cards <- MCCards
  PlayedCards <- MCPlayedCards
  DebugUnits = {"Wolf"}
  NoUnit = NoUnit
  NCols = 1
  ChargeTicks = 2
  DeckColours = 1
  LeaderHealth = 3
  LeaderAttack = 1
  MilliElixirPerElixir = 1
  MilliElixirPerTick = 1
  StartingElixir = 2
  StartingElixirCap = 2
  MaxElixir = 2
  MaxWaves = 3
  MaxPlaced = 2
  MaxTicks = 3
SPECIFICATION Spec
INVARIANTS
  CombatInv
  SidesAreEqual
PROPERTIES
  DeadLeave
  LeaderIsGuarded
