SPECIFICATION BufferSpec
CONSTANTS
  Size = 3
  Counted = {"JOIN_GAME"}
  Uncounted = {"CARD_PLACED"}
  Nil = Nil
  MaxSequence = 4
INVARIANTS BufferInv LatestAreTheTail FirstOfItsNumber
PROPERTIES RefinesLog
