CONSTANTS
  a = a
  b = b
  d = d
  Cards = {a, b, d}
  Bouncers = {b}
  DebugUnit = d
  NoCard = NoCard
  Decks <- MCDecks
  Slots <- MCSlots
  MaxDrawPile = 2
  DrawPileTopUp = 2
  MaxHand = 2
  MaxReturned = 1
SPECIFICATION Spec
INVARIANTS
  ZonesInv
PROPERTIES
  LockedCardsStay
