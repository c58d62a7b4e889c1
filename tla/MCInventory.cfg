CONSTANTS
  a = a
  h1 = h1
  h2 = h2
  Cards = {a}
  Legendary = {}
  Decks = {1, 2}
  Packs = {1}
  Handlers = {h1, h2}
  MaxLevel = 2
  CardsCost <- MCPrice
  CrystalsCost <- MCPrice
  Value <- MCValue
  PackCrystals = 1
  PackContents <- MCPackContents
  MaxUnopenedPacks = 1
  MaxDeckSize = 2
  MaxCopies = 2
  MaxLegendary = 1
  StartCrystals = 1
  StarterCards <- MCStarter
  StarterDeck <- MCStarter
  StarterDecks = 1
  NoDeck = NoDeck
  MaxFaults = 1
SPECIFICATION Spec
INVARIANTS
  InventoryInv
  OneByOne
PROPERTIES
  LastCopyStays
  StarterIsPlayable
SYMMETRY Symmetry
