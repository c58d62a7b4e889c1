SPECIFICATION FairSpec
CONSTANTS
  u1 = u1
  u2 = u2
  u3 = u3
  u4 = u4
  NoRow = NoRow
  Users <- MCUsers
  Ratings <- MCRatings
  Initial = 1
  Rate = 1
  Interval = 1
  Top = 2
  FullWait = 1
  MaxMeanwhile = 1
INVARIANTS SelectionInv PairsAreStable StrangersAreLeft
PROPERTIES NobodyStarves
