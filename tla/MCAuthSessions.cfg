SPECIFICATION Spec
CONSTANTS
  Users = {u1, u2}
  Tokens = {t1, t2}
  Handlers = {h1, h2}
  NoUser = NoUser
  NoToken = NoToken
  MaxFaults = 1
  MaxCrashes = 1
SYMMETRY Symmetric
INVARIANTS SessionsInv OneSessionEach CopiesAreCurrent BannedAreOut
PROPERTIES NoRevival
