SPECIFICATION Spec
CONSTANTS
  Users = {u1, u2}
  Sessions = {s1}
  Handlers = {h1, h2}
  NoUser = NoUser
  NoSession = NoSession
  WinGain = 15
  LossDeduction = 10
  Results = {u1, u2, NoUser}
  Clients <- AnyClient
  MaxFaults = 0
  MaxCrashes = 0
SYMMETRY Symmetric
INVARIANT MmrLedger
