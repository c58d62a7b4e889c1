SPECIFICATION Spec
CONSTANTS
  Users = {u1, u2}
  Sessions = {s1}
  Handlers = {h1, h2}
  NoUser = NoUser
  NoSession = NoSession
  WinGain = 0
  LossDeduction = 0
  Results = {u1, u2, NoUser}
  Clients <- AnyClient
  MaxFaults = 1
  MaxCrashes = 1
SYMMETRY Symmetric
INVARIANTS ProtocolInv
PROPERTIES AgreementKept
