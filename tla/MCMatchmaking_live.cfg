SPECIFICATION FairSpec
CONSTANTS
  Users = {u1, u2}
  Sessions = {s1}
  Handlers = {h1, h2}
  NoUser = NoUser
  NoSession = NoSession
  WinGain = 0
  LossDeduction = 0
  Results = {NoUser}
  Clients <- OneClientEach
  MaxFaults = 0
  MaxCrashes = 1
PROPERTIES NoPlayerStranded WaitingIsResolved
