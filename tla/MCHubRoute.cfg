CONSTANTS
  Clients <- RouteClients
  Profile <- RouteProfile
  Leavers = {"h2"}
  Messages <- RouteMessages
  KeyOrder <- ReplayKeys
  ChanCap = 2
  SendCap = 2
  Horizon = 1
  MaxTime = 1
SPECIFICATION Spec
INVARIANTS
  KeptInformed
  SameOrder
CHECK_DEADLOCK FALSE
