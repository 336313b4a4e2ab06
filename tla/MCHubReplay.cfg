CONSTANTS
  Clients <- ReplayClients
  Profile <- ReplayProfile
  Leavers <- ReplayLeavers
  Messages <- ReplayMessages
  KeyOrder <- ReplayKeys
  ChanCap = 1
  SendCap = 2
  Horizon = 0
  MaxTime = 2
SPECIFICATION Spec
INVARIANTS
  TypeOK
  MembersOpen
  StreamOrder
  ReplaySorted
  DashboardCurrent
PROPERTIES
  HubNeverStuck
  CleanedUp
CHECK_DEADLOCK FALSE
