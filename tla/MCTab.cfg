CONSTANTS
  Roles <- RolesDef
  Events <- EventsDef
  FeedCap = 1
  Strict = TRUE
  MaxSessions = 3
  MaxEffects = 3
SPECIFICATION Spec
INVARIANTS
  OneConnection
  RightIdentity
  Trying
PROPERTIES
  NoStrayEvents
  KeepsTrying
CHECK_DEADLOCK FALSE
