CONSTANTS
  Metrics = {"revenue"}
  Values = {1, 2}
  AlertIds = {trend1}
  FeedEvents = {"e1"}
  FeedCap = 2
  TickPeriod = 2
  Lag = 2
  Window = 2
  Kept = 2
  Day = 4
  Horizon = 4
  MaxTime = 6
  MaxMessages = 3
  MaxReloads = 1
SPECIFICATION Spec
PROPERTY
  RecoversCurrent
CHECK_DEADLOCK FALSE
