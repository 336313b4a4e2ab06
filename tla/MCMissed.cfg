CONSTANTS
  Lists <- ListsDef
  Parts <- PartsDef
  PartsOf <- PartsOfDef
  Products <- OneProduct
  MaxAdds = 1
  Second = 2
  PageRoles <- OnlyBuyer
  Orders <- TwoOrders
  Moved <- MissedMoved
  MaxListed <- MissedListed
  MaxLoads = 3
  MaxCalls <- MissedCalls
  ReadyDelay = 1
  MaxTime = 2
SPECIFICATION Spec
INVARIANT
  AppearAutomatically
CHECK_DEADLOCK FALSE
