CONSTANTS
  Lists <- ListsDef
  Parts <- PartsDef
  PartsOf <- PartsOfDef
  Products <- OneProduct
  MaxAdds = 2
  Second = 2
  PageRoles <- AllRoles
  Orders <- TwoOrders
  Moved <- PagesMoved
  MaxListed <- PagesListed
  MaxLoads = 3
  MaxCalls <- PagesCalls
  ReadyDelay = 1
  MaxTime = 2
SPECIFICATION Spec
INVARIANTS
  SettledCurrent
  OneOrderPerCart
  NeverTooEarly
PROPERTIES
  NeverBack
  BannerHonest
  CartKept
  Released
CHECK_DEADLOCK FALSE
