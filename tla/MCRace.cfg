CONSTANTS
  s1 = s1
  s2 = s2
  p1 = p1
  p2 = p2
  Slots <- RaceSlots
  May <- RaceMay
  Carts <- RaceCarts
  Offers <- RaceOffers
  OrderIds = {o1, o2, o3, o4}
  Buyers = {b1}
  Sellers = {s1, s2}
  Shippers = {}
  ReadyDelays = {1}
  MaxTime = 1
SPECIFICATION Spec
INVARIANTS
  StockCovered
  SplitExact
PROPERTIES
  NearerItsEnd
  EveryRequestAnswered
CHECK_DEADLOCK FALSE
