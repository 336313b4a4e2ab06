CONSTANTS
  s1 = s1
  s2 = s2
  p1 = p1
  p2 = p2
  Slots <- LifeSlots
  May <- LifeMay
  Carts <- LifeCarts
  Offers <- LifeOffers
  OrderIds = {o1}
  Buyers = {b1}
  Sellers = {s1, s2}
  Shippers = {h1, h2}
  ReadyDelays = {1}
  MaxTime = 2
SPECIFICATION Spec
INVARIANTS
  EventsFollowCommits
  OneEventPerTransition
  AnswersTruthful
PROPERTIES
  EveryTransitionAnnounced
CHECK_DEADLOCK FALSE
