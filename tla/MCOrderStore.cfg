CONSTANTS
  OrderIds = {o1, o2, o3}
  Buyers = {b1}
  Sellers = {s1, s2}
  Shippers = {h1, h2}
  ItemLists <- MCItemLists
  ReadyDelays = {1, 2}
  MaxTime = 3
SYMMETRY MCSymmetry
SPECIFICATION Spec
INVARIANTS
  IndexesAgree
  TimelineOK
PROPERTIES
  WrittenOnce
  ImplementsBoard
CHECK_DEADLOCK FALSE
