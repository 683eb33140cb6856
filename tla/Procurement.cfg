CONSTANTS
  Pages = {p1, p2}
  Lines = {l1, l2}
  MaxQuantity = 1
  MaxOrders = 2
  MaxClicks = 3
  MaxCalls = 3
  MaxTroubles = 1
SYMMETRY Symmetry
CONSTRAINT SomeLines
SPECIFICATION Spec
INVARIANTS TypeOK ReceivedAddsUp OverReceivedIfStale GoodsForOrders StatusTellsReceipts
CHECK_DEADLOCK FALSE
