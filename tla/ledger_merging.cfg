SPECIFICATION Spec
CONSTANTS
  Position = {p1, p2}
  BuyJob = {b1, b2}
  SellJob = {s1, s2}
  Worker = {w1}
  MaxQty = 2
  DustRatio = 2
  Enabled = {"BUY_GROUPING", "SELL_SYNC", "SYNC_INTERNAL", "LIMIT_ORDERS", "HOOK_LOCK"}
  None = None
SYMMETRY Symmetry
CHECK_DEADLOCK FALSE
INVARIANT TypeOK
INVARIANT TotalIsBought
INVARIANT NoOversell
INVARIANT ClosedIffEmpty
