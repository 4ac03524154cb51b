SPECIFICATION Spec
CONSTANTS
  Position = {p1, p2, p3, p4}
  BuyJob = {b1, b2, b3, b4}
  SellJob = {s1}
  Worker = {w1}
  MaxQty = 1
  DustRatio = 1
  Enabled = {"BUY_GROUPING", "GROUP_API", "SYNC_INTERNAL"}
  None = None
SYMMETRY Symmetry
CHECK_DEADLOCK FALSE
INVARIANT BuyCountedOnce
