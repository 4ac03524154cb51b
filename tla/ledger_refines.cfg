SPECIFICATION Spec
CONSTANTS
  Position = {p1, p2, p3}
  BuyJob = {b1, b2, b3}
  SellJob = {s1, s2}
  Worker = {w1}
  MaxQty = 2
  DustRatio = 1
  Enabled = {"GROUP_API", "DUST", "SYNC_INTERNAL", "LIMIT_ORDERS"}
  None = None
SYMMETRY Symmetry
CHECK_DEADLOCK FALSE
INVARIANT RemainingMatchesFills
INVARIANT SellCountedOnce
PROPERTY ImplementsHoldings
