SPECIFICATION Spec
CONSTANTS
  Position = {p1, p2}
  BuyJob = {b1, b2}
  SellJob = {s1, s2}
  Worker = {w1, w2}
  MaxQty = 2
  DustRatio = 1
  Enabled = {}
  None = None
SYMMETRY Symmetry
CHECK_DEADLOCK FALSE
PROPERTY AnomalyKept
