SPECIFICATION Spec
CONSTANTS
  Position = {p1}
  BuyJob = {b1}
  SellJob = {s1, s2}
  Worker = {w1, w2}
  MaxQty = 2
  DustRatio = 1
  Enabled = {}
  None = None
SYMMETRY Symmetry
CHECK_DEADLOCK FALSE
INVARIANT NoOversell
