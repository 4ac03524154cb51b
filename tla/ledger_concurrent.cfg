SPECIFICATION FairSpec
CONSTANTS
  Position = {p1, p2}
  BuyJob = {b1, b2}
  SellJob = {s1, s2}
  Worker = {w1, w2}
  MaxQty = 2
  DustRatio = 1
  Enabled = {"DUST", "SYNC_MISSING", "SYNC_INTERNAL"}
  None = None
CHECK_DEADLOCK FALSE
INVARIANT ClosedIffEmpty
INVARIANT BuyCountedOnce
PROPERTY ClosedIsFinal
PROPERTY FilledIsBooked
