SPECIFICATION FairSpec
CONSTANTS
  Event = {e1, e2}
  MaxAlert = 2
  Worker = {w1, w2}
  Side = {"BUY"}
  Price = {100}
  LateralPct = 1
  LateralCycles = 2
  TurnPct = 3
  TurnCycles = 1
  MaxFallPct = 4
  Enabled = {"MAX_TIME", "NO_JOBS"}
  None = None
CHECK_DEADLOCK FALSE
INVARIANT OneActiveAlert
INVARIANT JobsOnce
PROPERTY AlertEnds
