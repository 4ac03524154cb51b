SPECIFICATION Spec
CONSTANTS
  Event = {e1, e2}
  MaxAlert = 2
  Worker = {w1, w2}
  Side = {"BUY"}
  Price = {95, 100}
  LateralPct = 1
  LateralCycles = 1
  TurnPct = 3
  TurnCycles = 1
  MaxFallPct = 4
  Enabled = {}
  None = None
CHECK_DEADLOCK FALSE
INVARIANT CancelledHasNoJobs
