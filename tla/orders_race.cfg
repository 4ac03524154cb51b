SPECIFICATION Spec
CONSTANTS
  Job = {j1, j2}
  Order = {o1, o2}
  Caller = {c1, c2}
  Trigger = {"SL", "TSG"}
  Qty = 2
  Extra = 1
  Enabled = {"CALL_FAILS", "REFUSAL", "EXCHANGE_CANCEL"}
  None = None
SYMMETRY Symmetry
CHECK_DEADLOCK FALSE
INVARIANT OneLiveOrder
INVARIANT NotOversold
INVARIANT LiveIsWatched
