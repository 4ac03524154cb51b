SPECIFICATION Spec
CONSTANTS
  Job = {j1, j2}
  Order = {o1, o2}
  Caller = {c1, c2}
  Trigger = {}
  Qty = 1
  Extra = 0
  Enabled = {"CANCEL_API"}
  None = None
SYMMETRY Symmetry
CHECK_DEADLOCK FALSE
INVARIANT CanceledIsUnsold
