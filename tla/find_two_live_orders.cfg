SPECIFICATION Spec
CONSTANTS
  Job = {j1, j2}
  Order = {o1, o2}
  Caller = {c1, c2}
  Trigger = {}
  Qty = 2
  Extra = 1
  Enabled = {"NO_STATUS"}
  None = None
SYMMETRY Symmetry
CHECK_DEADLOCK FALSE
INVARIANT OneLiveOrder
