SPECIFICATION Spec
CONSTANTS
  Job = {j1}
  Order = {o1, o2}
  Caller = {c1}
  Trigger = {}
  Qty = 1
  Extra = 1
  Enabled = {"CRASH"}
  None = None
SYMMETRY Symmetry
CHECK_DEADLOCK FALSE
INVARIANT OneOrderPerJob
