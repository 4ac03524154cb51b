SPECIFICATION Spec
CONSTANTS
  Job = {j1}
  Order = {o1}
  Caller = {c1}
  Trigger = {}
  Qty = 1
  Extra = 0
  Enabled = {"REFUSAL"}
  None = None
SYMMETRY Symmetry
CHECK_DEADLOCK FALSE
INVARIANT LockIsUsed
