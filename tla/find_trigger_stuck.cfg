SPECIFICATION FairSpec
CONSTANTS
  Job = {j1}
  Order = {o1}
  Caller = {c1}
  Trigger = {"SL"}
  Qty = 1
  Extra = 0
  Enabled = {"REFUSAL"}
  None = None
CHECK_DEADLOCK FALSE
PROPERTY TriggerFiresAgain
