SPECIFICATION FairSpec
CONSTANTS
  Job = {j1, j2}
  Order = {o1, o2}
  Caller = {c1, c2}
  Trigger = {}
  Qty = 1
  Extra = 1
  Enabled = {"CALL_FAILS", "REFUSAL", "HAND_SALE", "EXCHANGE_CANCEL", "NO_STATUS"}
  None = None
CHECK_DEADLOCK FALSE
PROPERTY FilledIsSettled
PROPERTY ExecutingEnds
INVARIANT CanceledIsOff
INVARIANT CanceledIsUnsold
