SPECIFICATION Spec
CONSTANTS
  Job = {j1}
  Order = {o1, o2}
  Caller = {c1, c2}
  Trigger = {"SL"}
  Qty = 3
  Extra = 1
  Enabled = {"CALL_FAILS", "REFUSAL", "EXCHANGE_CANCEL", "PARTIAL", "CRASH", "TIMEOUT", "NO_STATUS", "SLOW_QUEUE", "BOOK_FAILS", "CANCEL_API", "EXPIRY", "HAND_SALE", "CANCEL_FAILS", "STALE_LIST"}
  None = None
SYMMETRY Symmetry
CHECK_DEADLOCK FALSE
INVARIANT TypeOK
INVARIANT BookedIsExecuted
PROPERTY FilledStaysExecuted
