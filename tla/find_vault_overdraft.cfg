SPECIFICATION Spec
CONSTANTS
  Worker = {w1, w2}
  Amount = {1, 2}
  MaxFunds = 3
  MaxRetries = 3
  Enabled = {"TWO_DEBITS"}
SYMMETRY Symmetry
CHECK_DEADLOCK FALSE
INVARIANT NotOverdrawn
