SPECIFICATION Spec
CONSTANTS
  Worker = {w1, w2}
  Amount = {1, 2}
  MaxFunds = 3
  MaxRetries = 3
  Enabled = {"RESERVE", "DEADLOCK"}
SYMMETRY Symmetry
CHECK_DEADLOCK FALSE
INVARIANT TypeOK
INVARIANT BooksAgree
PROPERTY NoOverdraft
