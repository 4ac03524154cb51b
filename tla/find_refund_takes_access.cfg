SPECIFICATION Spec
CONSTANTS
  MaxSub = 2
  Payment = {p1, p2}
  User = {1}
  UserOf <- OneUser
  Worker = {w1}
  PaymentsListed = 2
  SubsListed = 2
  MaxCrash = 0
  Enabled = {"REFUND"}
  None = None
CHECK_DEADLOCK FALSE
SYMMETRY Symmetry
INVARIANT ActiveHasAccess
