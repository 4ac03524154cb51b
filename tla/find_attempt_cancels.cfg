SPECIFICATION Spec
CONSTANTS
  MaxSub = 1
  Payment = {p1, p2}
  User = {1, 2}
  UserOf <- Owner
  Worker = {w1}
  PaymentsListed = 2
  SubsListed = 2
  MaxCrash = 0
  Enabled = {"RETRY"}
  None = None
CHECK_DEADLOCK FALSE
PROPERTY PaidStaysActive
