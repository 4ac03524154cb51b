SPECIFICATION Spec
CONSTANTS
  MaxSub = 2
  Payment = {p1}
  User = {1, 2}
  UserOf <- Owner
  Worker = {w1}
  PaymentsListed = 2
  SubsListed = 2
  MaxCrash = 0
  Enabled = {"UNTOLD"}
  None = None
CHECK_DEADLOCK FALSE
INVARIANT ActivePaidItself
