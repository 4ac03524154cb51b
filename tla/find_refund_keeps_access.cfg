SPECIFICATION FairSpec
CONSTANTS
  MaxSub = 1
  Payment = {p1}
  User = {1, 2}
  UserOf <- Owner
  Worker = {w1}
  PaymentsListed = 2
  SubsListed = 2
  MaxCrash = 0
  Enabled = {"REFUND"}
  None = None
CHECK_DEADLOCK FALSE
PROPERTY RefundEndsAccess
