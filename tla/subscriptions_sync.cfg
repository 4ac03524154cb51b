SPECIFICATION FairSpec
CONSTANTS
  MaxSub = 1
  Payment = {p1}
  User = {1}
  UserOf <- Owner
  Worker = {w1}
  PaymentsListed = 1
  SubsListed = 1
  MaxCrash = 1
  Enabled = {"PIX", "REFUND"}
  None = None
CHECK_DEADLOCK FALSE
INVARIANT TypeOK
INVARIANT ActiveHasAccess
PROPERTY PaidIsActivated
