SPECIFICATION Spec
CONSTANTS
  MaxSub = 2
  Payment = {p1}
  User = {1}
  UserOf <- OneUser
  Worker = {w1}
  PaymentsListed = 1
  SubsListed = 1
  MaxCrash = 1
  Enabled = {"PIX"}
  None = None
CHECK_DEADLOCK FALSE
INVARIANT ActiveWasPaid
INVARIANT LinkedIsRecorded
