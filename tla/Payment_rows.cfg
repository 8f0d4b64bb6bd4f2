\* Two payments, one without a gateway, two workers, two clerks, a failure.
CONSTANTS
  Orders = {o1, o2}
  Workers = {w1, w2}
  Clerks = {c1, c2}
  Registered = {o1}
  MaxRetries = 1
  MaxFaults = 1
  None = None
SPECIFICATION FairSpec
INVARIANTS
  TypeOK
  PaidWasApproved
PROPERTIES
  ImplementsLedger
  SettledOrGivenUp
CHECK_DEADLOCK FALSE
