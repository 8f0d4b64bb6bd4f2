\* Three orders, two workers and a failure.
CONSTANTS
  Orders = {o1, o2, o3}
  Workers = {w1, w2}
  MaxRetries = 1
  MaxFaults = 1
  None = None
SPECIFICATION Spec
INVARIANTS
  TypeOK
PROPERTIES
  ImplementsBook
CHECK_DEADLOCK FALSE
