\* Two readers and two writers of one cart, two failures.
CONSTANTS
  Readers = {r1, r2}
  Writers = {w1, w2}
  MaxWrites = 3
  MaxFaults = 2
  None = None
SPECIFICATION FairSpec
INVARIANTS
  TypeOK
  StaleNeedsOverlap
PROPERTIES
  EventuallyFresh
CHECK_DEADLOCK FALSE
