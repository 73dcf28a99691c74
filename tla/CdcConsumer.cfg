SPECIFICATION Spec
CONSTANTS
  r1 = r1
  u1 = u1
  c1 = c1
  c2 = c2
  Nobody = Nobody
  Stream <- Changes
  Consumers <- TwoConsumers
  MaxRestarts = 2
  MaxFaults = 1
CHECK_DEADLOCK FALSE
INVARIANTS
  NothingLostByRestarts
  DuplicatesExplained
  LatestExplained
  
PROPERTIES
  EventuallyConsumed
