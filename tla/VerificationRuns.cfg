SPECIFICATION Spec
CONSTANTS
  g1 = g1
  g2 = g2
  LogTime <- Times
  Gateways <- TwoGateways
  Schedulers <- OneGateway
  BatchSize = 1
  Lookback = 1
  Overlap = 1
  UserRanges <- LateRange
  AgentRanges <- LateRange
  MaxDelay = 1
  MaxTime = 3
  MaxRuns = 2
  MaxFaults = 1
CHECK_DEADLOCK FALSE
INVARIANTS
  CompletedCoversRange
  CountersMatchRange
  GapsExplained
PROPERTIES
  EventuallyEnds
