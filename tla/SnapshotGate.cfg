SPECIFICATION GateSpec
CONSTANTS
  l1 = l1
  w1 = w1
  w2 = w2
  g1 = g1
  Logs <- OneLog
  Age <- OneAge
  Workers <- TwoWorkers
  Gateways <- OneGateway
  BatchSize = 2
  MaxAttempts = 2
  MaxFaults = 3
  MaxSlow = 2
  MaxPipelineFaults = 1
INVARIANTS
  JobMatchesRecord
  OneVersionUnlessSlow
  SealedHasSnapshot
PROPERTIES
  EventuallyThrough
