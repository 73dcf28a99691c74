SPECIFICATION Spec
CONSTANTS
  l1 = l1
  l2 = l2
  l3 = l3
  l4 = l4
  l5 = l5
  g1 = g1
  g2 = g2
  Logs <- TwoLogs
  Backlog <- Nothing
  Internal <- Nothing
  OldRows <- Nothing
  Timestamp <- TwoTimestamp
  Gateways <- TwoGateways
  BatchSize = 2
  MaxFaults = 1
INVARIANTS
  TypeOK
  AnchoredHasEvidence
  OneBatchPerLog
  BatchAnchoredTogether
PROPERTIES
  StatusNeverRegresses
SYMMETRY GatewaySymmetry
