SPECIFICATION Spec
CONSTANTS
  l1 = l1
  l2 = l2
  l3 = l3
  l4 = l4
  l5 = l5
  g1 = g1
  g2 = g2
  Logs <- OneLogs
  Backlog <- OneBacklog
  Internal <- OneInternal
  OldRows <- OneOldRows
  Timestamp <- OneTimestamp
  Gateways <- OneGateway
  BatchSize = 2
  MaxFaults = 2
INVARIANTS
  DuplicatesAreRetries
PROPERTIES
  AnchorIsFinal
  EventuallyAnchored
  ImplementsAnchorLedger
