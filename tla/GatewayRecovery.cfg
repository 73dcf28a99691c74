SPECIFICATION Spec
CONSTANTS
  l1 = l1
  l2 = l2
  l3 = l3
  u1 = u1
  q1 = q1
  q2 = q2
  Logs <- OneLog
  Users <- OneUser
  Requests <- TwoRequests
  Modes <- BothModes
  BatchSize = 1
  Damage <- LeafDamage
  Trails <- RecordsNearby
  Sources <- Empty
  MaxEdits = 2
  MaxFaults = 1
CHECK_DEADLOCK FALSE
INVARIANTS
  OneOpenIncident
  OutcomeFollowsEvent
PROPERTIES
  SucceededIsRestored
