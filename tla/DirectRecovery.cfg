SPECIFICATION Spec
CONSTANTS
  a = a
  b = b
  r1 = r1
  r2 = r2
  g1 = g1
  g2 = g2
  u = u
  Client = Client
  States <- TwoStates
  Original = a
  Requests <- OneRequest
  Reconcilers <- TwoGateways
  Pipelines <- OneGateway
  Users <- OneUser
  MaxWrites = 1
  MaxIncidents = 1
  MaxFaults = 1
CHECK_DEADLOCK FALSE
INVARIANTS
  SucceededIsProven
  EvidenceIsFinal
PROPERTIES
  OutcomeIsFinal
  
