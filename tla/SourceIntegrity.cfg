SPECIFICATION Spec
CONSTANTS
  r1 = r1
  r2 = r2
  u1 = u1
  Resources <- TwoResources
  Users <- OneUser
  Recent = 1
  Backfill = 1
  Damage <- SomeDamage
  Scenarios <- SweepOrUser
CHECK_DEADLOCK FALSE
INVARIANTS
  VerdictsAreBacked
PROPERTIES
  EventuallySeen
