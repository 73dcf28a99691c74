SPECIFICATION Spec
CONSTANTS
  h1 = h1
  h2 = h2
  u1 = u1
  u2 = u2
  Handlers <- TwoHandlers
  Users <- TwoUsers
  MaxChanges = 1
  MaxEdits = 2
  MaxAudits = 2
  MaxFaults = 1
CHECK_DEADLOCK FALSE
INVARIANTS
  CountedOnce
  OneOpenRecord
  RecoveredIsJustified
PROPERTIES
  DismissedIsFinal
SYMMETRY HandlerSymmetry
