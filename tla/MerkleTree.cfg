SPECIFICATION TreeSpec
CONSTANTS
  MaxLeaves = 17
CHECK_DEADLOCK FALSE
INVARIANTS
  StoredProofsVerify
