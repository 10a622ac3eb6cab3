SPECIFICATION Spec
CONSTANTS
  c1 = c1
  c2 = c2
  Calls = {c1, c2}
  MaxSets = 2
  MaxChallenges = 2
  MaxSessions = 1
  MaxStep = 2
INVARIANTS
  ConsumedOnce
  OwnVerification
SYMMETRY CallSymmetry
CHECK_DEADLOCK FALSE
