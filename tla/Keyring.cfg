SPECIFICATION FairSpec
CONSTANTS
  a1 = a1
  w1 = w1
  w2 = w2
  Apis = {a1}
  Workers = {w1, w2}
  Rings <- RingSteps
  Records <- SomeRows
  kind <- SomeKinds
  BatchSize = 1
  MaxWrites = 3
  MaxJobs = 1
  MaxFaults = 1
INVARIANTS
  SecretsKept
PROPERTIES
  OldKeyUnused
  PepperStable
  RotationEnds
CHECK_DEADLOCK FALSE
