SPECIFICATION Spec
CONSTANTS
  w1 = w1
  w2 = w2
  r1 = r1
  r2 = r2
  h1 = h1
  h2 = h2
  x1 = x1
  Workers = {w1, w2}
  Runs = {r1, r2}
  Hosts = {h1, h2}
  Shells = {}
  ShellHost <- MCShellHost
  Nobody = Nobody
  Targets <- MCTargets
  Sensitive = {r1}
  Cancelable = {r1, r2}
  Lease = 1
  Reports = {}
  Punctual = FALSE
  Faults = TRUE
  ReuseIds = FALSE
  Mortal = {}
CHECK_DEADLOCK FALSE
SYMMETRY WorkerSymmetry
INVARIANTS
  TargetsSettled
  CanceledOnRequest
  FinishedHoldNothing
PROPERTIES
  ActiveLockKept
  ImplementsLifecycle
  SecretLossInterrupts
