SPECIFICATION Spec
CONSTANTS
  w1 = w1
  w2 = w2
  r1 = r1
  r2 = r2
  h1 = h1
  h2 = h2
  x1 = x1
  Workers = {w1, w2}
  Runs = {r1, r2}
  Hosts = {h1, h2}
  Shells = {x1}
  ShellHost <- MCShellHost
  Nobody = Nobody
  Targets <- MCTargets
  Sensitive = {r1}
  Cancelable = {r1, r2}
  Lease = 1
  Reports = {"SUCCEEDED"}
  Punctual = TRUE
  Faults = FALSE
  ReuseIds = TRUE
  Mortal = {w1, w2}
INVARIANTS
  TypeOK
  HostExclusive
  OwnershipKept
  ResultsAgree
SYMMETRY WorkerSymmetry
CHECK_DEADLOCK FALSE
