SPECIFICATION FairSpec
CONSTANTS
  w1 = w1
  w2 = w2
  r1 = r1
  r2 = r2
  h1 = h1
  h2 = h2
  x1 = x1
  Workers = {w1, w2}
  Runs = {r1, r2}
  Hosts = {h1, h2}
  Shells = {}
  ShellHost <- MCShellHost
  Nobody = Nobody
  Targets <- MCTargets
  Sensitive = {}
  Cancelable = {r1}
  Lease = 2
  Reports = {}
  Punctual = TRUE
  Faults = FALSE
  ReuseIds = TRUE
  Mortal = {w1}
PROPERTIES
  QueueDrains
  LiveWorkersFinish
CHECK_DEADLOCK FALSE
