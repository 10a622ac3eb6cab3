SPECIFICATION FairSpec
CONSTANTS
  s1 = s1
  s2 = s2
  s3 = s3
  h1 = h1
  h2 = h2
  c1 = c1
  c2 = c2
  l1 = l1
  l2 = l2
  i1 = i1
  i2 = i2
  r1 = r1
  Nobody = Nobody
  Shells = {s1}
  Streams = {c1, c2}
  Runs = {r1}
  UserOf <- OneUser
  Hosts = {h1}
  Logins = {l1}
  Instances = {i1, i2}
  HostOf <- OneShell
  Home <- OneHome
  MaxSessions = 2
  Lease = 1
  Punctual = FALSE
  Faults = FALSE
PROPERTIES
  ActiveLockKept
  CloseHonoured
  RevokedEnds
  LoserStops
CHECK_DEADLOCK FALSE
