SPECIFICATION Spec
CONSTANTS
  s1 = s1
  s2 = s2
  s3 = s3
  h1 = h1
  h2 = h2
  c1 = c1
  c2 = c2
  l1 = l1
  l2 = l2
  i1 = i1
  i2 = i2
  r1 = r1
  Nobody = Nobody
  Shells = {s1, s2, s3}
  Streams = {c1, c2}
  Runs = {r1}
  UserOf <- OneUser
  Hosts = {h1, h2}
  Logins = {l1}
  Instances = {i1}
  HostOf <- SharedHost
  Home <- OneHome
  MaxSessions = 1
  Lease = 1
  Punctual = TRUE
  Faults = TRUE
INVARIANTS
  TypeOK
  HostExclusive
  TicketOnce
  Admission
  EndedReleased
SYMMETRY StreamSymmetry
CHECK_DEADLOCK FALSE
