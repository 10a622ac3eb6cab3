SPECIFICATION Spec
CONSTANTS
  c1 = c1
  c2 = c2
  h1 = h1
  h2 = h2
  g1 = g1
  p1 = p1
  p2 = p2
  s1 = s1
  s2 = s2
  Credentials = {c1, c2}
  Hosts = {h1, h2}
  Groups = {g1}
  Playbooks = {p1, p2}
  Existing = {c1, h1, p1}
  Calls = {s1, s2}
  MaxRequests = 4
INVARIANTS
  MetadataMatches
  GroupWhole
PROPERTIES
  NeverReverted
SYMMETRY CallSymmetry
CHECK_DEADLOCK FALSE
