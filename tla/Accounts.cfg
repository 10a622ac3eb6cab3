SPECIFICATION Spec
CONSTANTS
  u1 = u1
  u2 = u2
  c1 = c1
  c2 = c2
  Nobody = Nobody
  Users = {u1, u2}
  Calls = {c1, c2}
  Roles = {"OWNER", "ADMIN"}
  MaxVersion = 3
  MaxCodes = 2
INVARIANTS
  ActiveOwner
PROPERTIES
  ActivatedOnce
CHECK_DEADLOCK FALSE
