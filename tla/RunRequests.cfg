SPECIFICATION FairSpec
CONSTANTS
  c1 = c1
  c2 = c2
  r1 = r1
  r2 = r2
  h1 = h1
  h2 = h2
  plain = plain
  sealed = sealed
  again = again
  bare = bare
  Nobody = Nobody
  Calls = {c1, c2}
  Requests = {plain, sealed, again, bare}
  Runs = {r1, r2}
  Hosts = {h1, h2}
  KeyOf <- MCKeys
  HostsOf <- MCHosts
  SourceOf <- MCSource
  Explicit = {sealed}
  Playbook = {plain, sealed}
  Gives = {sealed, again}
  MaxRevision = 3
  Secretive = {1, 2}
  Required = {1}
INVARIANTS
  TypeOK
  OneRunPerKey
  AnswersMatch
  EnvelopeMatches
  TargetsKept
  RetryFaithful
  ReplayAnswered
PROPERTIES
  CallsEnd
CHECK_DEADLOCK FALSE
