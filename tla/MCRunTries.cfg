CONSTANTS
  r1 = r1
  r2 = r2
  acme = acme
  d1 = d1
  d2 = d2
  w1 = w1
  w2 = w2
  Runs = {r1, r2}
  Orgs = {acme}
  OrgOf <- OneOrg
  Dispatchers = {d1}
  Workers = {w1, w2}
  MaxAttempts = 2
  MaxGenerations = 1
  MaxDispatches = 1
  OrgCapacity = 1
  PendingQuota = 2
  RetentionQuota = 2
  LeaseTicks = 1
  StaleTicks = 1
  ClaimTicks = 1
  BackoffTicks = 1
  AwaitTries = 1
  CapacityTries = 2
  MaxTries = 4
  MaxStalls = 1
  MaxFaults = 1
SYMMETRY Symmetry
SPECIFICATION DispatchSpec
INVARIANTS
  TriesSuffice
  OccupancyBounded
