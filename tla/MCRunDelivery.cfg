CONSTANTS
  r1 = r1
  r2 = r2
  acme = acme
  d1 = d1
  d2 = d2
  w1 = w1
  w2 = w2
  Runs = {r1}
  Orgs = {acme}
  OrgOf <- OneOrg
  Dispatchers = {d1, d2}
  Workers = {w1, w2}
  MaxAttempts = 2
  MaxGenerations = 2
  MaxDispatches = 1
  OrgCapacity = 1
  PendingQuota = 2
  RetentionQuota = 2
  LeaseTicks = 1
  StaleTicks = 2
  ClaimTicks = 1
  BackoffTicks = 1
  AwaitTries = 1
  CapacityTries = 1
  MaxTries = 3
  MaxStalls = 1
  MaxFaults = 2
SYMMETRY ProcessSymmetry
SPECIFICATION DispatchSpec
INVARIANTS
  ConfirmedWasPublished
  AttemptHasOneWorker
PROPERTIES
  StaleDeliveryIsInert
