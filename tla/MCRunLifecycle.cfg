CONSTANTS
  r1 = r1
  acme = acme
  Runs = {r1}
  Orgs = {acme}
  OrgOf <- OneOrg
  MaxAttempts = 3
  MaxGenerations = 3
  MaxDispatches = 3
  OrgCapacity = 1
  PendingQuota = 1
  RetentionQuota = 1
  LeaseTicks = 2
  StaleTicks = 3
  ClaimTicks = 1
  BackoffTicks = 1
SPECIFICATION FairSpec
INVARIANTS
  SoleAuthority
  OneOpenDispatch
  WaitingCanProceed
  ResultIsWitnessed
PROPERTIES
  ExpiredIsPowerless
  RecoverySparesLiveWork
  KeepsPromise
  CancellationEnds
  RunSettles
