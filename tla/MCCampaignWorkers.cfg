CONSTANTS
  r1 = r1
  r2 = r2
  c1 = c1
  w1 = w1
  w2 = w2
  LabRuns = {r1}
  Workers = {w1, w2}
  Campaigns = {c1}
  AdmissionBound = 1
  MaxClaims = 4
  MaxRetries = 2
  LeaseTicks = 2
  BackoffTicks = 1
  MaxVersion = 2
  MaxFaults = 2
SPECIFICATION FairWorkSpec
INVARIANTS
  ClaimHasOneWorker
  EvaluatorHoldsLease
  ClaimsSuffice
PROPERTIES
  LabRunsKeepOrder
  RunsAreWorkedOff
