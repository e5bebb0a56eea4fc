CONSTANTS
  r1 = r1
  r2 = r2
  c1 = c1
  w1 = w1
  w2 = w2
  LabRuns = {r1}
  Workers = {w1}
  Campaigns = {c1}
  AdmissionBound = 1
  MaxClaims = 1
  MaxRetries = 1
  LeaseTicks = 1
  BackoffTicks = 1
  MaxVersion = 1
  MaxFaults = 0
SPECIFICATION FairWorkSpec
PROPERTIES
  CancellationIsFinalized
