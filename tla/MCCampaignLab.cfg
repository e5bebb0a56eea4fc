CONSTANTS
  r1 = r1
  r2 = r2
  c1 = c1
  LabRuns = {r1, r2}
  Campaigns = {c1}
  AdmissionBound = 1
  MaxClaims = 3
  MaxRetries = 2
  LeaseTicks = 2
  BackoffTicks = 1
  MaxVersion = 2
SPECIFICATION LabSpec
INVARIANTS
  ResultIsWitnessed
  SecretServesWork
  UnfinishedBounded
PROPERTIES
  SettledIsFinal
  CanceledIsBarren
SYMMETRY LabSymmetry
