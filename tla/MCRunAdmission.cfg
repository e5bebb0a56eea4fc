SPECIFICATION FairAdmissionSpec
CONSTANTS
  k1 = k1
  k2 = k2
  p1 = p1
  p2 = p2
  h1 = h1
  h2 = h2
  c1 = c1
  Keys = {k1, k2}
  Projects = {p1, p2}
  ProjectOf <- TwoProjects
  Handlers = {h1, h2}
  Claimers = {c1}
  MaxUnfinished = 1
  MaxRetained = 2
INVARIANTS
  QuotasHold
  RequestKeepsMarker
  WorkKeepsTransport
PROPERTIES
  AdmissionIsAtomic
  EveryRequestEnds
