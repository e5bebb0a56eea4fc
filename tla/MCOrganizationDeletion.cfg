CONSTANTS
  a1 = a1
  h1 = h1
  h2 = h2
  r1 = r1
  o1 = o1
  d1 = d1
  d2 = d2
  Assets = {a1}
  Caches = {}
  Handlers = {}
  Runs = {r1}
  Owners = {o1}
  Reconcilers = {d1, d2}
  MaxCleanups = 2
SPECIFICATION FairDeletionSpec
PROPERTIES
  LiveClaimIsLeftAlone
  EveryDeletionEnds
