CONSTANTS
  a1 = a1
  h1 = h1
  h2 = h2
  r1 = r1
  o1 = o1
  d1 = d1
  d2 = d2
  Assets = {a1}
  Caches = {}
  Handlers = {h1}
  Runs = {}
  Owners = {o1}
  Reconcilers = {d1}
  MaxCleanups = 1
SPECIFICATION FairDeletionSpec
PROPERTY
  ReadyIsFinalized
