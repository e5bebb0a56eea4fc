SPECIFICATION FairPollingSpec
CONSTANTS
  v1 = v1
  v2 = v2
  p1 = p1
  p2 = p2
  Views = {v1, v2}
  Pollers = {p1, p2}
  LastVersion = 2
INVARIANTS
  OneLoop
  RegisteredIsServed
PROPERTIES
  ShownNeverGoesBack
  EndIsShown
