SPECIFICATION LiveSpec
CONSTANTS
  Files = {f1}
  Loaders = {p1, p2}
  Certs = {v1, v2}
  Broken = Broken
  Missing = Missing
  None = None
  CoarseTime = FALSE
  MaxTime = 2
INVARIANTS
  Reloaded
PROPERTY ExpiredLeave
