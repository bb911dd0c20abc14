SPECIFICATION Spec
CONSTANTS
  Files = {f1}
  Loaders = {p1}
  Certs = {v1, v2}
  Broken = Broken
  Missing = Missing
  None = None
  CoarseTime = TRUE
  MaxTime = 3
INVARIANT Reloaded
