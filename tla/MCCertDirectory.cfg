SPECIFICATION Spec
CONSTANTS
  Handshakes = {p1, p2}
  Hellos <- MCHellos
  DefaultServerName <- MCDefault
  SlashLabels <- MCSlashLabels
  MaxPresent = 1
  Certs = {v1}
  Broken = Broken
  Missing = Missing
  None = None
  CoarseTime = FALSE
  MaxTime = 1
SYMMETRY Symmetry
INVARIANT Best
