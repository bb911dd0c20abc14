SPECIFICATION LoadSpec
CONSTANTS
  Blocks <- MCBlocks
  MaxBlocks = 5
INVARIANTS
  FileVerdict
  ChainInOrder
\* LoadCertificate returns.
CHECK_DEADLOCK FALSE
