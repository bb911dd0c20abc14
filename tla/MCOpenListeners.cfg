SPECIFICATION LiveSpec
CONSTANTS
  o1 = o1
  o2 = o2
  Openers = {o1, o2}
  Registrars = {r1, r2}
  RegType <- MCRegType
  NilFuncs = {}
  Jobs <- MCJobs
  Envs <- MCEnvs
  FDs = {"3", "4", "5", "6", "7"}
  Passed <- MCPassed
  FdNames <- MCFdNames
  BadArgs = {"bad"}
  IPv6 = {"::"}
  None = None
INVARIANTS
  AllOrNothing
  Complete
  OneCache
  NoMapRace
PROPERTY Returns
\* Every call returns in the end, and then nothing happens.
CHECK_DEADLOCK FALSE
