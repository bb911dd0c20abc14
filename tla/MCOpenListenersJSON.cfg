SPECIFICATION LiveSpec
CONSTANTS
  o1 = o1
  o2 = o2
  Openers = {o1, o2}
  Registrars = {r1}
  RegType <- MCRegType
  NilFuncs = {}
  Jobs <- JSONJobs
  Envs <- MCEnvs
  FDs = {"3", "4", "5", "6", "7"}
  Passed <- MCPassed
  FdNames <- MCFdNames
  BadArgs = {"bad"}
  IPv6 = {"::"}
  None = None
INVARIANT AsWritten
\* Every call returns in the end, and then nothing happens.
CHECK_DEADLOCK FALSE
