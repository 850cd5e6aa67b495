SPECIFICATION FairSpec
CONSTANTS
  c1 = c1
  c2 = c2
  Cores <- TwoCores
  Ifaces = {1, 2}
  None = None
  EnvSets <- LiveEnvs
  MaxStarts = 2
  MaxRestarts = 1
PROPERTIES EventuallyShown EventuallyIdle
CHECK_DEADLOCK FALSE
