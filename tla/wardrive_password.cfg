SPECIFICATION Spec
CONSTANTS
  c1 = c1
  c2 = c2
  Cores <- TwoCores
  Ifaces = {1, 2}
  None = None
  EnvSets <- OrdinaryEnv
  MaxStarts = 2
  MaxRestarts = 0
PROPERTY StaticPassword
CHECK_DEADLOCK FALSE
