SPECIFICATION Spec
CONSTANTS
  c1 = c1
  c2 = c2
  Cores <- OneCore
  Ifaces = {1, 2}
  None = None
  EnvSets <- SlowEnv
  MaxStarts = 2
  MaxRestarts = 0
INVARIANT OneKismet
CHECK_DEADLOCK FALSE
