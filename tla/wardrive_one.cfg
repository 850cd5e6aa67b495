SPECIFICATION Spec
CONSTANTS
  c1 = c1
  c2 = c2
  Cores <- OneCore
  Ifaces = {1, 2}
  None = None
  EnvSets <- AllEnvs
  MaxStarts = 3
  MaxRestarts = 2
INVARIANTS TypeOK PasswordCurrent
PROPERTY ImplementsSlot
CHECK_DEADLOCK FALSE
