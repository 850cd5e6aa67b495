SPECIFICATION HFairSpec
CONSTANTS
  shiftL = shiftL
  esc = esc
  keyA = keyA
  Shifts <- OneShift
  Commits <- OneCommit
  Backs <- OneCommit
  Others <- OneLetter
  Dead <- OneDead
  sym = sym
  MaxDown = 2
  None = None
  KernelMax = 1
  RawMax = 1
  OutMax = 1
  EnvSets <- KeyEnvs
INVARIANTS TypeOK PressesDelivered
PROPERTIES RepeatStops Ends
CHECK_DEADLOCK FALSE
