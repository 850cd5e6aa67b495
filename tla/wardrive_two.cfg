SPECIFICATION HSpec
CONSTANTS
  c1 = c1
  c2 = c2
  Cores <- TwoCores
  Ifaces = {1, 2}
  None = None
  EnvSets <- SharedEnvs
  MaxStarts = 2
  MaxRestarts = 1
SYMMETRY CoreSymmetry
INVARIANTS MissedAtMostOnce CaptureOwned
CHECK_DEADLOCK FALSE
