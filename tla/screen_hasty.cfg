SPECIFICATION HSpec
CONSTANTS
  w1 = w1
  w2 = w2
  Poller = Poller
  Workers <- TwoWorkers
  None = None
  EnvSets <- HastyEnv
  MaxRuns = 2
INVARIANT ResultsWillShow
CHECK_DEADLOCK FALSE
