SPECIFICATION HFairSpec
CONSTANTS
  w1 = w1
  w2 = w2
  Poller = Poller
  Workers <- TwoWorkers
  None = None
  EnvSets <- ScreenEnvs
  MaxRuns = 2
INVARIANTS TypeOK PromiseKept ErrorShown CancelsSeenRun
PROPERTIES EventuallyTrue GoroutinesEnd
CHECK_DEADLOCK FALSE
