SPECIFICATION Spec
CONSTANTS
  t1 = t1
  t2 = t2
  v1 = v1
  v2 = v2
  Threads <- TwoThreads
  Vals <- TwoVals
  NoVals = NoVals
  PostVals <- SomePost
  EnvSets <- Concurrent
  MaxStarts = 2
INVARIANT NoEmptyRun
CHECK_DEADLOCK FALSE
