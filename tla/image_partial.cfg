SPECIFICATION ImageSpec
CONSTANTS
  Viewers = {v1, v2}
  Height = 3
  Screenful = 2
  PanStep = 1
  MaxVersion = 1
  ImageEnvSets = {{"quit"}, {"full"}}
INVARIANT CacheIsWhole
CHECK_DEADLOCK FALSE
