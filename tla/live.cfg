SPECIFICATION LiveSpec
CONSTANTS
  Browsers = {b1, b2}
  FailMax = 2
  Window = 1
  Lockout = 1
  VerifyTimeout = 1
  TTL = 1
  NoToken = NoToken
  MaxTime = 3
  MaxRestarts = 1
  Viewers = {v1, v2}
  Height = 3
  Screenful = 2
  PanStep = 1
  MaxVersion = 2
  ImageEnvSets <- ImageEnvs
  Togglers = {t1, t2}
  NIfaces = 2
  MaxCaptures = 2
  HudEnvSets <- HudEnvs
INVARIANTS LiveTypeOK DrawsThePng
PROPERTIES Answered ComesToShow ActsAsShown EventuallyShows
CHECK_DEADLOCK FALSE
