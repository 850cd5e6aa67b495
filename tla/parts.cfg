SPECIFICATION PartsSpec
CONSTANTS
  Senders = {s1, s2}
  Root <- HomeRoot
  Dirs <- SomeDirs
  Via <- UsbLink
  Rels <- SomeRels
  FileNames = {"a", NoName}
  NoName = NoName
  Blocks = 2
  Hole = Hole
  Exporters = {e1, e2}
  Logs = {l1, l2}
  None = None
  Pieces = 2
  MaxMTime = 2
  Callers = {g1, g2}
  Timeout = 1
  Hold = 2
  MaxGpsTime = 5
  OverlapSets = {TRUE, FALSE}
  MaxRuns = 2
  MaxInstant = 3
  PerSecond = 2
  OutEnvSets = {{}, {"quick", "step"}}
  ResultsFiles = {"runtool's", "tool's"}
  FormSet <- ThreeForms
  ContentH = 138
  BoxChars = 2
  Runes <- TwoRunes
  Space = " "
  MaxText = 2
  MaxRows = 3
  ListRows = 2
  MaxLength = 4
  FullCols = 3
  BarCols = 2
  HPanStep = 2
  t1 = t1
  t2 = t2
  v1 = v1
  v2 = v2
  Threads <- TwoThreads
  Vals <- TwoVals
  NoVals = NoVals
  PostVals <- SomePost
  EnvSets <- MostEnvs
  MaxStarts = 2
  Browsers = {b1, b2}
  FailMax = 2
  Window = 1
  Lockout = 1
  VerifyTimeout = 1
  TTL = 1
  NoToken = NoToken
  MaxTime = 4
  MaxRestarts = 1
SYMMETRY ActorSymmetry
INVARIANTS PartsTypeOK SavedWhole Contained ExportWhole FixHonest RunsKept
  FieldShown EditsFaithful RowsShown HeaderTrue CapsWithinClass JobReadable ValuesGiven
  GuessesBounded AccessEarned
PROPERTIES NoFalseAlarm LockoutHolds
CHECK_DEADLOCK FALSE
