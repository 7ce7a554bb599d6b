SPECIFICATION FilesSpec
CONSTANTS
  i1 = i1
  i2 = i2
  w1 = w1
  w2 = w2
  w3 = w3
  None = None
  Ids <- TwoIds
  Words <- Bar
  Escaped <- Baer
  Found <- FoundOf
  Data <- SomeData
  Unserialisable = Unserialisable
  TornWrites <- Atomic
  MaxOps = 4
  MaxCrashes = 2
  Absent = Absent
  Deltas <- OneEitherWay
  Limits <- OneTurn
  MaxGoals = 2
  MaxUsage = 1
  MaxSeconds = 3
  MaxStops = 2
  f1 = f1
  f2 = f2
  s1 = s1
  s2 = s2
  MaxEntries = 3
  MaxSlots = 3
  MaxHalts = 1
  SnapIds <- TwoSnaps
  SourceFiles <- TwoFiles
  Nowhere = Nowhere
  MaxMishaps = 2
  Paths <- TwoPaths
  Texts <- NoOrOneLine
  LfOf <- WithLf
  Binaries <- OneBinary
  NoFileThere = NoFileThere
  MaxRecords = 3
  MaxWrites = 2
  Holders = {"h1", "h2"}
  MaxMemories = 1
  MaxNow = 1
  MaxSaves = 3
  Processes = {"p1", "p2"}
  Versions = {1}
  Statements = 2
  MaxDeaths = 2
  StoreThreads = {"t1", "t2"}
  MaxCommits = 3
  Sessions = {"a", "b", "c"}
  MaxLines = 4
  MaxForks = 2
  MaxTurn = 1
  MaxSecond = 1
  MaxUntidy = 1
  Callers = {"c1", "c2"}
  MaxText = 2
  MaxCalls = 2
  MaxTick = 1
  Contexts = {0, 1, 3}
  Fronts <- ShortAndLong
  Gaps <- FromOneToSeven
  Backs <- ShortAndLong
SYMMETRY Symmetry
INVARIANTS
  FilesTypeOK
  AnswersAreDurable
  GoalOutlivesStops
  HistoriesHold
  RecordsHold
  ContentsHold
PROPERTIES
  ImplementsMap
CHECK_DEADLOCK FALSE
