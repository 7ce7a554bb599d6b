SPECIFICATION FilesSpec
CONSTANTS
  i1 = i1
  i2 = i2
  w1 = w1
  w2 = w2
  w3 = w3
  None = None
  Ids <- OneId
  Words <- OneWord
  Escaped <- NoWord
  Found <- FoundOfOne
  Data <- OneDatum
  Unserialisable = Unserialisable
  TornWrites <- TornWal
  MaxOps = 2
  MaxCrashes = 2
  Absent = Absent
  Deltas <- OneEitherWay
  Limits <- OneTurn
  MaxGoals = 0
  MaxUsage = 0
  MaxSeconds = 0
  MaxStops = 0
  f1 = f1
  f2 = f2
  s1 = s1
  s2 = s2
  MaxEntries = 0
  MaxSlots = 0
  MaxHalts = 0
  SnapIds <- OneSnap
  SourceFiles <- OneFile
  Nowhere = Nowhere
  MaxMishaps = 0
  Paths <- OnePath
  Texts <- OnlyEmpty
  LfOf <- NoLines
  Binaries <- NoBinary
  NoFileThere = NoFileThere
  MaxRecords = 0
  MaxWrites = 0
  Holders = {"h1", "h2"}
  MaxMemories = 1
  MaxNow = 1
  MaxSaves = 3
  Processes = {"p1", "p2"}
  Versions = {1}
  Statements = 2
  MaxDeaths = 2
  StoreThreads = {"t1", "t2"}
  MaxCommits = 3
  Sessions = {"a", "b", "c"}
  MaxLines = 4
  MaxForks = 2
  MaxTurn = 1
  MaxSecond = 1
  MaxUntidy = 1
  Callers = {"c1", "c2"}
  MaxText = 2
  MaxCalls = 2
  MaxTick = 1
  Contexts = {0}
  Fronts <- Nothing
  Gaps <- Nothing
  Backs <- Nothing
INVARIANT ReadsAreDurable
CHECK_DEADLOCK FALSE
