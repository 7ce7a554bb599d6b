SPECIFICATION FairGenerationSpec
CONSTANTS
  Indices = {1, 2, 3}
  MaxLen = 3
  Costs = {1}
  Budget = 4
  t1 = t1
  t2 = t2
  code = code
  prose = prose
  All = All
  Trainers = {t1, t2}
  Domains = {code, prose}
  DomainOf <- TrainsShared
  MinSamples = 1
  MaxSamples = 3
  ExportLimit = 2
  MaxRecords = 3
  TrainerOptions <- AllPassed
  MaxTurns = 2
  MaxCalls = 2
  MaxAgents = 3
  DefaultAgents = 2
  ChunkSize = 2
  MaxWords = 3
INVARIANTS
  GenerationTypeOK
  FinishedMeansDone
  WorkDoneOnce
  MarksAreEarned
  AnswersHold
PROPERTIES
  RunsEnd
  BacklogShrinks
CHECK_DEADLOCK FALSE
