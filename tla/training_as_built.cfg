SPECIFICATION FairGenerationSpec
CONSTANTS
  Indices = {1}
  MaxLen = 1
  Costs = {1}
  Budget = 2
  t1 = t1
  t2 = t2
  code = code
  prose = prose
  All = All
  Trainers = {t1}
  Domains = {code, prose}
  DomainOf <- TrainsAll
  MinSamples = 1
  MaxSamples = 1
  ExportLimit = 5
  MaxRecords = 2
  TrainerOptions <- AsBuilt
  MaxTurns = 1
  MaxCalls = 1
  MaxAgents = 2
  DefaultAgents = 2
  ChunkSize = 2
  MaxWords = 1
PROPERTY BacklogShrinks
CHECK_DEADLOCK FALSE
