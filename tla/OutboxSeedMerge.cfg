SPECIFICATION Spec
CONSTANTS
  r1 = r1
  r2 = r2
  Record = {r1, r2}
  Stages = 1
  TaskId = {1, 2}
  Worker = {w1}
  NoWorker = NoWorker
  MaxVersion = 2
  Changeable = {r1}
  MaxFaults = 0
  MaxAttempts = 2
  InlineLimit = 1
  SeedStages <- AllStages
  SeedCap <- Whole
  ChunksOf <- AnyChunks
  RecordLockLimit = 2
  Shard <- OneShard
  MaxPerBase = 2
  MaxPerTable = 2
PROPERTY SeedsKept
CHECK_DEADLOCK FALSE
