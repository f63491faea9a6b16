SPECIFICATION FairSpec
CONSTANTS
  r1 = r1
  r2 = r2
  Record = {r1, r2}
  Stages = 1
  TaskId = {1, 2, 3, 4, 5}
  Worker = {w1, w2}
  NoWorker = NoWorker
  MaxVersion = 1
  Changeable = {r1}
  MaxFaults = 2
  MaxAttempts = 2
  InlineLimit = 1
  SeedStages <- NoStages
  SeedCap <- OneByOne
  ChunksOf <- AnyChunks
  RecordLockLimit = 2
  Shard <- OneShard
  MaxPerBase = 2
  MaxPerTable = 2
INVARIANT NoLostWork
PROPERTY EventuallyComputed
CHECK_DEADLOCK FALSE
