SPECIFICATION Spec
CONSTANTS
  r1 = r1
  r2 = r2
  Record = {r1, r2}
  Stages = 2
  TaskId = {1, 2, 3, 4}
  Worker = {w1, w2}
  NoWorker = NoWorker
  MaxVersion = 2
  Changeable = {r1}
  MaxFaults = 1
  MaxAttempts = 2
  InlineLimit = 1
  SeedStages = {1}
  SeedCap <- Whole
  ChunksOf <- AnyChunks
  RecordLockLimit = 1
  Shard <- OneShard
  MaxPerBase = 2
  MaxPerTable = 2
SYMMETRY Workers
INVARIANTS TypeOK NoLostWork HeldAsStored
PROPERTIES ImplementsCells OnlySpilledForgotten LeaseHonoured
CHECK_DEADLOCK FALSE
