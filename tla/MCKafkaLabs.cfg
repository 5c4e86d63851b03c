SPECIFICATION McSpec
CONSTANTS
  c1 = c1 c2 = c2
  tp1 = tp1 tp2 = tp2
  Consumers = {c1, c2}
  Partitions = {tp1, tp2}
  AutoOffsetReset = "earliest"
  MaxRecords = 2
  MaxGenerations = 3
  MaxEpochs = 3
  commitEvery = 2
SYMMETRY Symmetry
INVARIANTS CountsExact ForwardedAtMostOnce OffsetsCoverOutput LossesExplained
CHECK_DEADLOCK FALSE
