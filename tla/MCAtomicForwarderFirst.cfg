SPECIFICATION Spec
CONSTANTS
  c1 = c1 c2 = c2
  tp1 = tp1 tp2 = tp2
  Consumers = {c1, c2}
  Partitions = {tp1, tp2}
  AutoOffsetReset = "latest"
  FirstOffset <- NoFirstOffset
  MaxRecords = 2
  MaxGenerations = 2
  MaxEpochs = 3
SYMMETRY Symmetry
INVARIANTS NothingMissing
CHECK_DEADLOCK FALSE
