SPECIFICATION Spec
CONSTANTS
  c1 = c1 c2 = c2
  tp1 = tp1 tp2 = tp2
  Consumers = {c1, c2}
  Partitions = {tp1, tp2}
  AutoOffsetReset = "latest"
  FirstOffset = 0
  MaxRecords = 2
  MaxGenerations = 3
  MaxEpochs = 3
SYMMETRY Symmetry
INVARIANTS TypeOK Contiguous OffsetsMatchOutput NothingMissing
PROPERTIES ImplementsExactlyOnce
CHECK_DEADLOCK FALSE
