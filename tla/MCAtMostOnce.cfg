SPECIFICATION PrinterSpec
CONSTANTS
  c1 = c1 c2 = c2
  tp1 = tp1 tp2 = tp2
  Consumers = {c1, c2}
  Partitions = {tp1, tp2}
  AutoOffsetReset = "latest"
  MaxRecords = 2
  MaxGenerations = 3
  Value <- Values
  Threshold = 500
SYMMETRY Symmetry
INVARIANTS PrinterTypeOK PrintedAtMostOnce PrintedIsCommitted
PROPERTIES CommitsAdvance
CHECK_DEADLOCK FALSE
