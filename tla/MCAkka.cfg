SPECIFICATION McSpec
CONSTANTS
  t0 = t0 t1 = t1 t2 = t2
  Faulty = tFaulty
  Sensors <- ThreeSensors
  NoProcessors = 2
  Rounds <- FullRounds
  Temps = {2}
  FaultTemp <- Frost
  ShortSleeps = {1, 2, 3, 6}
  numThreads = 3
  numMessages = 4
INVARIANTS FairlyAssigned ReadingsAccounted StashesKept
PROPERTIES Sticky AllHandledThere
CHECK_DEADLOCK FALSE
