SPECIFICATION Spec
CONSTANTS
  NumProcs = 3
  Local = 2
  NumIterations = 7
  CountEvery = 3
  MaxIn = 1
  NumLetters = 7
  NumElements = 2
  ElementValues = {1, 2, 4}
  FilterBy = 2
  TotMsgs = 6
  AntIterations = 3
INVARIANTS TypeOK RoadSafe ResultsExact RanksInStep
PROPERTIES SumIsConsistent Termination
