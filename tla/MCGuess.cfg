SPECIFICATION FairSpec
CONSTANTS
  NumProcs = 3
  NumRounds = 2
  MinNum = 1
  MaxNum = 3
  IntMax = 7
INVARIANTS TypeOK LeaderAgreement ResultIsClosest LeaderboardCountsWins
PROPERTIES Termination ImplementsRounds
