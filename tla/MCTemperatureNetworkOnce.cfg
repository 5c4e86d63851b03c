SPECIFICATION NetSpec
CONSTANTS
  MAX_READINGS = 3
  MaxRounds = 7
INVARIANT EachReadingSentOnce
CHECK_DEADLOCK FALSE
