CONSTANTS
  MAX_CONN = 2
  MAX_PLAYERS = 2
  MaxTries = 1
  MaxAccepts = 2
  Budget = 4
SPECIFICATION MCSafety
CHECK_DEADLOCK FALSE
INVARIANT KickedWasLate
