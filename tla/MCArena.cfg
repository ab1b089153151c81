CONSTANTS
  MAX_CONN = 3
  MAX_PLAYERS = 2
  MaxTries = 1
  MaxAccepts = 3
  Budget = 4
SPECIFICATION MCSpec
CHECK_DEADLOCK FALSE
INVARIANTS TypeOK SentToTheSeated
PROPERTIES ImplementsRound SectionEnds
