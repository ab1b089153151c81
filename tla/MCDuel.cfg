CONSTANTS
  Client = {1, 2, 3}
  Nobody = 0
  MapWidth = 3
  MapHeight = 1
  AttackRange = 1
  InitHP = 3
  AttackDmg = 2
  HealAmt = 2
  MaxPotions = 1
  MaxAhead = 2
  MaxGarbled = 1
SPECIFICATION MCSpec
CHECK_DEADLOCK FALSE
INVARIANTS TypeOK WonFairly
PROPERTY LeaverEndsIt
