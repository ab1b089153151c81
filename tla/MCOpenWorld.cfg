CONSTANTS
  Client = {1, 2, 3}
  MapWidth = 2
  MapHeight = 1
  AttackRange = 0
  InitHP = 2
  AttackDmg = 1
  HealAmt = 1
  MaxPotions = 1
  MaxStuck = 1
  MaxPresent = 2
SPECIFICATION MCSpec
CHECK_DEADLOCK FALSE
INVARIANTS TypeOK OneRespawnEach
PROPERTIES EveryoneRises LeaverRemoved
