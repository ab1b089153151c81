CONSTANTS
  User = {u1, u2}
  Cell <- Niche
  Spawn <- Entrance
  Length = 3
  InitHP = 2
  InitAttack = 1
  AttackRange = 1
  NPCHealth = {2}
  NPCDamage = 1
  HealAmount = 1
  MaxPotions = 1
  PotionCap = 2
  PotionPrice = 1
  WeaponPrice = 1
  WeaponBoost = 1
  MinNPCs = 1
  MaxTreasures = 2
  Value = {1}
  Reward = {1}
  Profile <- Unharmed
  None = None
  MaxRequests = 2
  MaxLoads = 0
  Marks = FALSE
SPECIFICATION MCSpec
INVARIANTS TypeOK OneUnitPerCell OneTreasurePerCell
PROPERTY TreasureKept
CONSTRAINT Moderate
SYMMETRY Symmetry
