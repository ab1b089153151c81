CONSTANTS
  User = {u1}
  Cell <- Corridor
  Spawn <- Entrance
  Length = 4
  InitHP = 3
  InitAttack = 1
  AttackRange = 1
  NPCHealth = {1}
  NPCDamage = 1
  HealAmount = 1
  MaxPotions = 1
  PotionCap = 1
  PotionPrice = 9
  WeaponPrice = 9
  WeaponBoost = 1
  MinNPCs = 2
  MaxTreasures = 0
  Value = {1}
  Reward = {}
  Profile <- Leavers
  None = None
  MaxRequests = 1
  MaxLoads = 2
  Marks = TRUE
SPECIFICATION MCLiveSpec
PROPERTIES GetsUpUnlessReloaded NPCsComeBack
