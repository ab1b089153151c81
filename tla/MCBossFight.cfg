CONSTANTS
  User = {u1, u2, u3}
  Place = {p1, p2}
  MaxHP = 4
  Damage = {1, 3}
  Nobody = Nobody
  MaxAttacks = 4
  MaxMoves = 4
SPECIFICATION MCLiveSpec
CHECK_DEADLOCK FALSE
INVARIANTS TypeOK DamageAccounted OneRespawn PaidAtMostOnce
PROPERTY ImplementsShared
