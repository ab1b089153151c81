CONSTANTS
  maxConn = 3
  MaxPlayers = 2
  MapW = 6
  MapH = 6
  MaxHealth = 2
  AttackDamage = 1
  PowerDamage = 2
  AttackRange = 2
  MaxWeapons = 1
  MaxTries = 2
  User = {u1, c1}
  Comment = {c1}
  NoUser = NoUser
  MaxAccepts = 4
  MaxHangUps = 2
  MaxMoves = 2
  MaxFaults = 1
  MaxRestarts = 1
  Budget = 5
SPECIFICATION MCSpec
CHECK_DEADLOCK FALSE
INVARIANTS TypeOK RoomInformed LedgerOfFighters KickedWasLate
PROPERTIES ImplementsRound RoundsWonOnce
