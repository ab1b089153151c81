CONSTANTS
  N = 3
  green = green
  cave = cave
  ruins = ruins
  Map = {green}
  Write = {w1}
  Admin = {a1, a2}
  Checkpointer = Checkpointer
  Heartbeat = Heartbeat
  None = None
  InitOwner <- MCInitOwner
  InitReplica <- MCInitReplica
  MaxFaults = 2
SPECIFICATION MCSpec
SYMMETRY Symmetry
INVARIANTS TypeOK OwnerHosts SingleWriter ReplicaElsewhere DurableBeforeShared NothingLeftBehind
PROPERTY ImplementsMapService
