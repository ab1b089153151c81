CONSTANTS
  N = 3
  green = green
  cave = cave
  ruins = ruins
  Map = {green}
  Write = {}
  Admin = {a1}
  Checkpointer = Checkpointer
  Heartbeat = Heartbeat
  None = None
  InitOwner <- MCInitOwner
  InitReplica <- MCInitReplica
  MaxFaults = 2
SPECIFICATION MCLiveSpec
PROPERTIES FailureDetected AdminCommandReturns
