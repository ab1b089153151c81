---------------------------- MODULE MCOpenWorld ----------------------------
(* Bounds for model checking OpenWorld.  Clients are numbers here, and     *)
(* join in that order: which is which makes no difference.                 *)
EXTENDS OpenWorld

CONSTANTS
  MaxStuck,     \* clients that stop reading
  MaxPresent    \* players at the same time

MCNext ==
  \/ \E c \in Client :
       \/ /\ Cardinality(DOMAIN players) < MaxPresent
          /\ AddPlayer(c) /\ \A d \in Client : d < c => pc[d] # "away"
       \/ Cardinality(stuck) < MaxStuck /\ StopReading(c)
       \/ Hangup(c) \/ Command(c) \/ GoesOn(c)
  \/ \E i \in DOMAIN respawns : Respawn(i)

MCSpec == Init /\ [][MCNext]_vars /\ Fairness
=============================================================================
