------------------------------- MODULE MCDuel -------------------------------
(* Duel has no counters, its constants are its bounds, but for the clients *)
(* that garble at the same time.  Clients are numbers here, and dial in    *)
(* that order: which is which makes no difference.                         *)
EXTENDS Duel, FiniteSets

CONSTANT MaxGarbled

MCNext ==
  \/ Serve
  \/ \E c \in Client :
       \/ Dial(c) /\ \A d \in Client : d < c => stage[d] # "away"
       \/ Cardinality({d \in Client : stage[d] = "garbles"}) < MaxGarbled /\ Garble(c)
       \/ Greet(c) \/ Type(c) \/ Quit(c) \/ ReadResult(c) \/ Reset(c)

MCSpec == Init /\ [][MCNext]_vars /\ Fairness
=============================================================================
