------------------------------ MODULE MCArena ------------------------------
(* Bounds for model checking Arena.                                        *)
EXTENDS Arena

CONSTANTS
  MaxAccepts,   \* connections accepted
  Budget        \* connections that are accepted, end, get stuck (which counts twice) or get old

Aged  == {Sock(c) : c \in {d \in Conns : g_conns[d].active /\ g_conns[d].hb # "fresh"}}
Spent ==
  accepted + Cardinality(dead \ kicked) + 2 * Cardinality(stuck)
    + Cardinality((was_late \cup Aged) \ stuck)

\* Whoever is stuck may be late for nothing, so that the watcher can act.
MCAges(c) == Ages(c) /\ (Sock(c) \in stuck \cup was_late \cup Aged \/ Spent < Budget)

MCNext ==
  \/ Send \/ Unlock \/ SpawnWeapon \/ WatchKick
  \/ \E c \in Conns : Handler(c) \/ MCAges(c) \/ WatchLook(c)
  \/ /\ Spent < Budget
     /\ \/ accepted < MaxAccepts /\ Accept
        \/ \E c \in Conns : HangUp(c) \/ StopReading(c)

MCFairness ==
  /\ WF_vars(Send) /\ WF_vars(Unlock) /\ WF_vars(WatchKick)
  /\ \A c \in Conns : /\ WF_vars(MCAges(c))
                      /\ <>[]Overdue(c) => SF_vars(WatchLook(c))

MCSafety == Init /\ [][MCNext]_vars
MCSpec   == MCSafety /\ MCFairness
=============================================================================
