---------------------------- MODULE SharedRound ----------------------------
(***************************************************************************)
(* What the Warzone servers promise of their one room: whoever enters      *)
(* waits until everybody in the room is ready and there are two at least,  *)
(* then all of them fight until one is left, who wins.  Who enters while a *)
(* round is on watches it.  Reopens says whether a room that everybody has *)
(* left after a round is open for another one.                             *)
(***************************************************************************)
EXTENDS Naturals, FiniteSets

CONSTANTS Player, Nobody, Reopens

VARIABLES
  phase,     \* "lobby", "running" or "over"
  room,      \* who is in the room
  ready,     \* who has said so since the last round
  fighters,  \* who is still alive
  winner
vars == <<phase, room, ready, fighters, winner>>

Init ==
  /\ phase = "lobby" /\ room = {} /\ ready = {} /\ fighters = {}
  /\ winner = Nobody

Enter(p) ==
  /\ p \notin room
  /\ room' = room \cup {p}
  /\ UNCHANGED <<phase, ready, fighters, winner>>

AllReady(r) == r = room /\ Cardinality(room) >= 2

GetReady(p) ==
  /\ phase = "lobby" /\ p \in room
  /\ ~AllReady(ready \cup {p})
  /\ ready' = ready \cup {p}
  /\ UNCHANGED <<phase, room, fighters, winner>>

Start(p) ==
  /\ phase = "lobby" /\ p \in room
  /\ AllReady(ready \cup {p})
  /\ phase' = "running" /\ fighters' = room /\ ready' = {} /\ winner' = Nobody
  /\ UNCHANGED room

\* p fights no more: with one fighter left the round is over.
Out(p) ==
  /\ fighters' = fighters \ {p}
  /\ \/ /\ phase = "running" /\ Cardinality(fighters') = 1
        /\ phase' = "over" /\ winner' \in fighters'
     \/ /\ phase = "running" /\ Cardinality(fighters') # 1
        /\ UNCHANGED <<phase, winner>>

Fall(p) ==
  /\ phase = "running" /\ p \in fighters
  /\ Out(p)
  /\ UNCHANGED <<room, ready>>

Leave(p) ==
  /\ p \in room
  /\ room' = room \ {p} /\ ready' = ready \ {p}
  /\ \/ phase = "running" /\ Out(p)
     \/ /\ phase # "running"
        /\ fighters' = fighters \ {p}
        /\ phase' = IF room' = {} /\ Reopens THEN "lobby" ELSE phase
        /\ UNCHANGED winner

Next == \E p \in Player : Enter(p) \/ GetReady(p) \/ Start(p) \/ Fall(p) \/ Leave(p)

\* The server is started again: whoever was there has to come back.
Reboot ==
  /\ phase' = "lobby" /\ room' = {} /\ ready' = {} /\ fighters' = {}
  /\ winner' = Nobody

Spec == Init /\ [][Next]_vars

SpecWithRestarts == Init /\ [][Next \/ Reboot]_vars
=============================================================================
