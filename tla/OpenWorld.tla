----------------------------- MODULE OpenWorld -----------------------------
(***************************************************************************)
(* The open world of Lab 2 (Lab/Lab2/complete): one goroutine for each     *)
(* client (handleClient in cmd/server/main.go) works on the players of one *)
(* map, under World.mu (world/world.go), and a goroutine for each kill     *)
(* raises the victim later.  What has happened is broadcast outside the    *)
(* lock: the connections are collected under it, and a client that does    *)
(* not read holds up whoever sends to it.                                  *)
(*                                                                         *)
(* Kills, names and texts are left out, and the ticker that broadcasts     *)
(* snapshots, which changes nothing.                                       *)
(***************************************************************************)
EXTENDS Integers, FiniteSets

CONSTANTS
  Client,
  MapWidth, MapHeight, AttackRange,
  InitHP, AttackDmg, HealAmt, MaxPotions

ASSUME OpenWorldAssumption ==
  /\ IsFiniteSet(Client)
  /\ {MapWidth, MapHeight, InitHP, AttackDmg, HealAmt} \subseteq Nat \ {0}
  /\ AttackRange \in Nat /\ MaxPotions \in Nat

VARIABLES
  pc,        \* where the goroutine of each client is
  cast,      \* the connections it is sending an event to
  id,        \* the player of each client, or 0
  players,   \* World.players, by their identifiers
  nextID,
  respawns,  \* for each identifier, how many goroutines sleep to raise it
  left,      \* clients who have closed their connection
  stuck      \* clients who have stopped reading
clients == <<left, stuck>>
world   == <<players, nextID, respawns>>
vars    == <<pc, cast, id, world, clients>>

Cell == (0..(MapWidth - 1)) \X (0..(MapHeight - 1))

Init ==
  /\ pc = [c \in Client |-> "away"] /\ cast = [c \in Client |-> {}]
  /\ id = [c \in Client |-> 0]
  /\ players = <<>> /\ nextID = 1
  /\ respawns = [i \in 1..Cardinality(Client) |-> 0]
  /\ left = {} /\ stuck = {}

Inside(c) == id[c] \in DOMAIN players
At(c, p)  == pc' = [pc EXCEPT ![c] = p]

\* A send to d does not return.
Blocks(d) == d \in stuck \ left

-----------------------------------------------------------------------------
(* The clients.                                                            *)

\* q, or the client dies.
Hangup(c) ==
  /\ Inside(c) /\ c \notin left
  /\ left' = left \cup {c}
  /\ UNCHANGED <<pc, cast, id, world, stuck>>

StopReading(c) ==
  /\ Inside(c) /\ c \notin left \cup stuck
  /\ stuck' = stuck \cup {c}
  /\ UNCHANGED <<pc, cast, id, world, left>>

-----------------------------------------------------------------------------
(* handleClient: a connection that begins with a Join, and broadcasts.     *)

Fresh(p) == [pos |-> p, hp |-> InitHP, potions |-> MaxPotions, alive |-> TRUE]

Put(i, p) == [j \in DOMAIN players \cup {i} |-> IF j = i THEN p ELSE players[j]]

Joins(c, i) ==
  /\ pc[c] = "away"
  /\ \E p \in Cell : players' = Put(i, Fresh(p))
  /\ id' = [id EXCEPT ![c] = i]
  /\ At(c, "tell")
  /\ UNCHANGED <<cast, respawns, clients>>

\* Mutant: the lowest identifier that is free.
AddPlayerLowest(c) ==
  \E i \in 1..Cardinality(Client) :
    /\ i \notin DOMAIN players /\ \A j \in 1..(i - 1) : j \in DOMAIN players
    /\ Joins(c, i)
    /\ UNCHANGED nextID

AddPlayer(c) == Joins(c, nextID) /\ nextID' = nextID + 1

\* BroadcastAll collects the connections under the lock ...
Collect(c) ==
  /\ pc[c] \in {"tell", "tell bye"}
  /\ cast' = [cast EXCEPT ![c] = {d \in Client : Inside(d)}]
  /\ At(c, IF pc[c] = "tell" THEN "send" ELSE "send bye")
  /\ UNCHANGED <<id, world, clients>>

\* ... and sends outside of it.  After a Join the Init message follows.
Send(c) ==
  /\ pc[c] \in {"send", "send bye"}
  /\ \A d \in cast[c] : ~Blocks(d)
  /\ cast' = [cast EXCEPT ![c] = {}]
  /\ At(c, IF pc[c] = "send" THEN "loop" ELSE "remove")
  /\ UNCHANGED <<id, world, clients>>

\* Receive fails: the loop ends.
Quits(c) ==
  /\ pc[c] = "loop" /\ c \in left
  /\ At(c, "tell bye")
  /\ UNCHANGED <<cast, id, world, clients>>

\* Mutant: who is dead is not removed.
RemovePlayerAlive(c) ==
  /\ pc[c] = "remove"
  /\ players' = IF players[id[c]].alive
                THEN [i \in DOMAIN players \ {id[c]} |-> players[i]] ELSE players
  /\ At(c, "gone")
  /\ UNCHANGED <<cast, id, nextID, respawns, clients>>

RemovePlayer(c) ==
  /\ pc[c] = "remove"
  /\ players' = [i \in DOMAIN players \ {id[c]} |-> players[i]]
  /\ At(c, "gone")
  /\ UNCHANGED <<cast, id, nextID, respawns, clients>>

-----------------------------------------------------------------------------
(* Commands: each one section of World.mu.  The dead do nothing; of a      *)
(* client who has left, what he sent before is still done.                 *)

Acts(c) == pc[c] = "loop" /\ players[id[c]].alive

MovePlayer(c) ==
  /\ Acts(c)
  /\ \E d \in {<<0, -1>>, <<0, 1>>, <<-1, 0>>, <<1, 0>>} :
       LET p  == players[id[c]].pos
           to == <<p[1] + d[1], p[2] + d[2]>>
       IN players' = [players EXCEPT ![id[c]].pos = IF to \in Cell THEN to ELSE p]
  /\ At(c, "tell")
  /\ UNCHANGED <<cast, id, nextID, respawns, clients>>

Abs(n) == IF n < 0 THEN -n ELSE n
Distance(i, j) ==
  Abs(players[i].pos[1] - players[j].pos[1]) + Abs(players[i].pos[2] - players[j].pos[2])

InRange(i) ==
  {j \in DOMAIN players \ {i} : players[j].alive /\ Distance(i, j) <= AttackRange}

\* The weakest, which of them depends on the order of a map.
Targets(i) == {j \in InRange(i) : \A k \in InRange(i) : players[j].hp <= players[k].hp}

Miss(c) ==
  /\ Acts(c) /\ InRange(id[c]) = {}
  /\ At(c, "tell")
  /\ UNCHANGED <<cast, id, world, clients>>

Wound(c) ==
  /\ Acts(c)
  /\ \E j \in Targets(id[c]) :
       /\ players[j].hp > AttackDmg
       /\ players' = [players EXCEPT ![j].hp = @ - AttackDmg]
  /\ At(c, "tell")
  /\ UNCHANGED <<cast, id, nextID, respawns, clients>>

Kill(c) ==
  /\ Acts(c)
  /\ \E j \in Targets(id[c]) :
       /\ players[j].hp <= AttackDmg
       /\ players' = [players EXCEPT ![j].hp = 0, ![j].alive = FALSE]
       /\ respawns' = [respawns EXCEPT ![j] = @ + 1]
  /\ At(c, "tell")
  /\ UNCHANGED <<cast, id, nextID, clients>>

\* Mutant: MaxHP is not looked at.
HealedOver(hp) == hp + HealAmt

Healed(hp) == IF hp + HealAmt < InitHP THEN hp + HealAmt ELSE InitHP

HealPlayer(c) ==
  /\ Acts(c)
  /\ \/ /\ players[id[c]].potions > 0
        /\ players' = [players EXCEPT ![id[c]].potions = @ - 1, ![id[c]].hp = Healed(@)]
     \/ /\ players[id[c]].potions = 0
        /\ UNCHANGED players
  /\ At(c, "tell")
  /\ UNCHANGED <<cast, id, nextID, respawns, clients>>

\* Mutant: the goroutine tells everybody first.
RespawnAfterTelling(i) ==
  /\ respawns[i] > 0
  /\ \A d \in Client : Inside(d) => ~Blocks(d)
  /\ respawns' = [respawns EXCEPT ![i] = @ - 1]
  /\ IF i \in DOMAIN players
     THEN \E p \in Cell : players' = Put(i, Fresh(p))
     ELSE UNCHANGED players
  /\ UNCHANGED <<pc, cast, id, nextID, clients>>

(* The goroutine that AttackPlayer started wakes up: the player may have   *)
(* gone.  It tells everybody and the victim after that, and holds up       *)
(* nobody but itself.                                                      *)
Respawn(i) ==
  /\ respawns[i] > 0
  /\ respawns' = [respawns EXCEPT ![i] = @ - 1]
  /\ \/ i \in DOMAIN players /\ \E p \in Cell : players' = Put(i, Fresh(p))
     \/ i \notin DOMAIN players /\ UNCHANGED players
  /\ UNCHANGED <<pc, cast, id, nextID, clients>>
-----------------------------------------------------------------------------
Command(c) == MovePlayer(c) \/ Miss(c) \/ Wound(c) \/ Kill(c) \/ HealPlayer(c)
GoesOn(c)  == Collect(c) \/ Send(c) \/ Quits(c) \/ RemovePlayer(c)

Next ==
  \/ \E c \in Client :
       \/ AddPlayer(c) \/ Hangup(c) \/ StopReading(c)
       \/ Command(c) \/ GoesOn(c)
  \/ \E i \in DOMAIN respawns : Respawn(i)

(* The goroutines run, and a client who has left has sent finitely many    *)
(* commands, so that each leaves its loop; what clients do is up to them.  *)
Fairness ==
  /\ \A c \in Client : WF_vars(GoesOn(c))
  /\ SF_vars(\E c \in Client : Quits(c))
  /\ \A i \in 1..Cardinality(Client) : WF_vars(Respawn(i))

Spec == Init /\ [][Next]_vars /\ Fairness

-----------------------------------------------------------------------------
(* Properties.                                                             *)

Pc == {"away", "tell", "send", "loop", "tell bye", "send bye", "remove", "gone"}

PlayerRecord == [pos : Cell, hp : 0..InitHP, potions : 0..MaxPotions, alive : BOOLEAN]

(* The type of every variable; HP stays within its bounds and nobody walks *)
(* off the map.  A client has his player until his goroutine is done.      *)
TypeOK ==
  /\ pc \in [Client -> Pc] /\ cast \in [Client -> SUBSET Client]
  /\ nextID \in 1..(Cardinality(Client) + 1)
  /\ id \in [Client -> 0..(nextID - 1)]
  /\ DOMAIN players \subseteq 1..(nextID - 1) /\ players \in [DOMAIN players -> PlayerRecord]
  /\ respawns \in [1..Cardinality(Client) -> Nat]
  /\ left \subseteq Client /\ stuck \subseteq Client
  /\ \A c \in Client : Inside(c) <=> pc[c] \notin {"away", "gone"}

(* A dead player has one goroutine that will raise him and a living one    *)
(* has none: also when the goroutine of one who has gone is left over.     *)
OneRespawnEach ==
  \A i \in DOMAIN players : respawns[i] = IF players[i].alive THEN 0 ELSE 1

(* Whoever is killed rises, unless he goes: sending happens outside the    *)
(* lock, so that a client who does not read cannot prevent it.             *)
EveryoneRises ==
  \A i \in 1..Cardinality(Client) :
    (i \in DOMAIN players /\ ~players[i].alive) ~> (i \in DOMAIN players => players[i].alive)

(* The player of a client who has left is removed.  Only a client who is   *)
(* connected and does not read can keep the goroutine from noticing.       *)
LeaverRemoved ==
  \A c \in Client :
    (Inside(c) /\ c \in left) ~> (~Inside(c) \/ \E d \in Client : Blocks(d))
=============================================================================
