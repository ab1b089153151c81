------------------------------ MODULE MCWorld ------------------------------
(* Bounds for model checking World.                                        *)
EXTENDS World, TLC, FiniteSetsExt

\* The maps of the game, of which the one below is a small likeness.
Real == INSTANCE Maps

(* From every spawn one can walk everywhere, but for one cell of cave and  *)
(* one of ruins: it was carved for a door and has walls on all four sides. *)
Sealed == [green |-> {}, cave |-> {<<28, 4>>}, ruins |-> {<<12, 17>>}]

ASSUME MapsHaveNiches ==
  \A id \in DOMAIN Real!AvailableMaps :
    LET cfg == Real!AvailableMaps[id]
    IN  cfg.spawn \in cfg.open /\ cfg.open \ Real!WalkFrom(cfg, cfg.spawn) = Sealed[id]

(* A niche can be among the twelve best cells: with the NPCs about the map *)
(* like this the next chest may fall where nobody gets it.                 *)
ASSUME NicheIsGoodSpawn ==
  <<12, 17>> \in Real!BestSpawnCells(Real!RuinsMap,
    {<<25, 11>>, <<54, 19>>, <<1, 22>>, <<43, 2>>, <<8, 3>>}, {}, {<<34, 21>>}, FALSE)

\* A map has cells for 900 players beside its five NPCs (RoomAssumption).
ASSUME MapsHaveRoom ==
  \A id \in DOMAIN Real!AvailableMaps : Cardinality(Real!AvailableMaps[id].open) > 900 + 5

(* The boss stands where one can walk to and strike from, and where the    *)
(* maps say, before and after its first respawn.                           *)
ASSUME BossIsWhereItWas ==
  \A id \in DOMAIN Real!AvailableMaps :
    LET cfg == Real!AvailableMaps[id]
    IN  Real!BossSites[id] = cfg.boss /\ cfg.boss \in Real!WalkFrom(cfg, cfg.spawn)

CONSTANTS Length, MaxRequests, MaxLoads,
          Marks   \* whether the mark of the node ever changes
VARIABLES requests, loads   \* commands, and checkpoints taken or restored

\* A corridor, and behind a wall a niche from which there is no way.
Corridor == {<<x, 0>> : x \in 0 .. Length - 1}
Niche    == Corridor \cup {<<Length + 1, 0>>}
Entrance == <<0, 0>>

Fresh == [cell |-> Entrance, hp |-> InitHP, attack |-> InitAttack, potions |-> MaxPotions,
          purse |-> 0, alive |-> TRUE, timer |-> "off"]

\* Players who left unharmed, and some who left knocked down.
Unharmed == {Fresh}
Leavers  == {Fresh, [Fresh EXCEPT !.hp = 0, !.alive = FALSE]}

MCInit == Init /\ requests = 0 /\ loads = 0

(* What an earlier run of the server may have left, which starts over with *)
(* it: of the NPCs 0, 1 and 2 the first two had been killed, the second    *)
(* just before the checkpoint, so that identifier 2 will be given out      *)
(* again; or all NPCs are there and a player is knocked down.              *)
Rat == [cell |-> <<2, 0>>, hp |-> 1]
Saved ==
  {[players |-> [u \in User |-> None], npcs |-> 2 :> Rat, treasures |-> <<>>],
   [players |-> [u \in User |-> [Fresh EXCEPT !.hp = 0, !.alive = FALSE]],
    npcs |-> 0 :> Rat @@ 1 :> [Rat EXCEPT !.cell = <<3, 0>>], treasures |-> <<>>]}

MCRestart ==
  /\ NewWorld /\ \E cp \in Saved : checkpoint = {cp}
  /\ requests = 0 /\ loads = 0

\* Checkpoints are taken of a map without players that lacks an NPC.
Lacking == ~Spawned /\ \A u \in User : ~Here(u)

MCNext ==
  \/ /\ \/ BackgroundRound \/ BackgroundStep \/ Look \/ (Marks /\ Mark)
        \/ \E u \in User : Tick(u) \/ Session(u)
     /\ UNCHANGED <<requests, loads>>
  \/ /\ requests < MaxRequests /\ requests' = requests + 1
     /\ \E u \in User : Command(u)
     /\ UNCHANGED loads
  \/ /\ loads < MaxLoads /\ loads' = loads + 1
     /\ (Lacking /\ CaptureCheckpoint) \/ RestoreCheckpoint
     /\ UNCHANGED requests

\* Chests may fall on one another without end: not so here.
Moderate == MapThenSumSet(LAMBDA t : treasures[t].value, DOMAIN treasures) <= MaxTreasures

MCSpec == MCInit /\ [][MCNext]_<<vars, requests, loads>>
MCLiveSpec == MCRestart /\ [][MCNext]_<<vars, requests, loads>> /\ Fairness

Symmetry == Permutations(User)
=============================================================================
