------------------------------- MODULE World -------------------------------
(***************************************************************************)
(* One map of the Lab3 cluster (world/world.go): its players, NPCs and     *)
(* treasures, and the checkpoint the map is restored from.  The profile a  *)
(* player logs in with is an input: Sessions models what it is.            *)
(*                                                                         *)
(* Every operation works under w.mu from beginning to end, so it is one    *)
(* action; BackgroundStep, which loops over spawns and NPCs, is several,   *)
(* with `phase' saying that it holds the lock.  A knocked-down player has  *)
(* a deadline that passes while nobody looks: each operation first raises  *)
(* the players it looks at whose time is over (`Woken').                   *)
(*                                                                         *)
(* Left out: names, counters of kills and deaths, the version number.  The *)
(* maps are small enough that bestSpawnCellLocked, which draws from the    *)
(* twelve best cells, may draw any free cell.                              *)
(***************************************************************************)
EXTENDS Integers, FiniteSets

CONSTANTS
  User,
  Cell,          \* the open cells, pairs <<x, y>>
  Spawn,         \* cfg.SpawnX, cfg.SpawnY
  InitHP,        \* also every player's MaxHP
  InitAttack,
  AttackRange,
  NPCHealth,     \* 70 + rng.Intn(30)
  NPCDamage,
  HealAmount,
  MaxPotions,    \* of a new or risen player
  PotionCap,     \* of the shop
  PotionPrice, WeaponPrice, WeaponBoost,
  MinNPCs,
  MaxTreasures,
  Value,         \* what a chest or an NPC's loot is worth
  Reward,        \* what the boss gives
  Profile,       \* the records of the user file that players log in with
  None

ASSUME UnitAssumption ==
  /\ Cell \subseteq Int \X Int /\ Spawn \in Cell
  /\ {InitHP, InitAttack, NPCDamage, HealAmount, MaxPotions} \subseteq Nat \ {0}
  /\ {AttackRange, PotionCap, PotionPrice, WeaponPrice, WeaponBoost} \subseteq Nat
  /\ NPCHealth \subseteq Nat \ {0} /\ Value \subseteq Nat \ {0} /\ Reward \subseteq Nat
  /\ MinNPCs \in Nat /\ MaxTreasures \in Nat

(* 5 * 18 < 120: nobody is raised and knocked down again by the NPCs within *)
(* one BackgroundStep.                                                     *)
ASSUME HealthAssumption == MinNPCs * NPCDamage < InitHP

\* The maps have over a thousand cells: there is always a free one.
ASSUME RoomAssumption ==
  /\ IsFiniteSet(User) /\ IsFiniteSet(Cell)
  /\ Cardinality(Cell) > Cardinality(User) + MinNPCs

VARIABLES
  players,       \* user -> his Player, or None
  npcs,          \* identifier -> [cell, hp]
  treasures,     \* identifier -> [cell, value]
  nextNPC, nextTreasure,
  phase,         \* "free", or where the holder of w.mu is
  todo,          \* the NPCs BackgroundStep has still to move
  healthy,       \* the node that hosts the map is marked healthy
  listed,        \* backgroundLoop has the node on its list of this round
  checkpoint,    \* the last checkpoint of the map: one, or none yet
  reloaded       \* history: who is down since he was loaded, not since a blow

ids   == <<nextNPC, nextTreasure>>
step  == <<phase, todo, healthy, listed>>
vars  == <<players, npcs, treasures, ids, step, checkpoint, reloaded>>

PlayerRecord ==
  [cell : Cell, hp : 0 .. InitHP, attack : Nat, potions : Nat, purse : Nat,
   alive : BOOLEAN, timer : {"off", "running", "over"}]   \* timer: RespawnAt
NPCRecord      == [cell : Cell, hp : Nat \ {0}]
TreasureRecord == [cell : Cell, value : Nat \ {0}]

ASSUME NoneAssumption == None \notin User /\ None \notin PlayerRecord

\* What a profile and a checkpoint keep of a player: all but RespawnAt.
Kept(p) == [p EXCEPT !.timer = "off"]

\* What a profile can be.
ASSUME ProfileAssumption == \A p \in Profile : p \in PlayerRecord /\ p = Kept(p)

\* A new map; bootstrap goes on from here.
NewWorld ==
  /\ players = [u \in User |-> None]
  /\ npcs = [i \in {} |-> None] /\ treasures = [t \in {} |-> None]
  /\ nextNPC = 0 /\ nextTreasure = 0
  /\ phase = "boot" /\ todo = {} /\ healthy = TRUE /\ listed = FALSE
  /\ reloaded = {}

\* The first run of the server: there is no checkpoint yet.
Init == NewWorld /\ checkpoint = {}

-----------------------------------------------------------------------------
(* Cells.                                                                  *)

Abs(n) == IF n < 0 THEN -n ELSE n

distance(a, b) == Abs(a[1] - b[1]) + Abs(a[2] - b[2])

Here(u)  == players[u] # None
Alive(ps, u) == ps[u] # None /\ ps[u].alive
Down(u)  == Here(u) /\ ~players[u].alive

\* Where living units other than player `me' stand among players ps and NPCs.
Taken(ps, me) == {ps[v].cell : v \in {w \in User \ {me} : Alive(ps, w)}}
                   \cup {npcs[i].cell : i \in DOMAIN npcs}

\* walkableForLocked
Walkable(ps, me) == Cell \ Taken(ps, me)

\* findSafePositionLocked: the cell wished for, else some walkable one.
SafePosition(ps, c) ==
  IF c \in Walkable(ps, None) THEN {c} ELSE Walkable(ps, None)

Put(f, k, v) == [j \in DOMAIN f \cup {k} |-> IF j = k THEN v ELSE f[j]]
Drop(f, k)   == [j \in DOMAIN f \ {k} |-> f[j]]

-----------------------------------------------------------------------------
(* Down and up again.                                                      *)

\* Mutant: no deadline is set.
HitNoDeadline(p, n) ==
  IF p.hp > n THEN [p EXCEPT !.hp = p.hp - n]
  ELSE [p EXCEPT !.hp = 0, !.alive = FALSE]

\* knockDownPlayerLocked, and the blow before it.
Hit(p, n) ==
  IF p.hp > n THEN [p EXCEPT !.hp = p.hp - n]
  ELSE [p EXCEPT !.hp = 0, !.alive = FALSE, !.timer = "running"]

Larger(a, b)  == IF a > b THEN a ELSE b
Smaller(a, b) == IF a < b THEN a ELSE b

\* Mutant: he gets up where he fell.
RisenInPlace(p, c) ==
  [p EXCEPT !.hp = InitHP, !.potions = Larger(p.potions, MaxPotions),
            !.alive = TRUE, !.timer = "off"]

Risen(p, c) ==
  [p EXCEPT !.cell = c, !.hp = InitHP, !.potions = Larger(p.potions, MaxPotions),
            !.alive = TRUE, !.timer = "off"]

Due(u) == Down(u) /\ players[u].timer = "over"

(* refreshPlayerStateLocked of the users U, one after the other in any     *)
(* order: those who are due rise at the spawn if it is free, else anywhere.*)
Woken(U) ==
  LET D    == {u \in U : Due(u)}
      free == Walkable(players, None)
      places == {at \in [D -> free] :
                   /\ \A u, v \in D : u # v => at[u] # at[v]
                   /\ D # {} /\ Spawn \in free => \E u \in D : at[u] = Spawn}
  IN  {[u \in User |-> IF u \in D THEN Risen(players[u], at[u]) ELSE players[u]] :
         at \in places}

\* The deadline of a knocked-down player passes.
Tick(u) ==
  /\ Down(u) /\ players[u].timer = "running"
  /\ players' = [players EXCEPT ![u].timer = "over"]
  /\ UNCHANGED <<npcs, treasures, ids, step, checkpoint, reloaded>>

-----------------------------------------------------------------------------
(* Treasures.                                                              *)

TreasureAt(c) == {t \in DOMAIN treasures : treasures[t].cell = c}

\* Mutant: a treasure that lies there already is not found.
DropTreasureApart(c, v) ==
  /\ treasures' = Put(treasures, nextTreasure, [cell |-> c, value |-> v])
  /\ nextTreasure' = nextTreasure + 1

\* Mutant: the identifier of the next treasure is not advanced.
DropTreasureSameId(c, v) ==
  /\ \/ \E t \in TreasureAt(c) : treasures' = [treasures EXCEPT ![t].value = @ + v]
     \/ /\ TreasureAt(c) = {}
        /\ treasures' = Put(treasures, nextTreasure, [cell |-> c, value |-> v])
  /\ UNCHANGED nextTreasure

\* dropTreasureLocked: on a treasure that lies there already, or a new one.
DropTreasure(c, v) ==
  \/ \E t \in TreasureAt(c) :
       /\ treasures' = [treasures EXCEPT ![t].value = @ + v]
       /\ UNCHANGED nextTreasure
  \/ /\ TreasureAt(c) = {}
     /\ treasures' = Put(treasures, nextTreasure, [cell |-> c, value |-> v])
     /\ nextTreasure' = nextTreasure + 1

-----------------------------------------------------------------------------
(* The commands of a player.                                               *)

\* The commands of u, from what they find once he has been refreshed.
Free(u) == phase = "free" /\ Here(u)

(* ProfileOf (U is one user), Snapshot (U is all), and every command that  *)
(* is refused: they refresh, and nothing else.                             *)
Refresh(U) ==
  /\ phase = "free"
  /\ players' \in Woken(U)
  /\ UNCHANGED <<npcs, treasures, ids, step, checkpoint, reloaded>>

\* To a neighbouring cell, or on the spot if the direction is none of four.
MovePlayer(u) ==
  /\ Free(u)
  /\ \E ps \in Woken({u}) : \E c \in Walkable(ps, u) :
       /\ ps[u].alive /\ distance(ps[u].cell, c) <= 1
       /\ \/ /\ TreasureAt(c) = {}
             /\ players' = [ps EXCEPT ![u].cell = c]
             /\ UNCHANGED treasures
          \/ \E t \in TreasureAt(c) :
               /\ players' = [ps EXCEPT ![u].cell = c,
                                        ![u].purse = @ + treasures[t].value]
               /\ treasures' = Drop(treasures, t)
  /\ UNCHANGED <<npcs, ids, step, checkpoint, reloaded>>

\* Mutant: a drink may heal beyond MaxHP.
HealPlayerUncapped(u) ==
  /\ Free(u)
  /\ \E ps \in Woken({u}) :
       /\ ps[u].alive /\ ps[u].potions > 0
       /\ players' = [ps EXCEPT ![u].potions = @ - 1, ![u].hp = @ + HealAmount]
  /\ UNCHANGED <<npcs, treasures, ids, step, checkpoint, reloaded>>

HealPlayer(u) ==
  /\ Free(u)
  /\ \E ps \in Woken({u}) :
       /\ ps[u].alive /\ ps[u].potions > 0
       /\ players' = [ps EXCEPT ![u].potions = @ - 1,
                                ![u].hp = Smaller(@ + HealAmount, InitHP)]
  /\ UNCHANGED <<npcs, treasures, ids, step, checkpoint, reloaded>>

InReach(ps, u) == {i \in DOMAIN npcs : distance(ps[u].cell, npcs[i].cell) <= AttackRange}

\* Attack strikes the weakest NPC within reach; a killed one leaves its loot.
AttackNPC(u) ==
  /\ Free(u)
  /\ \E ps \in Woken({u}) : \E i \in InReach(ps, u) :
       /\ ps[u].alive
       /\ \A j \in InReach(ps, u) : npcs[i].hp <= npcs[j].hp
       /\ players' = ps
       /\ \/ /\ npcs[i].hp > ps[u].attack
             /\ npcs' = [npcs EXCEPT ![i].hp = @ - ps[u].attack]
             /\ UNCHANGED <<treasures, nextTreasure>>
          \/ /\ npcs[i].hp <= ps[u].attack
             /\ npcs' = Drop(npcs, i)
             /\ \E v \in Value : DropTreasure(npcs[i].cell, v)
  /\ UNCHANGED <<nextNPC, step, checkpoint, reloaded>>

\* The living players other than `me' within n of c.
Targets(ps, me, c, n) ==
  {v \in User \ {me} : Alive(ps, v) /\ distance(c, ps[v].cell) <= n}

\* The weakest of them.
Weakest(ps, T) == {v \in T : \A w \in T : ps[v].hp <= ps[w].hp}

\* With no NPC within reach, Attack strikes the weakest living player.
AttackPlayer(u) ==
  /\ Free(u)
  /\ \E ps \in Woken({u}) :
       /\ ps[u].alive /\ InReach(ps, u) = {}
       /\ \E v \in Weakest(ps, Targets(ps, u, ps[u].cell, AttackRange)) :
            players' = [ps EXCEPT ![v] = Hit(ps[v], ps[u].attack)]
  /\ UNCHANGED <<npcs, treasures, ids, step, checkpoint, reloaded>>

BuyItem(u) ==
  /\ Free(u)
  /\ \E ps \in Woken({u}) :
       /\ ps[u].alive
       /\ \/ /\ ps[u].purse >= PotionPrice /\ ps[u].potions < PotionCap
             /\ players' = [ps EXCEPT ![u].purse = @ - PotionPrice, ![u].potions = @ + 1]
          \/ /\ ps[u].purse >= WeaponPrice
             /\ players' = [ps EXCEPT ![u].purse = @ - WeaponPrice,
                                      ![u].attack = @ + WeaponBoost]
  /\ UNCHANGED <<npcs, treasures, ids, step, checkpoint, reloaded>>

\* RewardPlayer, after the boss: no refresh, and whether he is down or not.
RewardPlayer(u) ==
  /\ Free(u)
  /\ \E n \in Reward : players' = [players EXCEPT ![u].purse = @ + n]
  /\ UNCHANGED <<npcs, treasures, ids, step, checkpoint, reloaded>>

-----------------------------------------------------------------------------
(* Players come and go; the map is saved and restored.                     *)

valueOr(n, fallback) == IF n = 0 THEN fallback ELSE n

(* AddOrRestorePlayer, at the cell of his profile, or at the spawn if he   *)
(* was last on another map.  A player who is there already is replaced.    *)
AddOrRestorePlayer(u, p) ==
  /\ phase = "free"
  /\ \E c \in SafePosition(players, p.cell) \cup SafePosition(players, Spawn) :
       players' = [players EXCEPT ![u] =
         [p EXCEPT !.cell = c, !.hp = valueOr(@, InitHP), !.potions = valueOr(@, MaxPotions)]]
  /\ reloaded' = IF p.alive THEN reloaded \ {u} ELSE reloaded \cup {u}
  /\ UNCHANGED <<npcs, treasures, ids, step, checkpoint>>

\* RemovePlayer; the profile it returns is for the user file.
RemovePlayer(u) ==
  /\ Free(u)
  /\ players' = [players EXCEPT ![u] = None]
  /\ reloaded' = reloaded \ {u}
  /\ UNCHANGED <<npcs, treasures, ids, step, checkpoint>>

CaptureCheckpoint ==
  /\ phase = "free"
  /\ players' \in Woken(User)
  /\ checkpoint' = {[players |-> [u \in User |-> IF Here(u) THEN Kept(players'[u]) ELSE None],
                     npcs |-> npcs, treasures |-> treasures]}
  /\ UNCHANGED <<npcs, treasures, ids, step, reloaded>>

(* RestoreCheckpoint, by a failover, recoverNode or a restart of the       *)
(* server.  The identifiers go on from the number of things, not from the  *)
(* largest identifier.  On another node the map may come on to the list of *)
(* the round or off it.                                                    *)
RestoreCheckpoint ==
  /\ phase = "free"
  /\ \E saved \in checkpoint :
       /\ players' = [u \in User |->
            IF saved.players[u] = None THEN None
            ELSE [saved.players[u] EXCEPT !.potions = valueOr(@, MaxPotions)]]
       /\ npcs' = saved.npcs /\ treasures' = saved.treasures
  /\ nextNPC' = Cardinality(DOMAIN npcs') + 1
  /\ nextTreasure' = Cardinality(DOMAIN treasures') + 1
  /\ reloaded' = {u \in User : players'[u] # None /\ ~players'[u].alive}
  /\ listed' \in BOOLEAN
  /\ UNCHANGED <<phase, todo, healthy, checkpoint>>

-----------------------------------------------------------------------------
(* bootstrap and BackgroundStep.                                           *)

\* Mutant: off by one, an NPC too few is enough.
SpawnedButOne == Cardinality(DOMAIN npcs) >= MinNPCs - 1

Spawned == Cardinality(DOMAIN npcs) >= MinNPCs

\* spawnNPCLocked, where fewer than MinNPCs are left.
SpawnNPC ==
  /\ phase \in {"boot", "spawn"} /\ ~Spawned
  /\ \E c \in Walkable(players, None), h \in NPCHealth :
       npcs' = Put(npcs, nextNPC, [cell |-> c, hp |-> h])
  /\ nextNPC' = nextNPC + 1
  /\ UNCHANGED <<players, treasures, nextTreasure, step, checkpoint, reloaded>>

\* spawnTreasureLocked
SpawnTreasure == \E c \in Walkable(players, None), v \in Value : DropTreasure(c, v)

\* The treasures of a new map.
Bootstrap ==
  /\ phase = "boot" /\ Spawned
  /\ \/ /\ Cardinality(DOMAIN treasures) < MaxTreasures \div 2
        /\ SpawnTreasure
        /\ UNCHANGED phase
     \/ /\ Cardinality(DOMAIN treasures) >= MaxTreasures \div 2
        /\ phase' = "free"
        /\ UNCHANGED <<treasures, nextTreasure>>
  /\ UNCHANGED <<players, npcs, nextNPC, todo, healthy, listed, checkpoint, reloaded>>

\* The mark of the node that hosts the map changes: heartbeats, fail, recover.
Mark ==
  /\ healthy' = ~healthy
  /\ UNCHANGED <<players, npcs, treasures, ids, phase, todo, listed, checkpoint, reloaded>>

\* A round of backgroundLoop lists the nodes that are marked healthy.
BackgroundRound ==
  /\ phase = "free" /\ ~listed /\ healthy
  /\ listed' = TRUE
  /\ UNCHANGED <<players, npcs, treasures, ids, phase, todo, healthy, checkpoint, reloaded>>

\* It comes to the map's node and calls BackgroundStep, which refreshes everyone.
BackgroundStart ==
  /\ phase = "free" /\ listed
  /\ phase' = "spawn" /\ listed' = FALSE
  /\ players' \in Woken(User)
  /\ UNCHANGED <<npcs, treasures, ids, todo, healthy, checkpoint, reloaded>>

\* Perhaps a chest; then the NPCs move.
Chest ==
  /\ phase = "spawn" /\ Spawned
  /\ \/ Cardinality(DOMAIN treasures) < MaxTreasures /\ SpawnTreasure
     \/ UNCHANGED <<treasures, nextTreasure>>
  /\ phase' = IF DOMAIN npcs = {} THEN "free" ELSE "move"
  /\ todo' = DOMAIN npcs
  /\ UNCHANGED <<players, npcs, nextNPC, healthy, listed, checkpoint, reloaded>>

(* An NPC bites the weakest player next to it, or takes a step if it can.  *)
(* The order of the identifiers as strings is any order here.              *)
MoveNPC(i) ==
  /\ phase = "move" /\ i \in todo
  /\ \E ps \in Woken(User) :
       LET prey == Targets(ps, None, npcs[i].cell, 1)
           next == {c \in Walkable(ps, None) : distance(npcs[i].cell, c) = 1}
       IN  \/ \E v \in Weakest(ps, prey) :
                /\ players' = [ps EXCEPT ![v] = Hit(ps[v], NPCDamage)]
                /\ UNCHANGED npcs
           \/ /\ prey = {} /\ players' = ps
              /\ \/ \E c \in next : npcs' = [npcs EXCEPT ![i].cell = c]
                 \/ next = {} /\ UNCHANGED npcs
  /\ todo' = todo \ {i}
  /\ phase' = IF todo' = {} THEN "free" ELSE "move"
  /\ UNCHANGED <<treasures, ids, healthy, listed, checkpoint, reloaded>>

-----------------------------------------------------------------------------
BackgroundStep == \/ BackgroundStart \/ SpawnNPC \/ Bootstrap \/ Chest
                  \/ \E i \in todo : MoveNPC(i)

Command(u) == \/ MovePlayer(u) \/ HealPlayer(u) \/ AttackNPC(u) \/ AttackPlayer(u)
              \/ BuyItem(u) \/ RewardPlayer(u)

Session(u) == RemovePlayer(u) \/ \E p \in Profile : AddOrRestorePlayer(u, p)

Look == Refresh(User) \/ \E u \in User : Refresh({u})

Next ==
  \/ Mark \/ BackgroundRound \/ BackgroundStep
  \/ Look \/ CaptureCheckpoint \/ RestoreCheckpoint
  \/ \E u \in User : Command(u) \/ Session(u) \/ Tick(u)

Spec == Init /\ [][Next]_vars

(* backgroundLoop runs on: it lists a node that stays marked healthy, and  *)
(* steps what it has listed.  Time passes.                                 *)
Fairness ==
  /\ WF_vars(BackgroundRound) /\ WF_vars(BackgroundStep)
  /\ \A u \in User : WF_vars(Tick(u))

-----------------------------------------------------------------------------
(* Properties.                                                             *)

PlayersOK(ps)   == ps \in [User -> PlayerRecord \cup {None}]
NPCsOK(ns)      == /\ ns \in [DOMAIN ns -> NPCRecord]
                   /\ DOMAIN ns \subseteq Nat /\ IsFiniteSet(DOMAIN ns)
TreasuresOK(ts) == /\ ts \in [DOMAIN ts -> TreasureRecord]
                   /\ DOMAIN ts \subseteq Nat /\ IsFiniteSet(DOMAIN ts)

TypeOK ==
  /\ PlayersOK(players) /\ NPCsOK(npcs) /\ TreasuresOK(treasures)
  /\ \A saved \in checkpoint :
       PlayersOK(saved.players) /\ NPCsOK(saved.npcs) /\ TreasuresOK(saved.treasures)
  /\ nextNPC \in Nat /\ nextTreasure \in Nat
  /\ phase \in {"boot", "free", "spawn", "move"}
  /\ todo \subseteq DOMAIN npcs /\ (phase # "move" => todo = {})
  /\ healthy \in BOOLEAN /\ listed \in BOOLEAN
  /\ reloaded \subseteq User

(* No two living units stand on one cell, although players rise, log in    *)
(* and are restored on cells that others have taken in the meantime.       *)
OneUnitPerCell ==
  /\ \A u, v \in User : u # v /\ Alive(players, u) /\ Alive(players, v)
                          => players[u].cell # players[v].cell
  /\ \A u \in User, i \in DOMAIN npcs :
       Alive(players, u) => players[u].cell # npcs[i].cell
  /\ \A i, j \in DOMAIN npcs : i # j => npcs[i].cell # npcs[j].cell

\* Who lives has health and no deadline.
Fit(p) == p.alive => p.hp > 0 /\ p.timer = "off"

\* Who was felled has none, and a deadline at which he will rise.
Felled(p) == ~p.alive => p.hp = 0 /\ p.timer # "off"

(* Blows, drinks, rises, logins and restores keep health, life and         *)
(* deadline in step.  A player is down without a deadline, for good, only  *)
(* if he was loaded like that.                                             *)
Vitals ==
  \A u \in User : Here(u) => Fit(players[u]) /\ (u \notin reloaded => Felled(players[u]))

(* Two treasures never lie on one cell: who walks there takes all.         *)
OneTreasurePerCell ==
  \A t, r \in DOMAIN treasures : t # r => treasures[t].cell # treasures[r].cell

\* Where treasure t lies, there lies one that is worth as much after the step.
LiesOn(t) == \E r \in DOMAIN treasures' : /\ treasures'[r].cell = treasures[t].cell
                                          /\ treasures'[r].value >= treasures[t].value

\* The step put a player on the cell of treasure t, and its worth in his purse.
PickedUp(t) ==
  \E u \in User : /\ Here(u) /\ Alive(players', u)
                  /\ players'[u].cell = treasures[t].cell
                  /\ players'[u].purse = players[u].purse + treasures[t].value

(* What lies on a cell is lost to nobody: it goes on lying there, or went  *)
(* into the purse of a player who stepped on it, or the map was restored.  *)
(* After a restore an identifier may be given out twice, and only then a   *)
(* treasure disappears because a new one takes its identifier.             *)
TreasureKept ==
  [][\A t \in DOMAIN treasures :
       \/ LiesOn(t) \/ PickedUp(t)
       \/ \E saved \in checkpoint : treasures' = saved.treasures \/ t = nextTreasure]_vars

(* A knocked-down player gets up again, whether he asks or not, unless he  *)
(* leaves, or was loaded from a profile or a checkpoint: both forget       *)
(* RespawnAt.  For that the node has to stay marked healthy from some time *)
(* on; on another he waits until a command or a Snapshot refreshes him.    *)
GetsUpUnlessReloaded ==
  <>[]healthy => \A u \in User : Down(u) ~> (~Down(u) \/ u \in reloaded)

(* BackgroundStep ends, and the lock it holds is free again.  It makes up  *)
(* for the NPCs that were killed or that the checkpoint lacks, also when   *)
(* identifiers given out twice replace some, as long as the map stays on a *)
(* node marked healthy: backgroundLoop passes over every other, though     *)
(* players still fight there.                                              *)
NPCsComeBack ==
  /\ []<>(phase = "free")
  /\ <>[]healthy /\ <>[][~RestoreCheckpoint]_vars
       => []<>(phase = "free" /\ Cardinality(DOMAIN npcs) >= MinNPCs)

-----------------------------------------------------------------------------
(* What the documentation promises and the code does not keep.             *)

(* "A dead player is raised after a countdown and can go on moving and     *)
(* fighting" (Lab/Lab3/README.md:63).                                      *)
GetsUp == \A u \in User : Down(u) ~> ~Down(u)
=============================================================================
