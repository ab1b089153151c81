---------------------------- MODULE World_proofs ----------------------------
(***************************************************************************)
(* Proofs about World, for every set of users and cells and every value of *)
(* the other constants.                                                    *)
(***************************************************************************)
EXTENDS World, FiniteSetTheorems, TLAPS

\* No two units of players ps and NPCs ns stand on one cell.
Apart(ps, ns) ==
  /\ \A u, v \in User : u # v /\ Alive(ps, u) /\ Alive(ps, v) => ps[u].cell # ps[v].cell
  /\ \A u \in User, i \in DOMAIN ns : Alive(ps, u) => ps[u].cell # ns[i].cell
  /\ \A i, j \in DOMAIN ns : i # j => ns[i].cell # ns[j].cell

\* No two treasures of ts lie on one cell.
Scattered(ts) == \A t, r \in DOMAIN ts : t # r => ts[t].cell # ts[r].cell

Units(ps, ns) == PlayersOK(ps) /\ NPCsOK(ns) /\ Apart(ps, ns)
Hoard(ts)     == TreasuresOK(ts) /\ Scattered(ts)

(* The strengthening: what is restored is as good as what was captured,    *)
(* and identifiers are fresh as long as nothing could be restored.         *)
UnitInv == Units(players, npcs)
           /\ \A saved \in checkpoint : Units(saved.players, saved.npcs)

HoardInv == /\ Hoard(treasures)
            /\ \A saved \in checkpoint : Hoard(saved.treasures)
            /\ checkpoint = {} => \A t \in DOMAIN treasures : t < nextTreasure

WorldInv == TypeOK /\ UnitInv /\ HoardInv

-----------------------------------------------------------------------------
(* One player at a time.                                                   *)

\* A blow leaves a player where he is, and raises nobody.
LEMMA HitPlayer ==
  ASSUME NEW p \in PlayerRecord, NEW n \in Nat
  PROVE  /\ Hit(p, n) \in PlayerRecord
         /\ Hit(p, n).cell = p.cell
         /\ Hit(p, n).alive => p.alive
<1>1. InitHP \in Nat /\ p.hp \in 0 .. InitHP
  BY UnitAssumption DEF PlayerRecord
<1>2. CASE p.hp > n
  <2>1. p.hp - n \in 0 .. InitHP
    BY <1>1, <1>2
  <2>2. Hit(p, n) = [p EXCEPT !.hp = p.hp - n]
    BY <1>2 DEF Hit
  <2> QED
    BY <2>1, <2>2 DEF PlayerRecord
<1>3. CASE ~(p.hp > n)
  <2>1. Hit(p, n) = [p EXCEPT !.hp = 0, !.alive = FALSE, !.timer = "running"]
    BY <1>3 DEF Hit
  <2>2. 0 \in 0 .. InitHP /\ "running" \in {"off", "running", "over"}
    BY <1>1
  <2>3. Hit(p, n) \in PlayerRecord
    BY <2>1, <2>2 DEF PlayerRecord
  <2>4. Hit(p, n).cell = p.cell /\ Hit(p, n).alive = FALSE
    BY <2>1 DEF PlayerRecord
  <2> QED
    BY <2>3, <2>4
<1> QED
  BY <1>2, <1>3

\* A player who rises is alive, at the cell he was given, and not richer.
LEMMA RisenPlayer ==
  ASSUME NEW p \in PlayerRecord, NEW c \in Cell
  PROVE  /\ Risen(p, c) \in PlayerRecord
         /\ Risen(p, c).cell = c /\ Risen(p, c).purse = p.purse
<1>1. Larger(p.potions, MaxPotions) \in Nat /\ InitHP \in 0 .. InitHP
  BY UnitAssumption DEF Larger, PlayerRecord
<1> QED
  BY <1>1 DEF Risen, PlayerRecord

-----------------------------------------------------------------------------
(* Units: what keeps them apart.                                           *)

\* Whoever is alive afterwards was alive before, on the same cell.
LEMMA StayApart ==
  ASSUME NEW ps, NEW qs, NEW ns, Units(ps, ns), PlayersOK(qs),
         \A u \in User : Alive(qs, u) => Alive(ps, u) /\ qs[u].cell = ps[u].cell
  PROVE  Units(qs, ns)
BY DEF Units, Apart

\* One player is put on a cell that is walkable for him.
LEMMA PlaceApart ==
  ASSUME NEW ps, Units(ps, npcs), NEW u \in User, NEW r \in PlayerRecord,
         NEW me, me = u \/ me \notin User, r.cell \in Walkable(ps, me)
  PROVE  Units([ps EXCEPT ![u] = r], npcs)
<1> DEFINE qs == [ps EXCEPT ![u] = r]
<1>1. PlayersOK(qs)
  BY DEF Units, PlayersOK
<1>2. \A v \in User : qs[v] = IF v = u THEN r ELSE ps[v]
  BY DEF Units, PlayersOK
<1>3. \A v \in User \ {u} : Alive(ps, v) => ps[v].cell # r.cell
  BY DEF Walkable, Taken
<1>4. \A i \in DOMAIN npcs : npcs[i].cell # r.cell
  BY DEF Walkable, Taken
<1> HIDE DEF qs
<1>5. Apart(qs, npcs)
  BY <1>2, <1>3, <1>4 DEF Units, Apart, Alive
<1> QED
  BY <1>1, <1>5 DEF Units, qs

\* One NPC is put on a walkable cell, be it new or not.
LEMMA SpawnApart ==
  ASSUME NEW ps, Units(ps, npcs), NEW i \in Nat, NEW r \in NPCRecord,
         r.cell \in Walkable(ps, None)
  PROVE  Units(ps, Put(npcs, i, r))
<1> DEFINE ns == Put(npcs, i, r)
<1>1. /\ DOMAIN ns = DOMAIN npcs \cup {i}
      /\ \A j \in DOMAIN ns : ns[j] = IF j = i THEN r ELSE npcs[j]
      /\ ns \in [DOMAIN ns -> NPCRecord]
  BY DEF Put, Units, NPCsOK
<1>2. IsFiniteSet(DOMAIN ns)
  BY <1>1, FS_AddElement DEF Units, NPCsOK
<1>3. NPCsOK(ns)
  BY <1>1, <1>2 DEF NPCsOK, Units
<1>4. /\ \A v \in User : Alive(ps, v) => ps[v].cell # r.cell
      /\ \A j \in DOMAIN npcs : npcs[j].cell # r.cell
  BY NoneAssumption DEF Walkable, Taken
<1> HIDE DEF ns
<1>5. Apart(ps, ns)
  BY <1>1, <1>4 DEF Units, Apart
<1> QED
  BY <1>3, <1>5 DEF Units, ns

\* NPCs that are wounded stay where they are.
LEMMA WoundApart ==
  ASSUME NEW ps, Units(ps, npcs), NEW i \in DOMAIN npcs, NEW h \in Nat \ {0}
  PROVE  Units(ps, [npcs EXCEPT ![i].hp = h])
BY DEF Units, NPCsOK, Apart, NPCRecord

\* An NPC that is killed is nowhere.
LEMMA KillApart ==
  ASSUME NEW ps, Units(ps, npcs), NEW i
  PROVE  Units(ps, Drop(npcs, i))
<1> DEFINE ns == Drop(npcs, i)
<1>1. /\ DOMAIN ns = DOMAIN npcs \ {i}
      /\ \A j \in DOMAIN ns : ns[j] = npcs[j]
      /\ ns \in [DOMAIN ns -> NPCRecord]
  BY DEF Drop, Units, NPCsOK
<1>2. IsFiniteSet(DOMAIN ns)
  BY <1>1, FS_RemoveElement DEF Units, NPCsOK
<1> HIDE DEF ns
<1> QED
  BY <1>1, <1>2 DEF Units, NPCsOK, Apart, ns

\* A step of an NPC is a spawn in a new place.
LEMMA MoveApart ==
  ASSUME NEW ps, Units(ps, npcs), NEW i \in DOMAIN npcs, NEW c \in Walkable(ps, None)
  PROVE  Units(ps, [npcs EXCEPT ![i].cell = c])
<1>1. [npcs EXCEPT ![i].cell = c] = Put(npcs, i, [npcs[i] EXCEPT !.cell = c])
  BY DEF Put, Units, NPCsOK
<1>2. [npcs[i] EXCEPT !.cell = c] \in NPCRecord /\ [npcs[i] EXCEPT !.cell = c].cell = c
  BY DEF Units, NPCsOK, NPCRecord, Walkable
<1>3. i \in Nat
  BY DEF Units, NPCsOK
<1> HIDE DEF Units
<1>4. Units(ps, Put(npcs, i, [npcs[i] EXCEPT !.cell = c]))
  BY <1>2, <1>3, SpawnApart
<1> QED
  BY <1>1, <1>4

(* The refresh: those who rise get cells of their own, the others keep     *)
(* theirs.  Nobody comes, goes or gets richer.                             *)
LEMMA WokenApart ==
  ASSUME Units(players, npcs), NEW U \in SUBSET User, NEW ps \in Woken(U)
  PROVE  /\ Units(ps, npcs)
         /\ \A u \in User : /\ ps[u] # None <=> players[u] # None
                            /\ Here(u) => ps[u].purse = players[u].purse
                            /\ u \notin U => ps[u] = players[u]
<1> DEFINE D == {u \in U : Due(u)}
<1>1. PICK at \in [D -> Walkable(players, None)] :
        /\ \A u, v \in D : u # v => at[u] # at[v]
        /\ ps = [u \in User |-> IF u \in D THEN Risen(players[u], at[u]) ELSE players[u]]
  BY DEF Woken
<1>2. \A u \in D : u \in User /\ players[u] \in PlayerRecord
  BY DEF Due, Down, Here, Units, PlayersOK
<1>3. \A u \in D : /\ Risen(players[u], at[u]) \in PlayerRecord
                   /\ Risen(players[u], at[u]).cell = at[u]
                   /\ Risen(players[u], at[u]).purse = players[u].purse
  BY <1>1, <1>2, RisenPlayer DEF Walkable
<1>4. PlayersOK(ps)
  BY <1>1, <1>3 DEF Units, PlayersOK
<1>5. \A u \in D : /\ \A v \in User : Alive(players, v) => players[v].cell # at[u]
                   /\ \A i \in DOMAIN npcs : npcs[i].cell # at[u]
  BY <1>1, NoneAssumption DEF Walkable, Taken
<1>6. \A u \in User : ps[u] = IF u \in D THEN Risen(players[u], at[u]) ELSE players[u]
  BY <1>1
<1> HIDE DEF D
<1>7. Apart(ps, npcs)
  <2>1. ASSUME NEW u \in User, NEW v \in User, u # v, Alive(ps, u), Alive(ps, v)
        PROVE  ps[u].cell # ps[v].cell
    BY <2>1, <1>1, <1>3, <1>5, <1>6 DEF Units, Apart, Alive
  <2>2. ASSUME NEW u \in User, NEW i \in DOMAIN npcs, Alive(ps, u)
        PROVE  ps[u].cell # npcs[i].cell
    BY <2>2, <1>3, <1>5, <1>6 DEF Units, Apart, Alive
  <2> QED
    BY <2>1, <2>2 DEF Units, Apart
<1>8. \A u \in User : /\ ps[u] # None <=> players[u] # None
                      /\ Here(u) => ps[u].purse = players[u].purse
                      /\ u \notin U => ps[u] = players[u]
  BY <1>2, <1>3, <1>6, NoneAssumption DEF Here, D
<1> QED
  BY <1>4, <1>7, <1>8 DEF Units

-----------------------------------------------------------------------------
(* Treasures.                                                              *)

(* A treasure that falls down lies apart from the others, and no treasure  *)
(* gets lost unless the new one takes its identifier.                      *)
LEMMA DropScattered ==
  ASSUME Hoard(treasures), nextTreasure \in Nat, NEW c \in Cell, NEW v \in Value,
         DropTreasure(c, v)
  PROVE  /\ Hoard(treasures')
         /\ nextTreasure' \in Nat
         /\ (\A t \in DOMAIN treasures : t < nextTreasure)
              => \A t \in DOMAIN treasures' : t < nextTreasure'
         /\ \A t \in DOMAIN treasures :
              \/ t = nextTreasure
              \/ \E r \in DOMAIN treasures' : /\ treasures'[r].cell = treasures[t].cell
                                              /\ treasures'[r].value >= treasures[t].value
<1>0. /\ v \in Nat \ {0}
      /\ \A t \in DOMAIN treasures : treasures[t] \in TreasureRecord /\ t \in Nat
      /\ \A t \in DOMAIN treasures : treasures[t].cell \in Cell /\ treasures[t].value \in Nat
  BY UnitAssumption DEF Hoard, TreasuresOK, TreasureRecord
<1>1. ASSUME NEW s \in TreasureAt(c), treasures' = [treasures EXCEPT ![s].value = @ + v],
             nextTreasure' = nextTreasure
      PROVE  /\ Hoard(treasures') /\ DOMAIN treasures' = DOMAIN treasures
             /\ \A t \in DOMAIN treasures : /\ treasures'[t].cell = treasures[t].cell
                                            /\ treasures'[t].value >= treasures[t].value
  <2>1. s \in DOMAIN treasures
    BY DEF TreasureAt
  <2>2. DOMAIN treasures' = DOMAIN treasures
    BY <1>1 DEF Hoard, TreasuresOK
  <2>3. [treasures[s] EXCEPT !.value = @ + v] \in TreasureRecord
    <3>1. treasures[s].value + v \in Nat \ {0}
      BY <1>0, <2>1
    <3> QED
      BY <1>0, <2>1, <3>1 DEF TreasureRecord
  <2>4. treasures' \in [DOMAIN treasures -> TreasureRecord]
    BY <1>1, <2>3 DEF Hoard, TreasuresOK
  <2>5. \A t \in DOMAIN treasures : /\ treasures'[t].cell = treasures[t].cell
                                    /\ treasures'[t].value >= treasures[t].value
    <3>1. ASSUME NEW t \in DOMAIN treasures, t = s
          PROVE  /\ treasures'[t].cell = treasures[t].cell
                 /\ treasures'[t].value = treasures[t].value + v
      BY <1>0, <1>1, <3>1 DEF Hoard, TreasuresOK, TreasureRecord
    <3>2. ASSUME NEW t \in DOMAIN treasures, t # s
          PROVE  treasures'[t] = treasures[t]
      BY <1>1, <3>2 DEF Hoard, TreasuresOK
    <3> QED
      BY <1>0, <3>1, <3>2
  <2> QED
    BY <2>2, <2>4, <2>5 DEF Hoard, TreasuresOK, Scattered
<1>2. ASSUME TreasureAt(c) = {}, nextTreasure' = nextTreasure + 1,
             treasures' = Put(treasures, nextTreasure, [cell |-> c, value |-> v])
      PROVE  /\ Hoard(treasures') /\ DOMAIN treasures' = DOMAIN treasures \cup {nextTreasure}
             /\ \A t \in DOMAIN treasures : t # nextTreasure => treasures'[t] = treasures[t]
  <2> DEFINE new == [cell |-> c, value |-> v]
  <2>1. /\ DOMAIN treasures' = DOMAIN treasures \cup {nextTreasure}
        /\ \A t \in DOMAIN treasures' :
             treasures'[t] = IF t = nextTreasure THEN new ELSE treasures[t]
    BY <1>2 DEF Put
  <2>2. new \in TreasureRecord /\ new.cell = c
    BY <1>0 DEF TreasureRecord
  <2>3. treasures' \in [DOMAIN treasures' -> TreasureRecord]
    BY <1>0, <1>2, <2>2 DEF Put
  <2>4. IsFiniteSet(DOMAIN treasures')
    BY <2>1, FS_AddElement DEF Hoard, TreasuresOK
  <2>5. \A t \in DOMAIN treasures : treasures[t].cell # c
    BY <1>2 DEF TreasureAt
  <2> HIDE DEF new
  <2>6. Scattered(treasures')
    BY <2>1, <2>2, <2>5 DEF Hoard, Scattered
  <2> QED
    BY <1>0, <2>1, <2>3, <2>4, <2>6 DEF Hoard, TreasuresOK
<1>3. CASE \E s \in TreasureAt(c) : /\ treasures' = [treasures EXCEPT ![s].value = @ + v]
                                    /\ UNCHANGED nextTreasure
  BY <1>1, <1>3
<1>4. CASE /\ TreasureAt(c) = {}
           /\ treasures' = Put(treasures, nextTreasure, [cell |-> c, value |-> v])
           /\ nextTreasure' = nextTreasure + 1
  <2>1. \A t \in DOMAIN treasures : treasures[t].value >= treasures[t].value
    BY <1>0
  <2> QED
    BY <1>0, <1>2, <1>4, <2>1
<1> QED
  BY <1>3, <1>4 DEF DropTreasure

\* What is taken away leaves the rest as it lies.
LEMMA TakeScattered ==
  ASSUME NEW ts, Hoard(ts), NEW t
  PROVE  Hoard(Drop(ts, t))
<1> DEFINE rs == Drop(ts, t)
<1>1. /\ DOMAIN rs = DOMAIN ts \ {t}
      /\ \A r \in DOMAIN rs : rs[r] = ts[r]
      /\ rs \in [DOMAIN rs -> TreasureRecord]
  BY DEF Drop, Hoard, TreasuresOK
<1>2. IsFiniteSet(DOMAIN rs)
  BY <1>1, FS_RemoveElement DEF Hoard, TreasuresOK
<1> HIDE DEF rs
<1> QED
  BY <1>1, <1>2 DEF Hoard, TreasuresOK, Scattered, rs

-----------------------------------------------------------------------------
(* The steps and the units.                                                *)

\* A command that changes one player after the refresh, who stays put.
LEMMA ChangeApart ==
  ASSUME NEW ps, Units(ps, npcs), NEW u \in User, NEW r \in PlayerRecord,
         Alive(ps, u) => r.cell = ps[u].cell, r.alive => Alive(ps, u)
  PROVE  Units([ps EXCEPT ![u] = r], npcs)
<1> DEFINE qs == [ps EXCEPT ![u] = r]
<1>1. PlayersOK(qs) /\ \A v \in User : qs[v] = IF v = u THEN r ELSE ps[v]
  BY DEF Units, PlayersOK
<1> HIDE DEF qs
<1>2. \A v \in User : Alive(qs, v) => Alive(ps, v) /\ qs[v].cell = ps[v].cell
  BY <1>1 DEF Alive
<1>3. Units(qs, npcs)
  BY <1>1, <1>2, StayApart
<1> QED
  BY <1>3 DEF qs

\* The commands of a player.
LEMMA CommandUnits ==
  ASSUME TypeOK, UnitInv, NEW u \in User, Command(u)
  PROVE  Units(players', npcs') /\ checkpoint' = checkpoint
<1>0. Units(players, npcs)
  BY DEF UnitInv
<1>1. \A ps \in Woken({u}) : Units(ps, npcs)
  BY <1>0, WokenApart
<1>2. \A ps \in Woken({u}) : \A v \in User : Alive(ps, v) => ps[v] \in PlayerRecord
  BY <1>1 DEF Units, PlayersOK, Alive
<1>3. \A ps \in Woken({u}) : Here(u) => ps[u] \in PlayerRecord
  BY <1>0, <1>1, WokenApart DEF Units, PlayersOK, Here
<1>4. CASE MovePlayer(u)
  <2>0. PICK ps \in Woken({u}) : \E c \in Walkable(ps, u) :
          \/ players' = [ps EXCEPT ![u].cell = c]
          \/ \E t \in TreasureAt(c) :
               players' = [ps EXCEPT ![u].cell = c, ![u].purse = @ + treasures[t].value]
    BY <1>4 DEF MovePlayer
  <2>1. PICK c \in Walkable(ps, u) :
          \/ players' = [ps EXCEPT ![u].cell = c]
          \/ \E t \in TreasureAt(c) :
               players' = [ps EXCEPT ![u].cell = c, ![u].purse = @ + treasures[t].value]
    BY <2>0
  <2>2. ps[u] \in PlayerRecord /\ c \in Cell
    BY <1>3, <1>4 DEF MovePlayer, Free, Walkable
  <2>3. \E r \in PlayerRecord : r.cell = c /\ players' = [ps EXCEPT ![u] = r]
    <3>1. CASE players' = [ps EXCEPT ![u].cell = c]
      <4>1. [ps[u] EXCEPT !.cell = c] \in PlayerRecord /\ [ps[u] EXCEPT !.cell = c].cell = c
        BY <2>2 DEF PlayerRecord
      <4> QED
        BY <3>1, <4>1
    <3>2. ASSUME NEW t \in TreasureAt(c),
                 players' = [ps EXCEPT ![u].cell = c, ![u].purse = @ + treasures[t].value]
          PROVE  \E r \in PlayerRecord : r.cell = c /\ players' = [ps EXCEPT ![u] = r]
      <4> DEFINE r == [ps[u] EXCEPT !.cell = c, !.purse = @ + treasures[t].value]
      <4>1. treasures[t].value \in Nat
        BY DEF TypeOK, TreasuresOK, TreasureRecord, TreasureAt
      <4>2. ps[u].purse + treasures[t].value \in Nat
        BY <2>2, <4>1 DEF PlayerRecord
      <4>3. r \in PlayerRecord /\ r.cell = c
        BY <2>2, <4>2 DEF PlayerRecord
      <4>4. players' = [ps EXCEPT ![u] = r]
        BY <3>2, <1>1 DEF Units, PlayersOK
      <4> QED
        BY <4>3, <4>4
    <3> QED
      BY <2>1, <3>1, <3>2
  <2>4. Units(players', npcs)
    <3>1. PICK r \in PlayerRecord : r.cell = c /\ players' = [ps EXCEPT ![u] = r]
      BY <2>3
    <3>2. Units(ps, npcs) /\ r.cell \in Walkable(ps, u)
      BY <1>1, <3>1
    <3> QED
      BY <3>1, <3>2, PlaceApart
  <2> QED
    BY <2>4, <1>4 DEF MovePlayer
<1>5. CASE HealPlayer(u)
  <2>1. PICK ps \in Woken({u}) :
          /\ ps[u].alive /\ ps[u].potions > 0
          /\ players' = [ps EXCEPT ![u].potions = @ - 1, ![u].hp = Smaller(@ + HealAmount, InitHP)]
    BY <1>5 DEF HealPlayer
  <2> DEFINE r == [ps[u] EXCEPT !.potions = @ - 1, !.hp = Smaller(@ + HealAmount, InitHP)]
  <2>2. ps[u] \in PlayerRecord
    BY <1>3, <1>5 DEF HealPlayer, Free
  <2>3. /\ ps[u].potions - 1 \in Nat
        /\ Smaller(ps[u].hp + HealAmount, InitHP) \in 0 .. InitHP
    BY <2>1, <2>2, UnitAssumption DEF PlayerRecord, Smaller
  <2>4. r \in PlayerRecord /\ r.cell = ps[u].cell
    BY <2>2, <2>3 DEF PlayerRecord
  <2>5. players' = [ps EXCEPT ![u] = r]
    BY <2>1, <1>1 DEF Units, PlayersOK
  <2>6. Alive(ps, u)
    BY <2>1, <2>2, NoneAssumption DEF Alive
  <2> HIDE DEF r
  <2>7. Units(players', npcs)
    BY <2>4, <2>5, <2>6, <1>1, ChangeApart
  <2> QED
    BY <2>7, <1>5 DEF HealPlayer
<1>6. CASE AttackNPC(u)
  <2>1. PICK ps \in Woken({u}), i \in DOMAIN npcs :
          /\ players' = ps
          /\ \/ npcs[i].hp > ps[u].attack /\ npcs' = [npcs EXCEPT ![i].hp = @ - ps[u].attack]
             \/ npcs' = Drop(npcs, i)
    BY <1>6 DEF AttackNPC, InReach
  <2>0. Units(ps, npcs) /\ checkpoint' = checkpoint
    BY <1>1, <1>6 DEF AttackNPC
  <2>2. CASE npcs' = Drop(npcs, i)
    <3>1. Units(ps, Drop(npcs, i))
      BY <2>0, KillApart
    <3> QED
      BY <2>0, <2>1, <2>2, <3>1
  <2>3. CASE npcs[i].hp > ps[u].attack /\ npcs' = [npcs EXCEPT ![i].hp = @ - ps[u].attack]
    <3>1. ps[u].attack \in Nat
      BY <1>3, <1>6 DEF AttackNPC, Free, PlayerRecord
    <3>2. npcs[i].hp \in Nat
      BY <1>0 DEF Units, NPCsOK, NPCRecord
    <3>3. npcs[i].hp - ps[u].attack \in Nat \ {0}
      BY <2>3, <3>1, <3>2
    <3>4. Units(ps, [npcs EXCEPT ![i].hp = npcs[i].hp - ps[u].attack])
      BY <2>0, <3>3, WoundApart
    <3> QED
      BY <2>0, <2>1, <2>3, <3>4
  <2> QED
    BY <2>1, <2>2, <2>3
<1>7. CASE AttackPlayer(u)
  <2>1. PICK ps \in Woken({u}), v \in User :
          Alive(ps, v) /\ players' = [ps EXCEPT ![v] = Hit(ps[v], ps[u].attack)]
    BY <1>7 DEF AttackPlayer, Weakest, Targets
  <2>2. ps[u].attack \in Nat
    BY <1>3, <1>7 DEF AttackPlayer, Free, PlayerRecord
  <2>3. Units(players', npcs)
    BY <2>1, <2>2, <1>1, <1>2, HitPlayer, ChangeApart
  <2> QED
    BY <2>3, <1>7 DEF AttackPlayer
<1>8. CASE BuyItem(u)
  <2>1. PICK ps \in Woken({u}) :
          /\ ps[u].alive
          /\ \/ /\ ps[u].purse >= PotionPrice
                /\ players' = [ps EXCEPT ![u].purse = @ - PotionPrice, ![u].potions = @ + 1]
             \/ /\ ps[u].purse >= WeaponPrice
                /\ players' = [ps EXCEPT ![u].purse = @ - WeaponPrice,
                                         ![u].attack = @ + WeaponBoost]
    BY <1>8 DEF BuyItem
  <2>2. ps[u] \in PlayerRecord
    BY <1>3, <1>8 DEF BuyItem, Free
  <2>3. Alive(ps, u)
    BY <2>1, <2>2, NoneAssumption DEF Alive
  <2>4. \E r \in PlayerRecord : r.cell = ps[u].cell /\ players' = [ps EXCEPT ![u] = r]
    <3>1. CASE /\ ps[u].purse >= PotionPrice
               /\ players' = [ps EXCEPT ![u].purse = @ - PotionPrice, ![u].potions = @ + 1]
      <4> DEFINE r == [ps[u] EXCEPT !.purse = @ - PotionPrice, !.potions = @ + 1]
      <4>1. ps[u].purse - PotionPrice \in Nat /\ ps[u].potions + 1 \in Nat
        BY <2>2, <3>1, UnitAssumption DEF PlayerRecord
      <4>2. r \in PlayerRecord /\ r.cell = ps[u].cell
        BY <2>2, <4>1 DEF PlayerRecord
      <4>3. players' = [ps EXCEPT ![u] = r]
        BY <3>1, <1>1 DEF Units, PlayersOK
      <4> QED
        BY <4>2, <4>3
    <3>2. CASE /\ ps[u].purse >= WeaponPrice
               /\ players' = [ps EXCEPT ![u].purse = @ - WeaponPrice,
                                        ![u].attack = @ + WeaponBoost]
      <4> DEFINE r == [ps[u] EXCEPT !.purse = @ - WeaponPrice, !.attack = @ + WeaponBoost]
      <4>1. ps[u].purse - WeaponPrice \in Nat /\ ps[u].attack + WeaponBoost \in Nat
        BY <2>2, <3>2, UnitAssumption DEF PlayerRecord
      <4>2. r \in PlayerRecord /\ r.cell = ps[u].cell
        BY <2>2, <4>1 DEF PlayerRecord
      <4>3. players' = [ps EXCEPT ![u] = r]
        BY <3>2, <1>1 DEF Units, PlayersOK
      <4> QED
        BY <4>2, <4>3
    <3> QED
      BY <2>1, <3>1, <3>2
  <2>5. Units(players', npcs)
    BY <2>3, <2>4, <1>1, ChangeApart
  <2> QED
    BY <2>5, <1>8 DEF BuyItem
<1>9. CASE RewardPlayer(u)
  <2>1. PICK n \in Reward : players' = [players EXCEPT ![u].purse = @ + n]
    BY <1>9 DEF RewardPlayer
  <2> DEFINE r == [players[u] EXCEPT !.purse = @ + n]
  <2>2. players[u] \in PlayerRecord /\ n \in Nat
    BY <1>0, <1>9, UnitAssumption DEF RewardPlayer, Free, Here, Units, PlayersOK
  <2>3. players[u].purse + n \in Nat
    BY <2>2 DEF PlayerRecord
  <2>4. r \in PlayerRecord /\ r.cell = players[u].cell
    BY <2>2, <2>3 DEF PlayerRecord
  <2>5. r.alive = players[u].alive
    BY <2>2 DEF PlayerRecord
  <2>6. players' = [players EXCEPT ![u] = r]
    BY <2>1, <1>0 DEF Units, PlayersOK
  <2>7. r.alive => Alive(players, u)
    BY <2>2, <2>5, NoneAssumption DEF Alive
  <2> HIDE DEF r
  <2>8. Units(players', npcs)
    BY <2>4, <2>6, <2>7, <1>0, ChangeApart
  <2> QED
    BY <2>8, <1>9 DEF RewardPlayer
<1> QED
  BY <1>4, <1>5, <1>6, <1>7, <1>8, <1>9 DEF Command

\* Players who come and go, the refresh and the deadline.
LEMMA VisitUnits ==
  ASSUME TypeOK, UnitInv, NEW u \in User, Session(u) \/ Tick(u)
  PROVE  Units(players', npcs') /\ checkpoint' = checkpoint
<1>0. Units(players, npcs)
  BY DEF UnitInv
<1>1. ASSUME NEW p \in Profile, AddOrRestorePlayer(u, p)
      PROVE  Units(players', npcs') /\ checkpoint' = checkpoint
  <2>1. PICK c \in SafePosition(players, p.cell) \cup SafePosition(players, Spawn) :
          players' = [players EXCEPT ![u] =
            [p EXCEPT !.cell = c, !.hp = valueOr(@, InitHP), !.potions = valueOr(@, MaxPotions)]]
    BY <1>1 DEF AddOrRestorePlayer
  <2> DEFINE r == [p EXCEPT !.cell = c, !.hp = valueOr(@, InitHP),
                            !.potions = valueOr(@, MaxPotions)]
  <2>2. p \in PlayerRecord
    BY ProfileAssumption
  <2>3. valueOr(p.hp, InitHP) \in 0 .. InitHP /\ valueOr(p.potions, MaxPotions) \in Nat
    BY <2>2, UnitAssumption DEF valueOr, PlayerRecord
  <2>4. c \in Walkable(players, None) /\ c \in Cell
    BY DEF SafePosition, Walkable
  <2>5. r \in PlayerRecord /\ r.cell = c
    BY <2>2, <2>3, <2>4 DEF PlayerRecord
  <2>6. players' = [players EXCEPT ![u] = r]
    BY <2>1
  <2> HIDE DEF r
  <2>7. Units(players', npcs)
    BY <1>0, <2>4, <2>5, <2>6, NoneAssumption, PlaceApart
  <2> QED
    BY <2>7, <1>1 DEF AddOrRestorePlayer
<1>2. CASE RemovePlayer(u)
  <2>1. players' = [players EXCEPT ![u] = None]
    BY <1>2 DEF RemovePlayer
  <2>2. PlayersOK(players')
    BY <1>0, <2>1 DEF Units, PlayersOK
  <2>3. \A v \in User : Alive(players', v) => Alive(players, v) /\ players'[v].cell = players[v].cell
    BY <1>0, <2>1 DEF Units, PlayersOK, Alive
  <2>4. Units(players', npcs)
    BY <1>0, <2>2, <2>3, StayApart
  <2> QED
    BY <2>4, <1>2 DEF RemovePlayer
<1>3. CASE Tick(u)
  <2>1. players' = [players EXCEPT ![u].timer = "over"] /\ players[u] \in PlayerRecord
    BY <1>0, <1>3 DEF Tick, Down, Here, Units, PlayersOK
  <2> DEFINE r == [players[u] EXCEPT !.timer = "over"]
  <2>2. r \in PlayerRecord /\ r.cell = players[u].cell
    BY <2>1 DEF PlayerRecord
  <2>3. r.alive = players[u].alive
    BY <2>1 DEF PlayerRecord
  <2>4. players' = [players EXCEPT ![u] = r]
    BY <1>0, <2>1 DEF Units, PlayersOK
  <2>5. r.alive => Alive(players, u)
    BY <2>1, <2>3, NoneAssumption DEF Alive
  <2> HIDE DEF r
  <2>6. Units(players', npcs)
    BY <1>0, <2>2, <2>4, <2>5, ChangeApart
  <2> QED
    BY <2>6, <1>3 DEF Tick
<1> QED
  BY <1>1, <1>2, <1>3 DEF Session

\* What is captured of units that are apart is apart.
LEMMA KeptApart ==
  ASSUME NEW ps, NEW ns, Units(ps, ns)
  PROVE  Units([u \in User |-> IF ps[u] # None THEN Kept(ps[u]) ELSE None], ns)
<1> DEFINE qs == [u \in User |-> IF ps[u] # None THEN Kept(ps[u]) ELSE None]
<1>1. \A u \in User : ps[u] # None =>
        /\ ps[u] \in PlayerRecord /\ Kept(ps[u]) \in PlayerRecord
        /\ Kept(ps[u]).cell = ps[u].cell
  BY DEF Units, PlayersOK, Kept, PlayerRecord
<1>2. \A u \in User : ps[u] # None => Kept(ps[u]).alive = ps[u].alive
  BY <1>1 DEF Kept, PlayerRecord
<1>3. PlayersOK(qs)
  BY <1>1 DEF PlayersOK
<1>4. \A u \in User : qs[u] = IF ps[u] # None THEN Kept(ps[u]) ELSE None
  OBVIOUS
<1> HIDE DEF qs
<1>5. \A u \in User : Alive(qs, u) => Alive(ps, u) /\ qs[u].cell = ps[u].cell
  BY <1>1, <1>2, <1>4 DEF Alive
<1>6. Units(qs, ns)
  BY <1>3, <1>5, StayApart
<1> QED
  BY <1>6 DEF qs

\* So is what is restored.
LEMMA RestoredApart ==
  ASSUME NEW ps, NEW ns, Units(ps, ns)
  PROVE  Units([u \in User |-> IF ps[u] = None THEN None
                ELSE [ps[u] EXCEPT !.potions = valueOr(@, MaxPotions)]], ns)
<1> DEFINE Filled(p) == [p EXCEPT !.potions = valueOr(@, MaxPotions)]
           qs == [u \in User |-> IF ps[u] = None THEN None ELSE Filled(ps[u])]
<1>0. \A u \in User : ps[u] # None => valueOr(ps[u].potions, MaxPotions) \in Nat
  BY UnitAssumption DEF Units, PlayersOK, PlayerRecord, valueOr
<1>1. \A u \in User : ps[u] # None =>
        /\ ps[u] \in PlayerRecord /\ Filled(ps[u]) \in PlayerRecord
        /\ Filled(ps[u]).cell = ps[u].cell
  BY <1>0 DEF Units, PlayersOK, PlayerRecord
<1>2. \A u \in User : ps[u] # None => Filled(ps[u]).alive = ps[u].alive
  BY <1>1 DEF PlayerRecord
<1>3. \A u \in User : qs[u] = IF ps[u] = None THEN None ELSE Filled(ps[u])
  OBVIOUS
<1> HIDE DEF Filled
<1>4. PlayersOK(qs)
  BY <1>1 DEF PlayersOK
<1> HIDE DEF qs
<1>5. \A u \in User : Alive(qs, u) => Alive(ps, u) /\ qs[u].cell = ps[u].cell
  BY <1>1, <1>2, <1>3 DEF Alive
<1>6. Units(qs, ns)
  BY <1>4, <1>5, StayApart
<1> QED
  BY <1>6 DEF qs, Filled

\* bootstrap and BackgroundStep.
LEMMA BackgroundUnits ==
  ASSUME TypeOK, UnitInv, BackgroundStep
  PROVE  Units(players', npcs') /\ checkpoint' = checkpoint
<1>0. Units(players, npcs)
  BY DEF UnitInv
<1>1. \A ps \in Woken(User) : Units(ps, npcs)
  BY <1>0, WokenApart
<1>2. CASE BackgroundStart
  BY <1>1, <1>2 DEF BackgroundStart
<1>3. CASE SpawnNPC
  <2>1. PICK c \in Walkable(players, None), h \in NPCHealth :
          npcs' = Put(npcs, nextNPC, [cell |-> c, hp |-> h])
    BY <1>3 DEF SpawnNPC
  <2>2. [cell |-> c, hp |-> h] \in NPCRecord /\ [cell |-> c, hp |-> h].cell = c
    BY UnitAssumption DEF NPCRecord, Walkable
  <2>3. Units(players, npcs')
    BY <1>0, <2>1, <2>2, SpawnApart DEF TypeOK
  <2> QED
    BY <2>3, <1>3 DEF SpawnNPC
<1>4. CASE Bootstrap
  BY <1>0, <1>4 DEF Bootstrap
<1>5. CASE Chest
  BY <1>0, <1>5 DEF Chest
<1>6. ASSUME NEW i \in todo, MoveNPC(i)
      PROVE  Units(players', npcs') /\ checkpoint' = checkpoint
  <2>1. PICK ps \in Woken(User) :
          \/ \E v \in User : /\ Alive(ps, v)
                             /\ players' = [ps EXCEPT ![v] = Hit(ps[v], NPCDamage)]
                             /\ npcs' = npcs
          \/ players' = ps /\ \E c \in Walkable(ps, None) : npcs' = [npcs EXCEPT ![i].cell = c]
          \/ players' = ps /\ npcs' = npcs
    BY <1>6 DEF MoveNPC, Weakest, Targets
  <2>2. Units(ps, npcs) /\ checkpoint' = checkpoint /\ i \in DOMAIN npcs
    BY <1>1, <1>6 DEF MoveNPC, TypeOK
  <2>3. ASSUME NEW v \in User, Alive(ps, v), npcs' = npcs,
               players' = [ps EXCEPT ![v] = Hit(ps[v], NPCDamage)]
        PROVE  Units(players', npcs')
    <3>1. ps[v] \in PlayerRecord /\ NPCDamage \in Nat
      BY <2>2, <2>3, UnitAssumption DEF Units, PlayersOK, Alive
    <3>2. Hit(ps[v], NPCDamage) \in PlayerRecord /\ Hit(ps[v], NPCDamage).cell = ps[v].cell
      BY <3>1, HitPlayer
    <3>3. Units([ps EXCEPT ![v] = Hit(ps[v], NPCDamage)], npcs)
      BY <2>2, <2>3, <3>2, ChangeApart
    <3> QED
      BY <2>3, <3>3
  <2>4. ASSUME NEW c \in Walkable(ps, None), players' = ps, npcs' = [npcs EXCEPT ![i].cell = c]
        PROVE  Units(players', npcs')
    <3>1. Units(ps, [npcs EXCEPT ![i].cell = c])
      BY <2>2, MoveApart
    <3> QED
      BY <2>4, <3>1
  <2> QED
    BY <2>1, <2>2, <2>3, <2>4
<1> QED
  BY <1>2, <1>3, <1>4, <1>5, <1>6 DEF BackgroundStep

\* Every step keeps the units apart, in the world and in the checkpoint.
LEMMA UnitStep == TypeOK /\ UnitInv /\ [Next]_vars => UnitInv'
<1> SUFFICES ASSUME TypeOK, UnitInv, [Next]_vars PROVE UnitInv'
  OBVIOUS
<1>0. Units(players, npcs) /\ \A U \in SUBSET User : \A ps \in Woken(U) : Units(ps, npcs)
  BY WokenApart DEF UnitInv
<1>1. CASE Units(players', npcs') /\ checkpoint' = checkpoint
  BY <1>1 DEF UnitInv
<1>2. CASE Look
  <2>1. Units(players', npcs') /\ checkpoint' = checkpoint
    BY <1>0, <1>2 DEF Look, Refresh
  <2> QED
    BY <1>1, <2>1
<1>3. CASE CaptureCheckpoint
  <2> DEFINE kept == [u \in User |-> IF players'[u] # None THEN Kept(players'[u]) ELSE None]
  <2>1. players' \in Woken(User) /\ npcs' = npcs
    BY <1>3 DEF CaptureCheckpoint
  <2>2. Units(players', npcs') /\ \A u \in User : Here(u) <=> players'[u] # None
    BY <1>0, <2>1, WokenApart DEF Here
  <2>3. \A saved \in checkpoint' : saved.players = kept /\ saved.npcs = npcs
    BY <1>3, <2>2 DEF CaptureCheckpoint
  <2>4. Units(kept, npcs')
    BY <2>2, KeptApart
  <2> HIDE DEF kept
  <2> QED
    BY <2>1, <2>2, <2>3, <2>4 DEF UnitInv
<1>4. CASE RestoreCheckpoint
  <2>1. PICK saved \in checkpoint :
          /\ players' = [u \in User |-> IF saved.players[u] = None THEN None
                           ELSE [saved.players[u] EXCEPT !.potions = valueOr(@, MaxPotions)]]
          /\ npcs' = saved.npcs
    BY <1>4 DEF RestoreCheckpoint
  <2>2. Units(saved.players, saved.npcs)
    BY DEF UnitInv
  <2>3. Units(players', npcs')
    BY <2>1, <2>2, RestoredApart
  <2> QED
    BY <1>1, <1>4, <2>3 DEF RestoreCheckpoint
<1>5. CASE Mark \/ BackgroundRound \/ UNCHANGED vars
  <2>1. Units(players', npcs') /\ checkpoint' = checkpoint
    BY <1>0, <1>5 DEF Mark, BackgroundRound, vars
  <2> QED
    BY <1>1, <2>1
<1> QED
  BY <1>1, <1>2, <1>3, <1>4, <1>5, CommandUnits, VisitUnits, BackgroundUnits DEF Next

-----------------------------------------------------------------------------
(* The steps and the treasures.                                            *)

\* What may become of a treasure in a step.
Accounted(t) ==
  \/ LiesOn(t) \/ PickedUp(t)
  \/ \E saved \in checkpoint : treasures' = saved.treasures \/ t = nextTreasure

\* A treasure that nobody touches goes on lying where it is.
LEMMA UntouchedTreasures ==
  ASSUME TypeOK, HoardInv, treasures' = treasures, nextTreasure' = nextTreasure,
         checkpoint' = checkpoint
  PROVE  HoardInv' /\ \A t \in DOMAIN treasures : Accounted(t)
<1>1. \A t \in DOMAIN treasures : treasures[t].value >= treasures[t].value
  BY DEF TypeOK, TreasuresOK, TreasureRecord
<1> QED
  BY <1>1 DEF HoardInv, Hoard, TreasuresOK, Scattered, Accounted, LiesOn

\* Loot and chests.
LEMMA DroppedTreasures ==
  ASSUME TypeOK, HoardInv, NEW c \in Cell, NEW v \in Value, DropTreasure(c, v),
         checkpoint' = checkpoint
  PROVE  HoardInv' /\ \A t \in DOMAIN treasures : Accounted(t)
<1>1. Hoard(treasures) /\ nextTreasure \in Nat
  BY DEF HoardInv, TypeOK
<1>2. /\ Hoard(treasures')
      /\ (\A t \in DOMAIN treasures : t < nextTreasure)
           => \A t \in DOMAIN treasures' : t < nextTreasure'
      /\ \A t \in DOMAIN treasures : t = nextTreasure \/ LiesOn(t)
  BY <1>1, DropScattered DEF LiesOn
<1>3. checkpoint = {} => nextTreasure \notin DOMAIN treasures
  BY <1>1 DEF HoardInv
<1>4. HoardInv'
  BY <1>2 DEF HoardInv, Hoard, TreasuresOK, Scattered
<1>5. \A t \in DOMAIN treasures : Accounted(t)
  BY <1>2, <1>3 DEF Accounted
<1> QED
  BY <1>4, <1>5

\* Who walks onto a treasure takes it.
LEMMA TakenTreasures ==
  ASSUME TypeOK, UnitInv, HoardInv, NEW u \in User, MovePlayer(u)
  PROVE  HoardInv' /\ \A t \in DOMAIN treasures : Accounted(t)
<1>1. /\ nextTreasure' = nextTreasure /\ checkpoint' = checkpoint /\ Here(u)
      /\ Units(players, npcs)
  BY DEF MovePlayer, Free, ids, UnitInv
<1>2. CASE treasures' = treasures
  BY <1>1, <1>2, UntouchedTreasures
<1>3. CASE treasures' # treasures
  <2>1. PICK ps \in Woken({u}) : \E c \in Walkable(ps, u) : \E s \in TreasureAt(c) :
          /\ ps[u].alive
          /\ players' = [ps EXCEPT ![u].cell = c, ![u].purse = @ + treasures[s].value]
          /\ treasures' = Drop(treasures, s)
    BY <1>3 DEF MovePlayer
  <2>2. PICK c \in Walkable(ps, u) : \E s \in TreasureAt(c) :
          /\ ps[u].alive
          /\ players' = [ps EXCEPT ![u].cell = c, ![u].purse = @ + treasures[s].value]
          /\ treasures' = Drop(treasures, s)
    BY <2>1
  <2>3. PICK s \in TreasureAt(c) :
          /\ ps[u].alive
          /\ players' = [ps EXCEPT ![u].cell = c, ![u].purse = @ + treasures[s].value]
          /\ treasures' = Drop(treasures, s)
    BY <2>2
  <2>4. /\ Units(ps, npcs) /\ ps[u] \in PlayerRecord
        /\ ps[u].purse = players[u].purse
    BY <1>1, WokenApart DEF Units, PlayersOK, Here
  <2>5. s \in DOMAIN treasures /\ treasures[s].cell = c
    BY DEF TreasureAt
  <2>6. PickedUp(s)
    <3> DEFINE r == [ps[u] EXCEPT !.cell = c, !.purse = @ + treasures[s].value]
    <3>1. players'[u] = r
      BY <2>3, <2>4 DEF Units, PlayersOK
    <3>2. c \in Cell /\ ps[u].purse + treasures[s].value \in Nat
      <4>1. ps[u].purse \in Nat
        BY <2>4 DEF PlayerRecord
      <4>2. treasures[s].value \in Nat
        BY <2>5 DEF TypeOK, TreasuresOK, TreasureRecord
      <4> QED
        BY <4>1, <4>2 DEF Walkable
    <3>3. /\ r \in PlayerRecord /\ r.cell = c /\ r.alive
          /\ r.purse = players[u].purse + treasures[s].value
      BY <2>3, <2>4, <3>2 DEF PlayerRecord
    <3> HIDE DEF r
    <3> QED
      BY <1>1, <2>5, <3>1, <3>3, NoneAssumption DEF PickedUp, Alive
  <2>7. /\ DOMAIN treasures' = DOMAIN treasures \ {s}
        /\ \A t \in DOMAIN treasures' : treasures'[t] = treasures[t]
    BY <2>3 DEF Drop
  <2>8. \A t \in DOMAIN treasures \ {s} : LiesOn(t)
    <3>1. \A t \in DOMAIN treasures : treasures[t].value >= treasures[t].value
      BY DEF TypeOK, TreasuresOK, TreasureRecord
    <3> QED
      BY <2>7, <3>1 DEF LiesOn
  <2>9. HoardInv'
    <3>1. Hoard(treasures')
      BY <2>3, TakeScattered DEF HoardInv
    <3> QED
      BY <1>1, <2>7, <3>1 DEF HoardInv, Hoard, TreasuresOK, Scattered
  <2> QED
    BY <2>6, <2>8, <2>9 DEF Accounted
<1> QED
  BY <1>2, <1>3

\* Every step keeps the treasures apart and accounts for each of them.
LEMMA HoardStep ==
  TypeOK /\ UnitInv /\ HoardInv /\ [Next]_vars
    => HoardInv' /\ \A t \in DOMAIN treasures : Accounted(t)
<1> SUFFICES ASSUME TypeOK, UnitInv, HoardInv, [Next]_vars
             PROVE  HoardInv' /\ \A t \in DOMAIN treasures : Accounted(t)
  OBVIOUS
<1>1. CASE UNCHANGED <<treasures, nextTreasure, checkpoint>>
  BY <1>1, UntouchedTreasures
<1>2. CASE \E u \in User : MovePlayer(u)
  BY <1>2, TakenTreasures
<1>3. ASSUME NEW u \in User, AttackNPC(u)
      PROVE  HoardInv' /\ \A t \in DOMAIN treasures : Accounted(t)
  <2>1. PICK i \in DOMAIN npcs :
          \/ UNCHANGED <<treasures, nextTreasure>>
          \/ \E v \in Value : DropTreasure(npcs[i].cell, v)
    BY <1>3 DEF AttackNPC, InReach
  <2>2. npcs[i].cell \in Cell /\ checkpoint' = checkpoint
    BY <1>3 DEF TypeOK, NPCsOK, NPCRecord, AttackNPC
  <2> QED
    BY <1>1, <2>1, <2>2, DroppedTreasures
<1>4. CASE Bootstrap \/ Chest
  <2>1. /\ checkpoint' = checkpoint
        /\ UNCHANGED <<treasures, nextTreasure>> \/ SpawnTreasure
    BY <1>4 DEF Bootstrap, Chest
  <2>2. CASE SpawnTreasure
    BY <2>1, <2>2, DroppedTreasures DEF SpawnTreasure, Walkable
  <2> QED
    BY <1>1, <2>1, <2>2
<1>5. CASE CaptureCheckpoint
  <2>1. /\ \A saved \in checkpoint' : saved.treasures = treasures
        /\ checkpoint' # {}
        /\ treasures' = treasures /\ nextTreasure' = nextTreasure
    BY <1>5 DEF CaptureCheckpoint, ids
  <2>2. \A t \in DOMAIN treasures : treasures[t].value >= treasures[t].value
    BY DEF TypeOK, TreasuresOK, TreasureRecord
  <2> QED
    BY <2>1, <2>2 DEF HoardInv, Hoard, TreasuresOK, Scattered, Accounted, LiesOn
<1>6. CASE RestoreCheckpoint
  BY <1>6 DEF RestoreCheckpoint, HoardInv, Hoard, TreasuresOK, Scattered, Accounted
<1>7. ASSUME NEW u \in User,
             \/ HealPlayer(u) \/ AttackPlayer(u) \/ BuyItem(u) \/ RewardPlayer(u)
             \/ Session(u) \/ Tick(u)
      PROVE  UNCHANGED <<treasures, nextTreasure, checkpoint>>
  BY <1>7 DEF HealPlayer, AttackPlayer, BuyItem, RewardPlayer, Session, RemovePlayer,
              AddOrRestorePlayer, Tick, ids
<1>8. ASSUME \/ Look \/ BackgroundStart \/ SpawnNPC \/ (\E i \in todo : MoveNPC(i))
             \/ Mark \/ BackgroundRound \/ UNCHANGED vars
      PROVE  UNCHANGED <<treasures, nextTreasure, checkpoint>>
  BY <1>8 DEF Look, Refresh, BackgroundStart, SpawnNPC, MoveNPC, Mark, BackgroundRound, ids, vars
<1> QED
  BY <1>1, <1>2, <1>3, <1>4, <1>5, <1>6, <1>7, <1>8 DEF Next, Command, BackgroundStep

-----------------------------------------------------------------------------
(* The rest of the state.                                                  *)

\* The counters, the phase of the holder of the lock, the history.
Control == /\ nextNPC \in Nat /\ nextTreasure \in Nat
           /\ phase \in {"boot", "free", "spawn", "move"}
           /\ todo \subseteq DOMAIN npcs /\ (phase # "move" => todo = {})
           /\ reloaded \subseteq User

\* Only the holder of the lock has NPCs to move, and he moves living ones.
LEMMA ControlStep == TypeOK /\ UnitInv /\ HoardInv /\ [Next]_vars => Control'
<1> SUFFICES ASSUME TypeOK, UnitInv, HoardInv, [Next]_vars PROVE Control'
  OBVIOUS
<1>0. Control
  BY DEF TypeOK, Control
<1>1. CASE /\ UNCHANGED <<nextNPC, nextTreasure, phase, todo>>
           /\ DOMAIN npcs' = DOMAIN npcs /\ reloaded' \subseteq User
  BY <1>0, <1>1 DEF Control
<1>2. ASSUME NEW c \in Cell, NEW v \in Value, DropTreasure(c, v)
      PROVE  nextTreasure' \in Nat
  BY <1>0, <1>2 DEF DropTreasure, Control
<1>3. ASSUME NEW u \in User, AttackNPC(u)
      PROVE  Control'
  <2>1. PICK i \in DOMAIN npcs :
          nextTreasure' = nextTreasure \/ \E v \in Value : DropTreasure(npcs[i].cell, v)
    BY <1>3 DEF AttackNPC, InReach
  <2>2. npcs[i].cell \in Cell
    BY DEF TypeOK, NPCsOK, NPCRecord
  <2>3. nextTreasure' \in Nat
    BY <1>0, <1>2, <2>1, <2>2 DEF Control
  <2>4. /\ nextNPC' = nextNPC /\ phase' = phase /\ todo' = todo /\ reloaded' = reloaded
        /\ phase = "free"
    BY <1>3 DEF AttackNPC, Free, step
  <2> QED
    BY <1>0, <2>3, <2>4 DEF Control
<1>4. CASE SpawnNPC
  <2>1. /\ nextNPC' = nextNPC + 1 /\ nextTreasure' = nextTreasure
        /\ phase' = phase /\ todo' = todo /\ reloaded' = reloaded /\ phase # "move"
    BY <1>4 DEF SpawnNPC, step
  <2> QED
    BY <1>0, <2>1 DEF Control
<1>5. CASE Bootstrap
  <2>1. /\ nextNPC' = nextNPC /\ npcs' = npcs /\ todo' = todo /\ reloaded' = reloaded
        /\ phase = "boot" /\ phase' \in {"boot", "free"}
    BY <1>5 DEF Bootstrap
  <2>2. nextTreasure' \in Nat
    BY <1>0, <1>2, <1>5 DEF Bootstrap, SpawnTreasure, Walkable, Control
  <2> QED
    BY <1>0, <2>1, <2>2 DEF Control
<1>6. CASE Chest
  <2>1. /\ nextNPC' = nextNPC /\ npcs' = npcs /\ todo' = DOMAIN npcs /\ reloaded' = reloaded
        /\ phase' = IF DOMAIN npcs = {} THEN "free" ELSE "move"
    BY <1>6 DEF Chest
  <2>2. nextTreasure' \in Nat
    BY <1>0, <1>2, <1>6 DEF Chest, SpawnTreasure, Walkable, Control
  <2> QED
    BY <1>0, <2>1, <2>2 DEF Control
<1>7. ASSUME NEW i \in todo, MoveNPC(i)
      PROVE  Control'
  <2>1. /\ nextNPC' = nextNPC /\ nextTreasure' = nextTreasure /\ reloaded' = reloaded
        /\ todo' = todo \ {i} /\ phase' = IF todo' = {} THEN "free" ELSE "move"
    BY <1>7 DEF MoveNPC, ids
  <2>2. DOMAIN npcs' = DOMAIN npcs
    BY <1>7 DEF MoveNPC, TypeOK, NPCsOK
  <2> QED
    BY <1>0, <2>1, <2>2 DEF Control
<1>8. CASE RestoreCheckpoint
  <2>1. /\ phase' = phase /\ todo' = todo /\ phase = "free" /\ reloaded' \subseteq User
        /\ nextNPC' = Cardinality(DOMAIN npcs') + 1
        /\ nextTreasure' = Cardinality(DOMAIN treasures') + 1
    BY <1>8 DEF RestoreCheckpoint, step
  <2>2. IsFiniteSet(DOMAIN npcs') /\ IsFiniteSet(DOMAIN treasures')
    BY <1>8 DEF RestoreCheckpoint, TypeOK, NPCsOK, TreasuresOK
  <2>3. nextNPC' \in Nat /\ nextTreasure' \in Nat
    BY <2>1, <2>2, FS_CardinalityType
  <2> QED
    BY <1>0, <2>1, <2>3 DEF Control
<1>9. CASE BackgroundStart
  BY <1>0, <1>9 DEF BackgroundStart, Control, ids
<1>10. CASE Look \/ CaptureCheckpoint \/ Mark \/ BackgroundRound \/ UNCHANGED vars
  BY <1>0, <1>1, <1>10
     DEF Look, Refresh, CaptureCheckpoint, Mark, BackgroundRound, ids, step, vars, Control
<1>11. ASSUME NEW u \in User,
              \/ MovePlayer(u) \/ HealPlayer(u) \/ AttackPlayer(u) \/ BuyItem(u)
              \/ RewardPlayer(u) \/ Session(u) \/ Tick(u)
       PROVE  /\ UNCHANGED <<nextNPC, nextTreasure, phase, todo, npcs>>
              /\ reloaded' \subseteq User
  BY <1>0, <1>11 DEF MovePlayer, HealPlayer, AttackPlayer, BuyItem, RewardPlayer, Session,
              RemovePlayer, AddOrRestorePlayer, Tick, ids, step, Control
<1> QED
  BY <1>1, <1>3, <1>4, <1>5, <1>6, <1>7, <1>8, <1>9, <1>10, <1>11
     DEF Next, Command, BackgroundStep

\* The mark of the node, and whether backgroundLoop has it on its list.
LEMMA LoopStep == TypeOK /\ [Next]_vars => healthy' \in BOOLEAN /\ listed' \in BOOLEAN
<1> SUFFICES ASSUME TypeOK, [Next]_vars PROVE healthy' \in BOOLEAN /\ listed' \in BOOLEAN
  OBVIOUS
<1>0. healthy \in BOOLEAN /\ listed \in BOOLEAN
  BY DEF TypeOK
<1>1. CASE Mark \/ BackgroundRound \/ BackgroundStart \/ RestoreCheckpoint \/ UNCHANGED vars
  BY <1>0, <1>1 DEF Mark, BackgroundRound, BackgroundStart, RestoreCheckpoint, vars, step
<1>2. CASE SpawnNPC \/ Bootstrap \/ Chest \/ \E i \in todo : MoveNPC(i)
  BY <1>0, <1>2 DEF SpawnNPC, Bootstrap, Chest, MoveNPC, step
<1>3. CASE Look \/ CaptureCheckpoint
  BY <1>0, <1>3 DEF Look, Refresh, CaptureCheckpoint, step
<1>4. ASSUME NEW u \in User, Command(u) \/ Session(u) \/ Tick(u)
      PROVE  UNCHANGED step
  BY <1>4 DEF Command, MovePlayer, HealPlayer, AttackNPC, AttackPlayer, BuyItem, RewardPlayer,
              Session, RemovePlayer, AddOrRestorePlayer, Tick
<1> QED
  BY <1>0, <1>1, <1>2, <1>3, <1>4 DEF Next, BackgroundStep, step

-----------------------------------------------------------------------------
(* Life, health and deadlines.                                             *)

\* So it is with players ps, of whom R were loaded.
Vigour(ps, R) ==
  \A u \in User : ps[u] # None => Fit(ps[u]) /\ (u \notin R => Felled(ps[u]))

\* A checkpoint has no deadlines.
VitalInv == /\ Vigour(players, reloaded)
            /\ \A saved \in checkpoint : \A u \in User :
                 saved.players[u] # None => Fit(saved.players[u])

\* Two records of a player who is as well as before.
Alike(p, q) == p.alive = q.alive /\ p.hp = q.hp /\ p.timer = q.timer

LEMMA AlikeVigour ==
  ASSUME NEW ps, NEW qs, NEW R, Vigour(ps, R),
         \A u \in User : qs[u] # None => ps[u] # None /\ Alike(ps[u], qs[u])
  PROVE  Vigour(qs, R)
BY DEF Vigour, Alike, Fit, Felled

LEMMA ChangedVigour ==
  ASSUME NEW ps, NEW R, Vigour(ps, R), PlayersOK(ps), NEW u \in User, NEW r,
         Fit(r), u \notin R => Felled(r)
  PROVE  Vigour([ps EXCEPT ![u] = r], R)
BY DEF Vigour, PlayersOK

\* A player who spends or earns is as well as before.
LEMMA SpentVigour ==
  ASSUME NEW ps, NEW R, Vigour(ps, R), PlayersOK(ps), NEW u \in User, ps[u] \in PlayerRecord,
         NEW r, Alike(ps[u], r)
  PROVE  Vigour([ps EXCEPT ![u] = r], R)
<1>1. Fit(r) /\ (u \notin R => Felled(r))
  BY NoneAssumption DEF Vigour, Alike, Fit, Felled
<1> QED
  BY <1>1, ChangedVigour

\* A blow leaves health or a deadline.
LEMMA HitVital ==
  ASSUME NEW p \in PlayerRecord, NEW n \in Nat, p.alive, Fit(p)
  PROVE  Fit(Hit(p, n)) /\ Felled(Hit(p, n))
<1>1. p.hp \in Nat
  BY UnitAssumption DEF PlayerRecord
<1>2. CASE p.hp > n
  <2>1. Hit(p, n) = [p EXCEPT !.hp = p.hp - n] /\ p.hp - n > 0
    BY <1>1, <1>2 DEF Hit
  <2>2. Hit(p, n).alive = p.alive /\ Hit(p, n).timer = p.timer /\ Hit(p, n).hp = p.hp - n
    BY <2>1 DEF PlayerRecord
  <2> QED
    BY <2>1, <2>2 DEF Fit, Felled
<1>3. CASE ~(p.hp > n)
  <2>1. Hit(p, n) = [p EXCEPT !.hp = 0, !.alive = FALSE, !.timer = "running"]
    BY <1>3 DEF Hit
  <2>2. Hit(p, n).alive = FALSE /\ Hit(p, n).timer = "running" /\ Hit(p, n).hp = 0
    BY <2>1 DEF PlayerRecord
  <2> QED
    BY <2>2 DEF Fit, Felled
<1> QED
  BY <1>2, <1>3

\* The refresh raises those who are due, whole and without a deadline.
LEMMA WokenVigour ==
  ASSUME PlayersOK(players), NEW R, Vigour(players, R), NEW U \in SUBSET User, NEW ps \in Woken(U)
  PROVE  Vigour(ps, R)
<1> DEFINE D == {u \in U : Due(u)}
<1>1. PICK at \in [D -> Walkable(players, None)] :
        ps = [u \in User |-> IF u \in D THEN Risen(players[u], at[u]) ELSE players[u]]
  BY DEF Woken
<1>2. \A u \in D : u \in User /\ players[u] \in PlayerRecord
  BY DEF Due, Down, Here, PlayersOK
<1>3. \A u \in D : /\ Risen(players[u], at[u]).alive = TRUE
                   /\ Risen(players[u], at[u]).hp = InitHP
                   /\ Risen(players[u], at[u]).timer = "off"
  BY <1>2 DEF Risen, PlayerRecord
<1>4. \A u \in User : ps[u] = IF u \in D THEN Risen(players[u], at[u]) ELSE players[u]
  BY <1>1
<1>5. InitHP \in Nat /\ InitHP > 0
  BY UnitAssumption
<1> HIDE DEF D
<1> QED
  BY <1>3, <1>4, <1>5 DEF Vigour, Fit, Felled

\* The commands of a player.
LEMMA CommandVigour ==
  ASSUME UnitInv, VitalInv, NEW u \in User, Command(u)
  PROVE  Vigour(players', reloaded) /\ UNCHANGED <<checkpoint, reloaded>>
<1>0. /\ PlayersOK(players) /\ Vigour(players, reloaded)
      /\ \A ps \in Woken({u}) : PlayersOK(ps) /\ Vigour(ps, reloaded)
  BY WokenApart, WokenVigour DEF UnitInv, Units, VitalInv
<1>1. \A ps \in Woken({u}) : Here(u) => ps[u] \in PlayerRecord
  BY <1>0, WokenApart DEF UnitInv, PlayersOK, Here
<1>2. UNCHANGED <<checkpoint, reloaded>>
  BY DEF Command, MovePlayer, HealPlayer, AttackNPC, AttackPlayer, BuyItem, RewardPlayer
<1>3. CASE MovePlayer(u)
  <2>1. PICK ps \in Woken({u}), c \in Cell :
          \/ players' = [ps EXCEPT ![u].cell = c]
          \/ \E t : players' = [ps EXCEPT ![u].cell = c, ![u].purse = @ + treasures[t].value]
    BY <1>3 DEF MovePlayer, Walkable
  <2>2. ps[u] \in PlayerRecord
    BY <1>1, <1>3 DEF MovePlayer, Free
  <2>3. \A r : Alike(ps[u], r) => Vigour([ps EXCEPT ![u] = r], reloaded)
    BY <1>0, <2>2, SpentVigour
  <2>4. CASE players' = [ps EXCEPT ![u].cell = c]
    <3>1. /\ players' = [ps EXCEPT ![u] = [ps[u] EXCEPT !.cell = c]]
          /\ Alike(ps[u], [ps[u] EXCEPT !.cell = c])
      BY <2>2, <2>4 DEF Alike, PlayerRecord
    <3> QED
      BY <1>2, <2>3, <3>1
  <2>5. ASSUME NEW t, players' = [ps EXCEPT ![u].cell = c, ![u].purse = @ + treasures[t].value]
        PROVE  Vigour(players', reloaded)
    <3> DEFINE r == [ps[u] EXCEPT !.cell = c, !.purse = @ + treasures[t].value]
    <3>1. players' = [ps EXCEPT ![u] = r]
      BY <1>0, <2>2, <2>5 DEF PlayersOK, PlayerRecord
    <3>2. Alike(ps[u], r)
      BY <2>2 DEF Alike, PlayerRecord
    <3> QED
      BY <2>3, <3>1, <3>2
  <2> QED
    BY <1>2, <2>1, <2>4, <2>5
<1>4. CASE HealPlayer(u)
  <2>1. PICK ps \in Woken({u}) :
          /\ ps[u].alive
          /\ players' = [ps EXCEPT ![u].potions = @ - 1, ![u].hp = Smaller(@ + HealAmount, InitHP)]
    BY <1>4 DEF HealPlayer
  <2> DEFINE r == [ps[u] EXCEPT !.potions = @ - 1, !.hp = Smaller(@ + HealAmount, InitHP)]
  <2>2. ps[u] \in PlayerRecord
    BY <1>1, <1>4 DEF HealPlayer, Free
  <2>3. Smaller(ps[u].hp + HealAmount, InitHP) > 0 /\ ps[u].timer = "off"
    <3>1. ps[u].hp \in Nat /\ HealAmount \in Nat /\ InitHP \in Nat \ {0} /\ Fit(ps[u])
      BY <1>0, <2>2, UnitAssumption, NoneAssumption DEF PlayerRecord, Vigour
    <3> QED
      BY <2>1, <3>1 DEF Fit, Smaller
  <2>4. /\ r.alive = ps[u].alive /\ r.timer = ps[u].timer
        /\ r.hp = Smaller(ps[u].hp + HealAmount, InitHP)
    BY <2>2 DEF PlayerRecord
  <2>5. Fit(r) /\ Felled(r) /\ players' = [ps EXCEPT ![u] = r]
    BY <1>0, <2>1, <2>3, <2>4 DEF Fit, Felled, PlayersOK
  <2> HIDE DEF r
  <2> QED
    BY <1>0, <1>2, <2>5, ChangedVigour
<1>5. CASE AttackNPC(u)
  BY <1>0, <1>2, <1>5 DEF AttackNPC
<1>6. CASE AttackPlayer(u)
  <2>1. PICK ps \in Woken({u}), v \in User :
          Alive(ps, v) /\ players' = [ps EXCEPT ![v] = Hit(ps[v], ps[u].attack)]
    BY <1>6 DEF AttackPlayer, Weakest, Targets
  <2>2. ps[u].attack \in Nat /\ ps[v] \in PlayerRecord /\ Fit(ps[v]) /\ ps[v].alive
    <3>1. ps[u] \in PlayerRecord
      BY <1>1, <1>6 DEF AttackPlayer, Free
    <3>2. ps[v] # None /\ ps[v].alive
      BY <2>1 DEF Alive
    <3>3. ps[v] \in PlayerRecord
      BY <1>0, <3>2 DEF PlayersOK
    <3>4. Fit(ps[v])
      BY <1>0, <3>2 DEF Vigour
    <3> QED
      BY <3>1, <3>2, <3>3, <3>4 DEF PlayerRecord
  <2>3. Fit(Hit(ps[v], ps[u].attack)) /\ Felled(Hit(ps[v], ps[u].attack))
    BY <2>2, HitVital
  <2> QED
    BY <1>0, <1>2, <2>1, <2>3, ChangedVigour
<1>7. CASE BuyItem(u)
  <2>1. PICK ps \in Woken({u}) :
          \/ players' = [ps EXCEPT ![u].purse = @ - PotionPrice, ![u].potions = @ + 1]
          \/ players' = [ps EXCEPT ![u].purse = @ - WeaponPrice, ![u].attack = @ + WeaponBoost]
    BY <1>7 DEF BuyItem
  <2>2. ps[u] \in PlayerRecord
    BY <1>1, <1>7 DEF BuyItem, Free
  <2>3. \A r : Alike(ps[u], r) => Vigour([ps EXCEPT ![u] = r], reloaded)
    BY <1>0, <2>2, SpentVigour
  <2>4. CASE players' = [ps EXCEPT ![u].purse = @ - PotionPrice, ![u].potions = @ + 1]
    <3> DEFINE r == [ps[u] EXCEPT !.purse = @ - PotionPrice, !.potions = @ + 1]
    <3>1. players' = [ps EXCEPT ![u] = r]
      BY <1>0, <2>2, <2>4 DEF PlayersOK, PlayerRecord
    <3>2. Alike(ps[u], r)
      BY <2>2 DEF Alike, PlayerRecord
    <3> QED
      BY <1>2, <2>3, <3>1, <3>2
  <2>5. CASE players' = [ps EXCEPT ![u].purse = @ - WeaponPrice, ![u].attack = @ + WeaponBoost]
    <3> DEFINE r == [ps[u] EXCEPT !.purse = @ - WeaponPrice, !.attack = @ + WeaponBoost]
    <3>1. players' = [ps EXCEPT ![u] = r]
      BY <1>0, <2>2, <2>5 DEF PlayersOK, PlayerRecord
    <3>2. Alike(ps[u], r)
      BY <2>2 DEF Alike, PlayerRecord
    <3> QED
      BY <1>2, <2>3, <3>1, <3>2
  <2> QED
    BY <2>1, <2>4, <2>5
<1>8. CASE RewardPlayer(u)
  <2>1. PICK n \in Reward : players' = [players EXCEPT ![u].purse = @ + n]
    BY <1>8 DEF RewardPlayer
  <2>2. players[u] \in PlayerRecord
    BY <1>0, <1>8 DEF RewardPlayer, Free, Here, PlayersOK
  <2>3. \A v \in User :
          players'[v] # None => players[v] # None /\ Alike(players[v], players'[v])
    BY <1>0, <2>1, <2>2, NoneAssumption DEF Alike, PlayersOK, PlayerRecord
  <2> QED
    BY <1>0, <1>2, <2>3, AlikeVigour
<1> QED
  BY <1>3, <1>4, <1>5, <1>6, <1>7, <1>8 DEF Command

\* Every step keeps health, life and deadlines in step.
LEMMA VitalStep == TypeOK /\ UnitInv /\ VitalInv /\ [Next]_vars => VitalInv'
<1> SUFFICES ASSUME TypeOK, UnitInv, VitalInv, [Next]_vars PROVE VitalInv'
  OBVIOUS
<1>0. /\ PlayersOK(players) /\ Vigour(players, reloaded)
      /\ \A U \in SUBSET User : \A ps \in Woken(U) : PlayersOK(ps) /\ Vigour(ps, reloaded)
  BY WokenApart, WokenVigour DEF UnitInv, Units, VitalInv
<1>1. CASE Vigour(players', reloaded') /\ checkpoint' = checkpoint
  BY <1>1 DEF VitalInv
<1>2. ASSUME NEW u \in User, Command(u)
      PROVE  VitalInv'
  BY <1>1, <1>2, CommandVigour
<1>3. ASSUME NEW u \in User, NEW p \in Profile, AddOrRestorePlayer(u, p)
      PROVE  VitalInv'
  <2>1. PICK c : players' = [players EXCEPT ![u] =
            [p EXCEPT !.cell = c, !.hp = valueOr(@, InitHP), !.potions = valueOr(@, MaxPotions)]]
    BY <1>3 DEF AddOrRestorePlayer
  <2> DEFINE r == [p EXCEPT !.cell = c, !.hp = valueOr(@, InitHP),
                            !.potions = valueOr(@, MaxPotions)]
  <2>2. p \in PlayerRecord /\ p.timer = "off"
    BY ProfileAssumption DEF Kept, PlayerRecord
  <2>3. r.alive = p.alive /\ r.timer = p.timer /\ r.hp = valueOr(p.hp, InitHP)
    BY <2>2 DEF PlayerRecord
  <2>4. Fit(r)
    BY <2>2, <2>3, UnitAssumption DEF Fit, valueOr, PlayerRecord
  <2>5. reloaded' = (IF p.alive THEN reloaded \ {u} ELSE reloaded \cup {u})
    BY <1>3 DEF AddOrRestorePlayer
  <2>6. u \notin reloaded' => Felled(r)
    BY <2>3, <2>5 DEF Felled
  <2>7. \A v \in User : v # u => (v \in reloaded' <=> v \in reloaded) /\ players'[v] = players[v]
    BY <1>0, <2>1, <2>5 DEF PlayersOK
  <2>8. players'[u] = r
    BY <1>0, <2>1 DEF PlayersOK
  <2> HIDE DEF r
  <2>9. Vigour(players', reloaded')
    BY <1>0, <2>4, <2>6, <2>7, <2>8 DEF Vigour
  <2> QED
    BY <1>1, <1>3, <2>9 DEF AddOrRestorePlayer
<1>4. ASSUME NEW u \in User, RemovePlayer(u)
      PROVE  VitalInv'
  <2>1. /\ players' = [players EXCEPT ![u] = None] /\ reloaded' = reloaded \ {u}
        /\ checkpoint' = checkpoint
    BY <1>4 DEF RemovePlayer
  <2>2. Vigour(players', reloaded')
    BY <1>0, <2>1 DEF Vigour, PlayersOK
  <2> QED
    BY <1>1, <2>1, <2>2
<1>5. ASSUME NEW u \in User, Tick(u)
      PROVE  VitalInv'
  <2>1. /\ players' = [players EXCEPT ![u].timer = "over"] /\ players[u] # None
        /\ ~players[u].alive /\ UNCHANGED <<checkpoint, reloaded>>
    BY <1>5 DEF Tick, Down, Here
  <2> DEFINE r == [players[u] EXCEPT !.timer = "over"]
  <2>2. players[u] \in PlayerRecord
    BY <1>0, <2>1 DEF PlayersOK
  <2>3. r.alive = players[u].alive /\ r.hp = players[u].hp /\ r.timer = "over"
    BY <2>2 DEF PlayerRecord
  <2>4. Fit(r) /\ (u \notin reloaded => Felled(r))
    BY <1>0, <2>1, <2>3 DEF Fit, Felled, Vigour
  <2>5. players' = [players EXCEPT ![u] = r]
    BY <1>0, <2>1 DEF PlayersOK
  <2> HIDE DEF r
  <2>6. Vigour(players', reloaded)
    BY <1>0, <2>4, <2>5, ChangedVigour
  <2> QED
    BY <1>1, <2>1, <2>6
<1>6. CASE CaptureCheckpoint
  <2>1. /\ players' \in Woken(User) /\ reloaded' = reloaded
        /\ \A saved \in checkpoint' : saved.players =
             [u \in User |-> IF Here(u) THEN Kept(players'[u]) ELSE None]
    BY <1>6 DEF CaptureCheckpoint
  <2>2. PlayersOK(players') /\ Vigour(players', reloaded')
    BY <1>0, <2>1
  <2>3. \A u \in User : Here(u) => players'[u] # None
    BY <2>1, WokenApart DEF UnitInv, Here
  <2>4. \A u \in User : players'[u] # None => Fit(Kept(players'[u]))
    <3>1. ASSUME NEW u \in User, players'[u] # None
          PROVE  Fit(Kept(players'[u]))
      <4>1. players'[u] \in PlayerRecord /\ Fit(players'[u])
        BY <2>2, <3>1 DEF PlayersOK, Vigour
      <4> QED
        BY <4>1 DEF Fit, Kept, PlayerRecord
    <3> QED
      BY <3>1
  <2>5. \A saved \in checkpoint' : \A u \in User :
          saved.players[u] # None => Fit(saved.players[u])
    BY <2>1, <2>3, <2>4
  <2> QED
    BY <2>2, <2>5 DEF VitalInv
<1>7. CASE RestoreCheckpoint
  <2>1. PICK saved \in checkpoint :
          players' = [u \in User |-> IF saved.players[u] = None THEN None
                        ELSE [saved.players[u] EXCEPT !.potions = valueOr(@, MaxPotions)]]
    BY <1>7 DEF RestoreCheckpoint
  <2>2. /\ reloaded' = {u \in User : players'[u] # None /\ ~players'[u].alive}
        /\ checkpoint' = checkpoint
    BY <1>7 DEF RestoreCheckpoint
  <2>3. \A u \in User : players'[u] # None => Fit(players'[u])
    <3>1. ASSUME NEW u \in User, saved.players[u] # None
          PROVE  Fit([saved.players[u] EXCEPT !.potions = valueOr(@, MaxPotions)])
      <4>1. saved.players[u] \in PlayerRecord /\ Fit(saved.players[u])
        BY <3>1 DEF UnitInv, Units, PlayersOK, VitalInv
      <4> QED
        BY <4>1 DEF Fit, PlayerRecord
    <3> QED
      BY <2>1, <3>1
  <2>4. Vigour(players', reloaded')
    BY <2>2, <2>3 DEF Vigour, Felled
  <2> QED
    BY <1>1, <2>2, <2>4
<1>8. ASSUME NEW i \in todo, MoveNPC(i)
      PROVE  VitalInv'
  <2>1. PICK ps \in Woken(User) :
          \/ \E v \in User : /\ Alive(ps, v)
                             /\ players' = [ps EXCEPT ![v] = Hit(ps[v], NPCDamage)]
          \/ players' = ps
    BY <1>8 DEF MoveNPC, Weakest, Targets
  <2>2. PlayersOK(ps) /\ Vigour(ps, reloaded) /\ UNCHANGED <<checkpoint, reloaded>>
    BY <1>0, <1>8 DEF MoveNPC
  <2>3. ASSUME NEW v \in User, Alive(ps, v), players' = [ps EXCEPT ![v] = Hit(ps[v], NPCDamage)]
        PROVE  Vigour(players', reloaded)
    <3>1. ps[v] \in PlayerRecord /\ NPCDamage \in Nat /\ ps[v].alive /\ Fit(ps[v])
      BY <2>2, <2>3, UnitAssumption DEF Alive, PlayersOK, Vigour
    <3>2. Fit(Hit(ps[v], NPCDamage)) /\ Felled(Hit(ps[v], NPCDamage))
      BY <3>1, HitVital
    <3> QED
      BY <2>2, <2>3, <3>2, ChangedVigour
  <2> QED
    BY <1>1, <2>1, <2>2, <2>3
<1>9. CASE Look \/ BackgroundStart
  BY <1>0, <1>1, <1>9 DEF Look, Refresh, BackgroundStart
<1>10. CASE SpawnNPC \/ Bootstrap \/ Chest \/ Mark \/ BackgroundRound \/ UNCHANGED vars
  BY <1>0, <1>1, <1>10 DEF SpawnNPC, Bootstrap, Chest, Mark, BackgroundRound, vars
<1> QED
  BY <1>2, <1>3, <1>4, <1>5, <1>6, <1>7, <1>8, <1>9, <1>10
  DEF Next, Session, BackgroundStep

-----------------------------------------------------------------------------
(* The theorems.                                                           *)

\* An empty map satisfies the invariant.
LEMMA WorldInit == Init => WorldInv
<1> SUFFICES ASSUME Init PROVE WorldInv
  OBVIOUS
<1>1. DOMAIN npcs = {} /\ DOMAIN treasures = {} /\ IsFiniteSet({})
  BY FS_EmptySet DEF Init, NewWorld
<1>2. PlayersOK(players) /\ NPCsOK(npcs) /\ TreasuresOK(treasures)
  BY <1>1 DEF Init, NewWorld, PlayersOK, NPCsOK, TreasuresOK
<1>3. \A u \in User : ~Alive(players, u)
  BY DEF Init, NewWorld, Alive
<1>4. Apart(players, npcs) /\ Scattered(treasures)
  BY <1>1, <1>3 DEF Apart, Scattered
<1>5. TypeOK
  BY <1>2 DEF Init, NewWorld, TypeOK
<1> QED
  BY <1>1, <1>2, <1>4, <1>5 DEF Init, NewWorld, WorldInv, UnitInv, HoardInv, Units, Hoard

\* Every step preserves the invariant.
LEMMA WorldNext == WorldInv /\ [Next]_vars => WorldInv'
<1> SUFFICES ASSUME WorldInv, [Next]_vars PROVE WorldInv'
  OBVIOUS
<1>1. UnitInv' /\ HoardInv' /\ Control' /\ healthy' \in BOOLEAN /\ listed' \in BOOLEAN
  BY UnitStep, HoardStep, ControlStep, LoopStep DEF WorldInv
<1>2. TypeOK'
  BY <1>1 DEF TypeOK, UnitInv, HoardInv, Control, Units, Hoard
<1> QED
  BY <1>1, <1>2 DEF WorldInv

(* Every record of the map, in the world and in its checkpoint, is whole:  *)
(* health within its bounds, purses and potions that never go below zero,  *)
(* and only NPCs that are alive wait for their move in BackgroundStep.     *)
THEOREM WorldTypeCorrect == Spec => []TypeOK
<1>1. WorldInv => TypeOK
  BY DEF WorldInv
<1> QED
  BY <1>1, WorldInit, WorldNext, PTL DEF Spec

(* Whatever the order of walks, blows, logins, logouts, restores and steps *)
(* of the background loop, no two living units share a cell.               *)
THEOREM OneUnitPerCellAlways == Spec => []OneUnitPerCell
<1>1. WorldInv => OneUnitPerCell
  BY DEF WorldInv, UnitInv, Units, Apart, OneUnitPerCell
<1> QED
  BY <1>1, WorldInit, WorldNext, PTL DEF Spec

\* Loot and chests are piled up: no cell ever carries two treasures.
THEOREM OneTreasurePerCellAlways == Spec => []OneTreasurePerCell
<1>1. WorldInv => OneTreasurePerCell
  BY DEF WorldInv, HoardInv, Hoard, Scattered, OneTreasurePerCell
<1> QED
  BY <1>1, WorldInit, WorldNext, PTL DEF Spec

(* No step makes a treasure vanish but a restore, and after a checkpoint   *)
(* the new one that is given the same identifier.                          *)
THEOREM TreasureKeptAlways == Spec => TreasureKept
<1>1. WorldInv /\ [Next]_vars => [\A t \in DOMAIN treasures :
        \/ LiesOn(t) \/ PickedUp(t)
        \/ \E saved \in checkpoint : treasures' = saved.treasures \/ t = nextTreasure]_vars
  BY HoardStep DEF WorldInv, Accounted
<1> QED
  BY <1>1, WorldInit, WorldNext, PTL DEF Spec, TreasureKept

(* Health, life and deadline of a player agree, and whoever was felled on  *)
(* the map has a deadline at which the next refresh raises him: it is only *)
(* by being loaded that a player is down without one.                      *)
THEOREM VitalsAlways == Spec => []Vitals
<1>1. Init => VitalInv
  BY DEF Init, NewWorld, VitalInv, Vigour
<1>2. WorldInv /\ VitalInv /\ [Next]_vars => VitalInv'
  BY VitalStep DEF WorldInv
<1>3. VitalInv => Vitals
  BY DEF VitalInv, Vigour, Vitals, Here
<1> QED
  BY <1>1, <1>2, <1>3, WorldInit, WorldNext, PTL DEF Spec
=============================================================================
