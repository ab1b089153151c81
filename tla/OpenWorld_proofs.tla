-------------------------- MODULE OpenWorld_proofs --------------------------
(***************************************************************************)
(* That every variable of OpenWorld keeps its type and that a dead player  *)
(* has exactly one goroutine to raise him, for any clients and any map.    *)
(*                                                                         *)
(* The second needs that identifiers are not used again: no goroutine      *)
(* sleeps for an identifier that has not been given out (Unborn).  The     *)
(* first needs that each client has been given one at most (Numbered).     *)
(***************************************************************************)
EXTENDS OpenWorld, FiniteSetTheorems, SequenceTheorems, TLAPS

Joined == {c \in Client : pc[c] # "away"}

\* An identifier for each client who has joined, and no two the same.
Numbered ==
  /\ nextID = Cardinality(Joined) + 1
  /\ \A c \in Joined : id[c] \in 1..(nextID - 1)
  /\ \A c, d \in Joined : c # d => id[c] # id[d]
  /\ \A c \in Client \ Joined : id[c] = 0

Unborn == \A i \in DOMAIN respawns : i >= nextID => respawns[i] = 0

WorldInv == TypeOK /\ Numbered /\ Unborn /\ OneRespawnEach

-----------------------------------------------------------------------------
(* Lemmas that several steps use.                                          *)

\* The number of clients, and that it bounds the number of those who joined.
LEMMA Count ==
  ASSUME NEW S, S \subseteq Client
  PROVE  /\ Cardinality(Client) \in Nat /\ Cardinality(S) \in 0..Cardinality(Client)
         /\ \A c \in Client \ S :
              /\ Cardinality(S \cup {c}) = Cardinality(S) + 1
              /\ Cardinality(S) + 1 <= Cardinality(Client)
<1>1. Cardinality(Client) \in Nat
  BY OpenWorldAssumption, FS_CardinalityType
<1>2. \A T : T \subseteq Client =>
        IsFiniteSet(T) /\ Cardinality(T) \in Nat /\ Cardinality(T) <= Cardinality(Client)
  BY OpenWorldAssumption, FS_Subset, FS_CardinalityType
<1>3. ASSUME NEW c \in Client \ S
      PROVE  /\ Cardinality(S \cup {c}) = Cardinality(S) + 1
             /\ Cardinality(S) + 1 <= Cardinality(Client)
  <2>1. S \cup {c} \subseteq Client
    OBVIOUS
  <2>2. Cardinality(S \cup {c}) = Cardinality(S) + 1
    BY <1>2, FS_AddElement
  <2>. QED  BY <1>2, <2>1, <2>2
<1>. QED  BY <1>1, <1>2, <1>3

(* A step in which nobody comes or goes keeps the invariant, if it keeps   *)
(* what is said of players, goroutines and connections.                    *)
LEMMA NobodyComesOrGoes ==
  ASSUME WorldInv, UNCHANGED <<id, nextID>>,
         pc' \in [Client -> Pc], cast' \in [Client -> SUBSET Client],
         \A d \in Client :
           pc'[d] = pc[d] \/ {pc[d], pc'[d]} \cap {"away", "gone"} = {},
         players' \in [DOMAIN players -> PlayerRecord],
         respawns' \in [1..Cardinality(Client) -> Nat],
         left' \subseteq Client, stuck' \subseteq Client,
         Unborn', OneRespawnEach'
  PROVE  WorldInv'
<1>1. DOMAIN players' = DOMAIN players
  OBVIOUS
<1>2. \A d \in Client : Inside(d)' <=> pc'[d] \notin {"away", "gone"}
  BY <1>1 DEF WorldInv, TypeOK, Inside
<1>3. Joined' = Joined
  BY DEF Joined, WorldInv, TypeOK
<1>4. Numbered'
  BY <1>3 DEF WorldInv, Numbered
<1>5. TypeOK'
  BY <1>1, <1>2 DEF WorldInv, TypeOK, PlayerRecord, Cell, Pc
<1>. QED  BY <1>4, <1>5 DEF WorldInv

\* Who is inside has an identifier below the next.
LEMMA InsideHasRecord ==
  ASSUME WorldInv, NEW c \in Client, pc[c] \notin {"away", "gone"}
  PROVE  /\ id[c] \in DOMAIN players /\ players[id[c]] \in PlayerRecord
         /\ c \in Joined
BY DEF WorldInv, TypeOK, Inside, Joined

(* A step of a goroutine after which the same players are alive and no     *)
(* goroutine has been started keeps the invariant.                         *)
LEMMA SameAlive ==
  ASSUME WorldInv, NEW c \in Client, pc[c] \notin {"away", "gone"},
         NEW p \in Pc \ {"away", "gone"}, At(c, p),
         players' \in [DOMAIN players -> PlayerRecord],
         \A i \in DOMAIN players : players'[i].alive = players[i].alive,
         UNCHANGED <<id, nextID, respawns, clients>>,
         cast' \in [Client -> SUBSET Client]
  PROVE  WorldInv'
<1>1. Unborn'
  BY DEF WorldInv, Unborn
<1>2. OneRespawnEach'
  BY DEF WorldInv, OneRespawnEach
<1>3. pc' \in [Client -> Pc]
  BY DEF At, WorldInv, TypeOK
<1>4. \A d \in Client : pc'[d] = pc[d] \/ {pc[d], pc'[d]} \cap {"away", "gone"} = {}
  BY DEF At, WorldInv, TypeOK
<1>5. /\ respawns' \in [1..Cardinality(Client) -> Nat]
      /\ left' \subseteq Client /\ stuck' \subseteq Client
  BY DEF WorldInv, TypeOK, clients
<1>. QED  BY <1>1, <1>2, <1>3, <1>4, <1>5, NobodyComesOrGoes

-----------------------------------------------------------------------------
(* One lemma for each kind of step.                                        *)

\* In the first state nobody has come.
LEMMA InitOK == Init => WorldInv
<1>. SUFFICES ASSUME Init PROVE WorldInv
  OBVIOUS
<1>. USE DEF Init
<1>1. Joined = {} /\ Cardinality(Joined) = 0
  BY FS_EmptySet DEF Joined
<1>2. DOMAIN players = {} /\ players \in [DOMAIN players -> PlayerRecord]
  OBVIOUS
<1>3. TypeOK
  BY <1>2, Count DEF TypeOK, Pc, Inside
<1>4. Numbered /\ Unborn /\ OneRespawnEach
  BY <1>1, <1>2 DEF Numbered, Unborn, OneRespawnEach
<1>. QED  BY <1>3, <1>4 DEF WorldInv

\* A client who breaks off or stops reading touches nobody's player.
LEMMA ClientStep ==
  ASSUME WorldInv, NEW c \in Client, Hangup(c) \/ StopReading(c)
  PROVE  WorldInv'
<1>1. /\ UNCHANGED <<id, nextID, pc, cast, players, respawns>>
      /\ left' \subseteq Client /\ stuck' \subseteq Client
  BY DEF Hangup, StopReading, world, WorldInv, TypeOK
<1>2. Unborn' /\ OneRespawnEach'
  BY <1>1 DEF WorldInv, Unborn, OneRespawnEach
<1>. QED  BY <1>1, <1>2, NobodyComesOrGoes DEF WorldInv, TypeOK

\* The player of the new connection has an identifier nobody has had.
LEMMA AddStep ==
  ASSUME WorldInv, NEW c \in Client, AddPlayer(c)
  PROVE  WorldInv'
<1>. USE DEF AddPlayer, Joins, At
<1>1. c \in Client \ Joined
  BY DEF Joined
<1>2. PICK p \in Cell : players' = Put(nextID, Fresh(p))
  OBVIOUS
<1>3. Fresh(p) \in PlayerRecord /\ Fresh(p).alive
  BY OpenWorldAssumption DEF Fresh, PlayerRecord
<1>4. /\ pc' = [pc EXCEPT ![c] = "tell"] /\ pc' \in [Client -> Pc]
      /\ id' = [id EXCEPT ![c] = nextID] /\ nextID' = nextID + 1
      /\ UNCHANGED <<cast, respawns, left, stuck>>
  BY DEF WorldInv, TypeOK, Pc, clients
<1>5. Joined' = Joined \cup {c}
  BY <1>4 DEF Joined, WorldInv, TypeOK
<1>6. nextID \in 1..Cardinality(Client) /\ nextID' = Cardinality(Joined') + 1
  <2>1. Joined \subseteq Client
    BY DEF Joined
  <2>. QED  BY <1>1, <1>4, <1>5, <2>1, Count DEF WorldInv, Numbered
<1>7. Numbered'
  <2>1. id \in [Client -> 0..(nextID - 1)]
    BY DEF WorldInv, TypeOK
  <2>2. \A d \in Joined : d # c /\ id'[d] = id[d] /\ id[d] \in 1..(nextID - 1)
    BY <1>1, <1>4, <2>1 DEF WorldInv, Numbered, Joined
  <2>3. id'[c] = nextID
    BY <1>4, <2>1
  <2>4. \A d \in Joined' : id'[d] \in 1..(nextID' - 1)
    BY <1>4, <1>5, <1>6, <2>2, <2>3, Count
  <2>5. \A d, e \in Joined' : d # e => id'[d] # id'[e]
    BY <1>5, <1>6, <2>2, <2>3, Count DEF WorldInv, Numbered
  <2>6. \A d \in Client \ Joined' : id'[d] = 0
    BY <1>4, <1>5, <2>1 DEF WorldInv, Numbered
  <2>. QED  BY <1>6, <2>4, <2>5, <2>6 DEF Numbered
<1>8. /\ DOMAIN players' = DOMAIN players \cup {nextID}
      /\ players'[nextID] = Fresh(p) /\ nextID \notin DOMAIN players
      /\ \A i \in DOMAIN players : players'[i] = players[i]
  BY <1>2, <1>6, Count DEF Put, WorldInv, TypeOK
<1>9. TypeOK'
  <2>1. players' \in [DOMAIN players' -> PlayerRecord]
    BY <1>2, <1>3, <1>8 DEF Put, WorldInv, TypeOK
  <2>2. DOMAIN players' \subseteq 1..(nextID' - 1)
    BY <1>4, <1>6, <1>8, Count DEF WorldInv, TypeOK
  <2>3. nextID' \in 1..(Cardinality(Client) + 1) /\ id' \in [Client -> 0..(nextID' - 1)]
    BY <1>4, <1>6, Count DEF WorldInv, TypeOK
  <2>4. \A d \in Client : Inside(d)' <=> pc'[d] \notin {"away", "gone"}
    <3>1. Inside(c)' /\ pc'[c] = "tell"
      BY <1>4, <1>8 DEF Inside, WorldInv, TypeOK
    <3>2. ASSUME NEW d \in Client \ {c} PROVE (Inside(d)' <=> Inside(d)) /\ pc'[d] = pc[d]
      <4>1. id'[d] = id[d] /\ id[d] # nextID
        BY <1>4, <1>6, Count DEF WorldInv, TypeOK
      <4>. QED  BY <1>4, <1>8, <4>1 DEF Inside, WorldInv, TypeOK
    <3>. QED  BY <3>1, <3>2 DEF WorldInv, TypeOK
  <2>. QED
    BY <1>4, <2>1, <2>2, <2>3, <2>4 DEF WorldInv, TypeOK, PlayerRecord, Cell, Pc
<1>10. Unborn'
  BY <1>4, <1>6, Count DEF WorldInv, TypeOK, Unborn
<1>11. OneRespawnEach'
  <2>1. respawns[nextID] = 0
    BY <1>6, Count DEF WorldInv, TypeOK, Unborn
  <2>. QED  BY <1>3, <1>4, <1>8, <2>1 DEF WorldInv, OneRespawnEach
<1>. QED  BY <1>7, <1>9, <1>10, <1>11 DEF WorldInv

\* What a goroutine does besides the commands, as long as the player stays.
LEMMA TalkStep ==
  ASSUME WorldInv, NEW c \in Client, Collect(c) \/ Send(c) \/ Quits(c) \/ Miss(c)
  PROVE  WorldInv'
<1>1. /\ pc[c] \notin {"away", "gone"}
      /\ \E p \in Pc \ {"away", "gone"} : At(c, p)
  BY DEF Collect, Send, Quits, Miss, Acts, Pc
<1>2. UNCHANGED <<id, world, clients>>
  BY DEF Collect, Send, Quits, Miss
<1>3. cast' \in [Client -> SUBSET Client]
  BY DEF Collect, Send, Quits, Miss, WorldInv, TypeOK
<1>4. players \in [DOMAIN players -> PlayerRecord]
  BY DEF WorldInv, TypeOK
<1>. QED  BY <1>1, <1>2, <1>3, <1>4, SameAlive DEF world

\* The player of the one who leaves goes, and no other's.
LEMMA RemoveStep ==
  ASSUME WorldInv, NEW c \in Client, RemovePlayer(c)
  PROVE  WorldInv'
<1>. USE DEF RemovePlayer, At
<1>1. /\ pc' = [pc EXCEPT ![c] = "gone"] /\ pc' \in [Client -> Pc]
      /\ UNCHANGED <<cast, id, nextID, respawns, left, stuck>>
  BY DEF WorldInv, TypeOK, Pc, clients
<1>2. /\ DOMAIN players' = DOMAIN players \ {id[c]}
      /\ players' \in [DOMAIN players' -> PlayerRecord]
      /\ \A i \in DOMAIN players' : players'[i] = players[i]
  BY DEF WorldInv, TypeOK
<1>3. Joined' = Joined /\ c \in Joined
  BY <1>1 DEF Joined, WorldInv, TypeOK
<1>4. Numbered' /\ Unborn' /\ OneRespawnEach'
  BY <1>1, <1>2, <1>3 DEF WorldInv, Numbered, Unborn, OneRespawnEach
<1>5. \A d \in Client : Inside(d)' <=> pc'[d] \notin {"away", "gone"}
  <2>1. ~Inside(c)' /\ pc'[c] = "gone"
    BY <1>1, <1>2 DEF Inside, WorldInv, TypeOK
  <2>2. ASSUME NEW d \in Client \ {c} PROVE (Inside(d)' <=> Inside(d)) /\ pc'[d] = pc[d]
    <3>1. id[d] # id[c]
      BY <1>3 DEF WorldInv, Numbered
    <3>. QED  BY <1>1, <1>2, <3>1 DEF Inside, WorldInv, TypeOK
  <2>. QED  BY <2>1, <2>2 DEF WorldInv, TypeOK
<1>6. TypeOK'
  BY <1>1, <1>2, <1>5 DEF WorldInv, TypeOK, PlayerRecord, Cell, Pc
<1>. QED  BY <1>4, <1>6 DEF WorldInv

\* A walk, a wound and a potion leave everybody as alive as he was.
LEMMA WoundStep ==
  ASSUME WorldInv, NEW c \in Client, MovePlayer(c) \/ Wound(c) \/ HealPlayer(c)
  PROVE  WorldInv'
<1>1. /\ pc[c] \notin {"away", "gone"} /\ At(c, "tell") /\ "tell" \in Pc \ {"away", "gone"}
      /\ UNCHANGED <<id, nextID, respawns, clients>> /\ cast' \in [Client -> SUBSET Client]
  BY DEF MovePlayer, Wound, HealPlayer, Acts, Pc, WorldInv, TypeOK
<1>2. ASSUME NEW i \in DOMAIN players, NEW r \in PlayerRecord, r.alive = players[i].alive,
             players' = [players EXCEPT ![i] = r]
      PROVE  WorldInv'
  <2>1. players \in [DOMAIN players -> PlayerRecord]
    BY DEF WorldInv, TypeOK
  <2>2. /\ players' \in [DOMAIN players -> PlayerRecord]
        /\ \A j \in DOMAIN players : players'[j].alive = players[j].alive
    BY <1>2, <2>1
  <2>. QED  BY <1>1, <2>2, SameAlive
<1>3. id[c] \in DOMAIN players /\ players[id[c]] \in PlayerRecord
  BY <1>1, InsideHasRecord
<1>4. CASE MovePlayer(c)
  <2>1. PICK q \in Cell : players' = [players EXCEPT ![id[c]].pos = q]
    BY <1>3, <1>4 DEF MovePlayer, PlayerRecord
  <2>2. [players[id[c]] EXCEPT !.pos = q] \in PlayerRecord
    BY <1>3 DEF PlayerRecord
  <2>3. [players[id[c]] EXCEPT !.pos = q].alive = players[id[c]].alive
    BY <1>3 DEF PlayerRecord
  <2>. QED  BY <1>2, <1>3, <2>1, <2>2, <2>3
<1>5. CASE Wound(c)
  <2>1. PICK j \in DOMAIN players :
          /\ players[j].hp > AttackDmg
          /\ players' = [players EXCEPT ![j].hp = players[j].hp - AttackDmg]
    BY <1>5 DEF Wound, Targets, InRange
  <2>2. players[j] \in PlayerRecord
    BY DEF WorldInv, TypeOK
  <2>3. players[j].hp - AttackDmg \in 0..InitHP
    BY <2>1, <2>2, OpenWorldAssumption DEF PlayerRecord
  <2>4. /\ [players[j] EXCEPT !.hp = players[j].hp - AttackDmg] \in PlayerRecord
        /\ [players[j] EXCEPT !.hp = players[j].hp - AttackDmg].alive = players[j].alive
    BY <2>2, <2>3 DEF PlayerRecord
  <2>. QED  BY <1>2, <2>1, <2>4
<1>6. CASE HealPlayer(c)
  <2>. DEFINE me == players[id[c]]
              r  == [me EXCEPT !.potions = me.potions - 1, !.hp = Healed(me.hp)]
  <2>1. CASE me.potions = 0 /\ UNCHANGED players
    <3>1. players \in [DOMAIN players -> PlayerRecord]
      BY DEF WorldInv, TypeOK
    <3>. QED  BY <1>1, <2>1, <3>1, SameAlive
  <2>2. CASE me.potions > 0 /\ players' = [players EXCEPT ![id[c]] = r]
    <3>1. me.potions - 1 \in 0..MaxPotions /\ Healed(me.hp) \in 0..InitHP
      BY <1>3, <2>2, OpenWorldAssumption DEF PlayerRecord, Healed
    <3>2. r \in PlayerRecord /\ r.alive = me.alive
      BY <1>3, <3>1 DEF PlayerRecord
    <3>. QED  BY <1>2, <1>3, <2>2, <3>2
  <2>. QED  BY <1>3, <1>6, <2>1, <2>2 DEF HealPlayer, PlayerRecord
<1>. QED  BY <1>4, <1>5, <1>6

\* Only who is alive is killed, and one goroutine starts.
LEMMA KillStep ==
  ASSUME WorldInv, NEW c \in Client, Kill(c)
  PROVE  WorldInv'
<1>1. /\ pc[c] \notin {"away", "gone"} /\ At(c, "tell")
      /\ UNCHANGED <<cast, id, nextID, clients>>
  BY DEF Kill, Acts
<1>2. PICK j \in DOMAIN players :
        /\ players[j].alive
        /\ players' = [players EXCEPT ![j].hp = 0, ![j].alive = FALSE]
        /\ respawns' = [respawns EXCEPT ![j] = respawns[j] + 1]
  BY DEF Kill, Targets, InRange
<1>3. players \in [DOMAIN players -> PlayerRecord]
  BY DEF WorldInv, TypeOK
<1>. DEFINE r == [players[j] EXCEPT !.hp = 0, !.alive = FALSE]
<1>4. r \in PlayerRecord /\ ~r.alive /\ players' = [players EXCEPT ![j] = r]
  <2>1. players[j] \in PlayerRecord /\ 0 \in 0..InitHP
    BY <1>3, OpenWorldAssumption
  <2>2. r \in PlayerRecord /\ ~r.alive
    BY <2>1 DEF PlayerRecord
  <2>3. DOMAIN players' = DOMAIN players /\ players'[j] = r
    BY <1>2, <1>3
  <2>4. \A i \in DOMAIN players \ {j} : players'[i] = players[i]
    BY <1>2, <1>3
  <2>5. players' = [i \in DOMAIN players |-> players'[i]]
    BY <1>2
  <2>. QED  BY <1>3, <2>2, <2>3, <2>4, <2>5
<1>5. /\ players' \in [DOMAIN players -> PlayerRecord] /\ ~players'[j].alive
      /\ \A i \in DOMAIN players \ {j} : players'[i] = players[i]
  BY <1>3, <1>4
<1>6. respawns \in [1..Cardinality(Client) -> Nat] /\ j \in 1..Cardinality(Client) /\ j < nextID
  BY Count DEF WorldInv, TypeOK
<1>7. /\ respawns' \in [1..Cardinality(Client) -> Nat] /\ respawns'[j] = respawns[j] + 1
      /\ \A i \in 1..Cardinality(Client) : i # j => respawns'[i] = respawns[i]
  BY <1>2, <1>6
<1>8. respawns[j] = 0
  BY <1>2 DEF WorldInv, OneRespawnEach
<1>9. Unborn'
  <2>1. nextID \in Int /\ j \in Int /\ nextID' = nextID
    BY <1>1, <1>6, Count DEF WorldInv, TypeOK
  <2>2. ASSUME NEW i \in 1..Cardinality(Client), i >= nextID PROVE respawns'[i] = 0
    BY <1>6, <1>7, <2>1, <2>2 DEF WorldInv, Unborn
  <2>. QED  BY <1>7, <2>1, <2>2 DEF Unborn
<1>10. OneRespawnEach'
  <2>1. \A i \in DOMAIN players : i \in 1..Cardinality(Client)
    BY Count DEF WorldInv, TypeOK
  <2>. QED  BY <1>5, <1>7, <1>8, <2>1 DEF WorldInv, OneRespawnEach
<1>11. /\ pc' \in [Client -> Pc] /\ cast' \in [Client -> SUBSET Client]
       /\ left' \subseteq Client /\ stuck' \subseteq Client
       /\ \A d \in Client : pc'[d] = pc[d] \/ {pc[d], pc'[d]} \cap {"away", "gone"} = {}
  BY <1>1 DEF At, Pc, WorldInv, TypeOK, clients
<1>. QED  BY <1>1, <1>5, <1>7, <1>9, <1>10, <1>11, NobodyComesOrGoes

\* A goroutine that wakes up raises the one it was started for, if he is there.
LEMMA RespawnStep ==
  ASSUME WorldInv, NEW i \in DOMAIN respawns, Respawn(i)
  PROVE  WorldInv'
<1>1. /\ respawns[i] > 0 /\ respawns' = [respawns EXCEPT ![i] = respawns[i] - 1]
      /\ UNCHANGED <<pc, cast, id, nextID, left, stuck>>
  BY DEF Respawn, clients
<1>2. respawns \in [1..Cardinality(Client) -> Nat] /\ i \in 1..Cardinality(Client)
  BY DEF WorldInv, TypeOK
<1>3. /\ respawns' \in [1..Cardinality(Client) -> Nat] /\ respawns'[i] = respawns[i] - 1
      /\ \A j \in 1..Cardinality(Client) : j # i => respawns'[j] = respawns[j]
  BY <1>1, <1>2
<1>4. players \in [DOMAIN players -> PlayerRecord]
  BY DEF WorldInv, TypeOK
<1>5. Unborn'
  BY <1>1, <1>2, <1>3 DEF WorldInv, Unborn
<1>6. \A j \in DOMAIN players : j \in 1..Cardinality(Client)
  BY Count DEF WorldInv, TypeOK
<1>7. players' \in [DOMAIN players -> PlayerRecord] /\ OneRespawnEach'
  <2>1. CASE i \notin DOMAIN players
    <3>1. UNCHANGED players
      BY <2>1 DEF Respawn
    <3>. QED  BY <1>3, <1>4, <1>6, <2>1, <3>1 DEF WorldInv, OneRespawnEach
  <2>2. CASE i \in DOMAIN players
    <3>1. PICK p \in Cell : players' = Put(i, Fresh(p))
      BY <2>2 DEF Respawn
    <3>2. Fresh(p) \in PlayerRecord /\ Fresh(p).alive
      BY OpenWorldAssumption DEF Fresh, PlayerRecord
    <3>3. /\ players' \in [DOMAIN players -> PlayerRecord] /\ players'[i].alive
          /\ \A j \in DOMAIN players \ {i} : players'[j] = players[j]
      BY <1>4, <2>2, <3>1, <3>2 DEF Put
    <3>4. respawns'[i] = 0
      BY <1>1, <1>2, <1>3, <2>2 DEF WorldInv, OneRespawnEach
    <3>. QED  BY <1>3, <1>6, <3>3, <3>4 DEF WorldInv, OneRespawnEach
  <2>. QED  BY <2>1, <2>2
<1>8. /\ pc' \in [Client -> Pc] /\ cast' \in [Client -> SUBSET Client]
      /\ left' \subseteq Client /\ stuck' \subseteq Client
  BY <1>1 DEF WorldInv, TypeOK
<1>. QED  BY <1>1, <1>3, <1>5, <1>7, <1>8, NobodyComesOrGoes

-----------------------------------------------------------------------------
\* The invariant holds at every moment.
LEMMA WorldInvAlways == Spec => []WorldInv
<1>1. WorldInv /\ [Next]_vars => WorldInv'
  <2>. SUFFICES ASSUME WorldInv, [Next]_vars PROVE WorldInv'
    OBVIOUS
  <2>1. ASSUME NEW c \in Client,
               AddPlayer(c) \/ Hangup(c) \/ StopReading(c) \/ Command(c) \/ GoesOn(c)
        PROVE  WorldInv'
    BY <2>1, AddStep, ClientStep, TalkStep, RemoveStep, WoundStep, KillStep
       DEF Command, GoesOn
  <2>2. CASE \E i \in DOMAIN respawns : Respawn(i)
    BY <2>2, RespawnStep
  <2>3. CASE UNCHANGED vars
    <3>1. UNCHANGED <<id, nextID, pc, cast, players, respawns, left, stuck>>
      BY <2>3 DEF vars, world, clients
    <3>2. Unborn' /\ OneRespawnEach'
      BY <3>1 DEF WorldInv, Unborn, OneRespawnEach
    <3>. QED  BY <3>1, <3>2, NobodyComesOrGoes DEF WorldInv, TypeOK
  <2>. QED  BY <2>1, <2>2, <2>3 DEF Next
<1>. QED  BY InitOK, <1>1, PTL DEF Spec

(* Every variable keeps its type, HP stays within its bounds, nobody walks *)
(* off the map and a client has his player until his goroutine is done     *)
(* (world.go of Lab 2), for any clients, map and rules.                    *)
THEOREM OpenWorldTypeCorrect == Spec => []TypeOK
BY WorldInvAlways, PTL DEF WorldInv

(* A dead player has one goroutine that will raise him and a living one    *)
(* none (AttackPlayer, AddPlayer and RemovePlayer), for any clients.       *)
THEOREM OneRespawnEachAlways == Spec => []OneRespawnEach
BY WorldInvAlways, PTL DEF WorldInv
=============================================================================
