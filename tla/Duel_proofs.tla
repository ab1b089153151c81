---------------------------- MODULE Duel_proofs ----------------------------
(***************************************************************************)
(* That every variable of Duel keeps its type and that the duel is won     *)
(* fairly, for any clients, any map and any strength of blows and potions. *)
(*                                                                         *)
(* TypeOK is not inductive: that HP stays the fighters' own needs that the *)
(* turns begin only when two have joined and that nobody is dead before    *)
(* the server is done.                                                     *)
(***************************************************************************)
EXTENDS Duel, SequenceTheorems, TLAPS

Lobby == {"accept", "join"}

\* How far the server is says who has joined and that there is no winner yet.
Stages ==
  /\ pc \in Lobby => Len(players) <= 1
  /\ pc \notin Lobby => Len(players) = 2
  /\ pc = "join" => asked \in Client
  /\ pc # "exit" => winner = Nobody /\ \A i \in {1, 2} : fighter[i].hp > 0

DuelInv == TypeOK /\ Stages /\ WonFairly

Fighter == [pos : Cell, hp : 0..InitHP, potions : 0..MaxPotions]

\* The first state is well typed, and nobody has won.
LEMMA InitOK == Init => DuelInv
<1>. SUFFICES ASSUME Init PROVE DuelInv
  OBVIOUS
<1>. USE DuelAssumption DEF Init
<1>1. \A i \in {1, 2} : NewPlayer(i) \in Fighter /\ NewPlayer(i).hp > 0
  BY DEF NewPlayer, Start, Fighter, Cell
<1>2. fighter \in [{1, 2} -> Fighter] /\ \A i \in {1, 2} : fighter[i].hp > 0
  BY <1>1
<1>3. TypeOK
  BY <1>2 DEF TypeOK, Stage, Fighter
<1>4. Stages /\ WonFairly
  BY <1>2 DEF Stages, WonFairly, Lobby
<1>. QED  BY <1>3, <1>4 DEF DuelInv

\* What a client does leaves the server and the duel alone.
LEMMA ClientStep ==
  ASSUME DuelInv, NEW c \in Client,
         Dial(c) \/ Greet(c) \/ Type(c) \/ Garble(c) \/ Quit(c) \/ ReadResult(c) \/ Reset(c)
  PROVE  DuelInv'
<1>. USE DEF DuelInv, server, duel
<1>1. CASE Dial(c)
  <2>1. backlog' \in Seq(Client)
    BY <1>1 DEF Dial, TypeOK
  <2>2. stage' \in [Client -> Stage] /\ \A d \in Client : Broken(d) => Broken(d)'
    BY <1>1 DEF Dial, TypeOK, Stage, Left, Broken
  <2>3. TypeOK'
    BY <1>1, <2>1, <2>2 DEF Dial, TypeOK, Other, Cell
  <2>4. Stages' /\ WonFairly'
    BY <1>1 DEF Dial, Stages, WonFairly
  <2>. QED  BY <2>3, <2>4
<1>2. CASE Greet(c)
  BY <1>2 DEF Greet, TypeOK, Stages, WonFairly, Stage, Other, Cell
<1>3. CASE Type(c)
  <2>1. typed' \in [Client -> 0..MaxAhead]
    <3>1. typed[c] + 1 \in 0..MaxAhead
      <4>1. typed[c] \in 0..MaxAhead /\ typed[c] < MaxAhead
        BY <1>3 DEF Type, TypeOK
      <4>2. MaxAhead \in Nat
        BY DuelAssumption
      <4>. QED  BY <4>1, <4>2
    <3>. QED  BY <1>3, <3>1 DEF Type, TypeOK
  <2>2. TypeOK'
    BY <1>3, <2>1 DEF Type, TypeOK, Other, Cell
  <2>3. Stages' /\ WonFairly'
    BY <1>3 DEF Type, Stages, WonFairly, Left, Broken
  <2>. QED  BY <2>2, <2>3
<1>4. CASE Quit(c)
  BY <1>4 DEF Quit, Joined, Left, Broken, TypeOK, Stages, WonFairly, Stage, Other, Cell
<1>7. CASE Garble(c)
  BY <1>7 DEF Garble, Left, Broken, TypeOK, Stages, WonFairly, Stage, Other, Cell
<1>5. CASE ReadResult(c)
  BY <1>5 DEF ReadResult, TypeOK, Stages, WonFairly, Left, Broken, Other, Cell
<1>6. CASE Reset(c)
  BY <1>6 DEF Reset, TypeOK, Stages, WonFairly, Left, Broken, Other, Cell
<1>. QED  BY <1>1, <1>2, <1>3, <1>4, <1>5, <1>6, <1>7

\* In the lobby the duel has not begun: nobody has been hurt.
LEMMA LobbyStep ==
  ASSUME DuelInv, Accept \/ Joins \/ Refused \/ Announce
  PROVE  DuelInv'
<1>. USE DEF DuelInv, duel, Lobby
<1>1. CASE Accept
  BY <1>1 DEF Accept, TypeOK, Stages, WonFairly, Other, Cell
<1>2. CASE Joins
  <2>1. players \in Seq(Client) /\ asked \in Client /\ Len(players) <= 1
    BY <1>2 DEF Joins, TypeOK, Stages
  <2>2. players' \in Seq(Client) /\ Len(players') = Len(players) + 1
    BY <1>2, <2>1, AppendProperties DEF Joins
  <2>. Len(players) \in Nat
    BY <2>1, LenProperties
  <2>3. \A i \in {1, 2} : fighter[i].hp # 0
    <3>1. \A i \in {1, 2} : fighter[i].hp \in 0..InitHP
      BY DEF TypeOK
    <3>2. \A i \in {1, 2} : fighter[i].hp > 0
      BY <1>2 DEF Joins, Stages
    <3>. QED  BY <3>1, <3>2
  <2>4. /\ pc' \in {"turn", "accept"} /\ asked' = Nobody
        /\ UNCHANGED <<backlog, stage, typed, fighter, turn, winner, result>>
    BY <1>2 DEF Joins
  <2>5. Len(players') <= 2
    BY <2>1, <2>2
  <2>6. TypeOK'
    <3>1. /\ asked' \in Client \cup {Nobody} /\ players' \in Seq(Client) /\ Len(players') <= 2
          /\ pc' \in {"accept", "join", "turn", "receive", "exit"}
      BY <2>2, <2>4, <2>5
    <3>2. (fighter \in [{1, 2} -> [pos : Cell, hp : 0..InitHP, potions : 0..MaxPotions]])'
      BY <2>4 DEF TypeOK, Cell
    <3>3. \A i \in {1, 2} : ~(fighter'[i].hp = 0)
      BY <2>3, <2>4
    <3>. QED  BY <2>4, <3>1, <3>2, <3>3 DEF TypeOK
  <2>7. pc' = "turn" <=> Len(players') = 2
    BY <1>2 DEF Joins
  <2>8. Stages' /\ WonFairly'
    <3>1. winner = Nobody /\ \A i \in {1, 2} : fighter[i].hp > 0
      BY <1>2 DEF Joins, Stages
    <3>2. pc' = "accept" => Len(players') <= 1
      <4>1. Len(players') # 2 => Len(players) = 0
        BY <2>1, <2>2
      <4>. QED  BY <2>2, <2>4, <2>7, <4>1
    <3>3. winner' = Nobody /\ \A i \in {1, 2} : fighter'[i].hp > 0
      BY <2>4, <3>1
    <3>4. pc' \in {"turn", "accept"} /\ (pc' = "turn" => Len(players') = 2)
      BY <2>4, <2>7
    <3>5. Stages'
      BY <3>2, <3>3, <3>4 DEF Stages
    <3>. QED  BY <2>4, <3>5 DEF WonFairly
  <2>. QED  BY <2>6, <2>8
<1>3. CASE Refused
  BY <1>3 DEF Refused, TypeOK, Stages, WonFairly, Other, Cell
<1>4. CASE Announce
  BY <1>4 DEF Announce, TypeOK, Stages, WonFairly, Other, Cell
<1>. QED  BY <1>1, <1>2, <1>3, <1>4

\* Both fighters are clients, and the one who is to move is a fighter.
LEMMA TwoFighters ==
  ASSUME DuelInv, pc = "receive"
  PROVE  /\ turn \in {1, 2} /\ Other(turn) \in {1, 2} \ {turn}
         /\ \A i \in {1, 2} : players[i] \in Client
         /\ fighter \in [{1, 2} -> Fighter]
         /\ winner = Nobody /\ \A i \in {1, 2} : fighter[i].hp > 0
<1>1. turn \in {1, 2} /\ Other(turn) \in {1, 2} \ {turn}
  BY DEF DuelInv, TypeOK, Other
<1>2. players \in Seq(Client) /\ Len(players) = 2
  BY DEF DuelInv, TypeOK, Stages, Lobby
<1>3. fighter \in [{1, 2} -> Fighter]
  BY DEF DuelInv, TypeOK, Fighter
<1>4. winner = Nobody /\ \A i \in {1, 2} : fighter[i].hp > 0
  BY DEF DuelInv, Stages
<1>5. \A i \in {1, 2} : players[i] \in Client
  BY <1>2, ElementOfSeq
<1>. QED  BY <1>1, <1>3, <1>4, <1>5

\* A command is one that the client had typed.
LEMMA OneLess ==
  ASSUME DuelInv, Receives
  PROVE  typed' \in [Client -> 0..MaxAhead]
<1>1. Cur \in Client
  BY TwoFighters DEF Receives, Cur
<1>2. typed \in [Client -> 0..MaxAhead]
  BY DEF DuelInv, TypeOK
<1>3. typed[Cur] - 1 \in 0..MaxAhead
  BY <1>1, <1>2, DuelAssumption DEF Receives
<1>. QED  BY <1>1, <1>2, <1>3 DEF Receives

\* A command that nobody dies of gives the turn to the other.
LEMMA TurnStep ==
  ASSUME DuelInv, Receives, NextTurn,
         fighter' \in [{1, 2} -> Fighter], \A i \in {1, 2} : fighter'[i].hp > 0
  PROVE  DuelInv'
<1>1. turn' \in {1, 2} /\ pc' = "turn"
  BY TwoFighters DEF Receives, NextTurn
<1>2. fighter' \in [{1, 2} -> [pos : Cell, hp : 0..InitHP, potions : 0..MaxPotions]]'
  BY DEF Fighter, Cell
<1>3. TypeOK'
  <2>1. UNCHANGED <<asked, players, backlog, stage, winner, result>>
    BY DEF Receives, NextTurn
  <2>2. TypeOK
    BY DEF DuelInv
  <2>. QED  BY <1>1, <1>2, <2>1, <2>2, OneLess DEF TypeOK
<1>4. Stages' /\ WonFairly'
  BY <1>1, TwoFighters DEF Receives, NextTurn, DuelInv, Stages, WonFairly, Lobby
<1>. QED  BY <1>3, <1>4 DEF DuelInv

\* Whoever the server names the winner is alive; the other one explains why.
LEMMA EndStep ==
  ASSUME DuelInv, pc = "receive", NEW i \in {1, 2}, GameOver(i),
         UNCHANGED <<asked, players, backlog, stage, turn>>,
         typed' \in [Client -> 0..MaxAhead],
         fighter' \in [{1, 2} -> Fighter], fighter'[i].hp > 0,
         \/ fighter'[Other(i)].hp = 0 /\ turn = i
         \/ Broken(players[Other(i)]) /\ turn = Other(i)
  PROVE  DuelInv'
<1>1. Other(i) \in {1, 2} /\ Other(Other(i)) = i
  BY DEF Other
<1>2. winner' = players[i] /\ players[i] \in Client
  BY TwoFighters DEF GameOver
<1>3. result' \in [Client -> {"none", "sent", "read", "lost"}]
  BY DEF GameOver, DuelInv, TypeOK
<1>4. \A j \in {1, 2} : fighter'[j].hp = 0 => winner' = players[Other(j)]
  BY <1>1, <1>2 DEF Other
<1>5. TypeOK'
  BY <1>2, <1>3, <1>4 DEF GameOver, DuelInv, TypeOK, Fighter, Other, Cell
<1>6. WonFairly'
  BY <1>1, <1>2 DEF GameOver, WonFairly, Left, Broken, Other
<1>7. Stages'
  BY DEF GameOver, DuelInv, Stages, Lobby
<1>. QED  BY <1>5, <1>6, <1>7 DEF DuelInv

LEMMA MoveStep ==
  ASSUME DuelInv, Move PROVE DuelInv'
<1>1. fighter' \in [{1, 2} -> Fighter] /\ \A i \in {1, 2} : fighter'[i].hp > 0
  BY TwoFighters DEF Move, Receives, Fighter
<1>. QED  BY <1>1, TurnStep DEF Move

LEMMA HealStep ==
  ASSUME DuelInv, Heal PROVE DuelInv'
<1>1. fighter' \in [{1, 2} -> Fighter] /\ \A i \in {1, 2} : fighter'[i].hp > 0
  BY TwoFighters, DuelAssumption DEF Heal, Receives, Fighter
<1>. QED  BY <1>1, TurnStep DEF Heal

LEMMA AttackStep ==
  ASSUME DuelInv, Attack PROVE DuelInv'
<1>. USE DEF Attack
<1>1. pc = "receive" /\ Receives
  BY DEF Receives
<1>2. \A hp \in 0..InitHP : Wounded(hp) \in 0..InitHP
  BY DuelAssumption DEF Wounded
<1>3. fighter' \in [{1, 2} -> Fighter] /\ fighter'[turn] = fighter[turn]
  BY <1>1, <1>2, TwoFighters DEF Fighter
<1>4. CASE fighter'[Other(turn)].hp > 0 /\ NextTurn
  <2>1. \A i \in {1, 2} : fighter'[i].hp > 0
    BY <1>1, <1>3, <1>4, TwoFighters DEF Other
  <2>. QED  BY <1>1, <1>3, <1>4, <2>1, TurnStep
<1>5. CASE fighter'[Other(turn)].hp <= 0 /\ GameOver(turn) /\ UNCHANGED turn
  <2>1. typed' \in [Client -> 0..MaxAhead]
    BY <1>1, OneLess
  <2>2. fighter'[Other(turn)].hp = 0
    BY <1>1, <1>3, <1>5, TwoFighters DEF Fighter
  <2>3. fighter'[turn].hp > 0
    BY <1>1, <1>3, TwoFighters
  <2>. QED  BY <1>1, <1>3, <1>5, <2>1, <2>2, <2>3, TwoFighters, EndStep DEF Receives
<1>. QED  BY <1>4, <1>5

LEMMA DropsStep ==
  ASSUME DuelInv, Drops PROVE DuelInv'
<1>. USE DEF Drops
<1>1. Other(turn) \in {1, 2} /\ Other(Other(turn)) = turn
  BY TwoFighters DEF Other
<1>2. Broken(players[Other(Other(turn))])
  BY <1>1 DEF Cur
<1>3. fighter'[Other(turn)].hp > 0 /\ fighter' \in [{1, 2} -> Fighter]
  BY <1>1, TwoFighters
<1>4. typed' \in [Client -> 0..MaxAhead]
  BY DEF DuelInv, TypeOK
<1>. QED  BY <1>1, <1>2, <1>3, <1>4, EndStep

\* The invariant holds at every moment.
LEMMA DuelInvAlways == Spec => []DuelInv
<1>1. DuelInv /\ [Next]_vars => DuelInv'
  <2>. SUFFICES ASSUME DuelInv, [Next]_vars PROVE DuelInv'
    OBVIOUS
  <2>1. CASE Serve
    BY <2>1, LobbyStep, MoveStep, AttackStep, HealStep, DropsStep DEF Serve
  <2>2. CASE \E c \in Client : Dial(c) \/ Greet(c) \/ Type(c) \/ Garble(c) \/ Quit(c) \/ ReadResult(c) \/ Reset(c)
    BY <2>2, ClientStep
  <2>3. CASE UNCHANGED vars
    BY <2>3 DEF vars, server, duel, DuelInv, TypeOK, Stages, WonFairly, Left, Broken, Other, Cell
  <2>. QED  BY <2>1, <2>2, <2>3 DEF Next
<1>. QED  BY InitOK, <1>1, PTL DEF Spec

(* Nobody leaves the map, HP stays within its bounds and only the one who  *)
(* has just been killed has none (game.go), whatever the rules' constants. *)
THEOREM DuelTypeCorrect == Spec => []TypeOK
BY DuelInvAlways, PTL DEF DuelInv

(* The winner of a duel lives, and the loser is dead or has left and was   *)
(* to move (game.Run), whatever clients do and when.                       *)
THEOREM WonFairlyAlways == Spec => []WonFairly
BY DuelInvAlways, PTL DEF DuelInv
=============================================================================
