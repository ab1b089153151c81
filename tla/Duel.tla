-------------------------------- MODULE Duel --------------------------------
(***************************************************************************)
(* The duel of Lab 1 (Lab/Lab1/complete): a server on one goroutine that   *)
(* lets two players in (cmd/server/main.go) and then reads one command     *)
(* from each in turn (game.Run), and its clients, who connect, type and    *)
(* quit when they like (cmd/client/main.go).                               *)
(*                                                                         *)
(* A connection keeps what is typed ahead.  What a command says makes no   *)
(* difference before the server reads it, so that only their number is     *)
(* kept.  Of what the server sends, the result is kept.                    *)
(***************************************************************************)
EXTENDS Integers, Sequences

CONSTANTS
  Client, Nobody,
  MapWidth, MapHeight, AttackRange,
  InitHP, AttackDmg, HealAmt, MaxPotions,
  MaxAhead       \* commands of one client that wait to be read

ASSUME DuelAssumption ==
  /\ Nobody \notin Client
  /\ {MapWidth, MapHeight, InitHP, AttackDmg, HealAmt, MaxAhead} \subseteq Nat \ {0}
  /\ AttackRange \in Nat /\ MaxPotions \in Nat

VARIABLES
  pc,       \* of the server: "accept", "join", "turn", "receive" or "exit"
  backlog,  \* connections that wait for Accept
  asked,    \* the connection whose first message is read
  players,  \* the clients who have joined, in order
  stage,    \* of each client
  typed,    \* its commands that the server has not read
  fighter,  \* Game.Players, by the same order
  turn,     \* Game.Turn: 1 or 2 here
  winner,   \* as sendGameOver names it
  result    \* what has become of that message to each client
server  == <<pc, asked, players>>
duel    == <<fighter, turn, winner>>
vars    == <<server, backlog, stage, typed, duel, result>>

Start(i) == IF i = 1 THEN <<0, 0>> ELSE <<MapWidth - 1, MapHeight - 1>>

NewPlayer(i) == [pos |-> Start(i), hp |-> InitHP, potions |-> MaxPotions]

Init ==
  /\ pc = "accept" /\ asked = Nobody /\ players = <<>> /\ backlog = <<>>
  /\ stage = [c \in Client |-> "away"] /\ typed = [c \in Client |-> 0]
  /\ fighter = [i \in {1, 2} |-> NewPlayer(i)] /\ turn = 1 /\ winner = Nobody
  /\ result = [c \in Client |-> "none"]

-----------------------------------------------------------------------------
(* The clients.                                                            *)

Dial(c) ==
  /\ stage[c] = "away" /\ pc # "exit"
  /\ stage' = [stage EXCEPT ![c] = "silent"]
  /\ backlog' = Append(backlog, c)
  /\ UNCHANGED <<server, typed, duel, result>>

\* The client sends its Join next; what is no client of ours, anything.
Greet(c) ==
  /\ stage[c] = "silent" /\ pc # "exit"
  /\ \E s \in {"joins", "babbles"} : stage' = [stage EXCEPT ![c] = s]
  /\ UNCHANGED <<server, backlog, typed, duel, result>>

\* The keyboard loop does not ask whose turn it is.
Type(c) ==
  /\ stage[c] = "joins" /\ pc # "exit" /\ typed[c] < MaxAhead
  /\ typed' = [typed EXCEPT ![c] = @ + 1]
  /\ UNCHANGED <<server, backlog, stage, duel, result>>

\* After its commands comes a line that is no message, and the client stays.
Garble(c) ==
  /\ stage[c] = "joins" /\ pc # "exit"
  /\ stage' = [stage EXCEPT ![c] = "garbles"]
  /\ UNCHANGED <<server, backlog, typed, duel, result>>

Joined(s) == s \in {"joins", "garbles", "joined and left"}

\* quit, or the client dies: what it has typed stays to be read.
Quit(c) ==
  /\ stage[c] \in {"silent", "joins", "garbles", "babbles"} /\ pc # "exit"
  /\ stage' = [stage EXCEPT ![c] = IF Joined(@) THEN "joined and left" ELSE "left"]
  /\ UNCHANGED <<server, backlog, typed, duel, result>>

Left(c) == stage[c] \in {"left", "joined and left"}

\* Receive fails once the commands are read.
Broken(c) == Left(c) \/ stage[c] = "garbles"

\* The goroutine that receives reads on until the connection ends.
ReadResult(c) ==
  /\ result[c] = "sent" /\ ~Left(c)
  /\ result' = [result EXCEPT ![c] = "read"]
  /\ UNCHANGED <<server, backlog, stage, typed, duel>>

(* The server process has ended with something the client sent unread: the *)
(* system resets the connection and drops what is still on its way.        *)
Reset(c) ==
  /\ pc = "exit" /\ result[c] = "sent"
  /\ typed[c] > 0 \/ stage[c] = "garbles"
  /\ result' = [result EXCEPT ![c] = "lost"]
  /\ UNCHANGED <<server, backlog, stage, typed, duel>>

-----------------------------------------------------------------------------
(* The lobby of main: one connection after the other.                      *)

Accept ==
  /\ pc = "accept" /\ backlog # <<>>
  /\ asked' = Head(backlog) /\ backlog' = Tail(backlog)
  /\ pc' = "join"
  /\ UNCHANGED <<players, stage, typed, duel, result>>

Joins ==
  /\ pc = "join" /\ Joined(stage[asked])
  /\ players' = Append(players, asked) /\ asked' = Nobody
  /\ pc' = IF Len(players') = 2 THEN "turn" ELSE "accept"
  /\ UNCHANGED <<backlog, stage, typed, duel, result>>

Refused ==
  /\ pc = "join" /\ stage[asked] \in {"babbles", "left"}
  /\ asked' = Nobody /\ pc' = "accept"
  /\ UNCHANGED <<players, backlog, stage, typed, duel, result>>

-----------------------------------------------------------------------------
(* game.Run.                                                               *)

Other(i) == 3 - i
Cur      == players[turn]

\* Both are told whose turn it is.
Announce ==
  /\ pc = "turn"
  /\ pc' = "receive"
  /\ UNCHANGED <<asked, players, backlog, stage, typed, duel, result>>

GameOver(i) ==
  /\ winner' = players[i]
  /\ result' = [c \in Client |-> IF \E j \in {1, 2} : players[j] = c THEN "sent" ELSE result[c]]
  /\ pc' = "exit"

\* One command of the player whose turn it is.
Receives ==
  /\ pc = "receive" /\ typed[Cur] > 0
  /\ typed' = [typed EXCEPT ![Cur] = @ - 1]
  /\ UNCHANGED <<asked, players, backlog, stage>>

\* Mutant: a command that has no effect does not use up the turn.
NextTurnOnEffect ==
  /\ turn' = IF fighter' = fighter THEN turn ELSE Other(turn)
  /\ pc' = "turn"
  /\ UNCHANGED <<winner, result>>

NextTurn ==
  /\ turn' = Other(turn) /\ pc' = "turn"
  /\ UNCHANGED <<winner, result>>

Cell == (0..(MapWidth - 1)) \X (0..(MapHeight - 1))

\* handleMove; to the edge of the map, and in no direction, nothing moves.
Move ==
  /\ Receives
  /\ \E d \in {<<0, -1>>, <<0, 1>>, <<-1, 0>>, <<1, 0>>, <<0, 0>>} :
       LET p  == fighter[turn].pos
           to == <<p[1] + d[1], p[2] + d[2]>>
       IN fighter' = [fighter EXCEPT ![turn].pos = IF to \in Cell THEN to ELSE p]
  /\ NextTurn

Abs(n) == IF n < 0 THEN -n ELSE n
Distance ==
  Abs(fighter[1].pos[1] - fighter[2].pos[1]) + Abs(fighter[1].pos[2] - fighter[2].pos[2])

\* Mutant: HP is not kept at zero or above.
WoundedBelow(hp) == hp - AttackDmg

Wounded(hp) == IF hp > AttackDmg THEN hp - AttackDmg ELSE 0

Attack ==
  /\ Receives
  /\ fighter' = IF Distance <= AttackRange
                THEN [fighter EXCEPT ![Other(turn)].hp = Wounded(@)] ELSE fighter
  /\ \/ fighter'[Other(turn)].hp > 0 /\ NextTurn
     \/ fighter'[Other(turn)].hp <= 0 /\ GameOver(turn) /\ UNCHANGED turn

Heal ==
  /\ Receives
  /\ LET me == fighter[turn]
         hp == IF me.hp + HealAmt < InitHP THEN me.hp + HealAmt ELSE InitHP
     IN fighter' = IF me.potions > 0
                   THEN [fighter EXCEPT ![turn].hp = hp, ![turn].potions = @ - 1] ELSE fighter
  /\ NextTurn

\* Mutant: the waiting player's connection is looked at.
DropsOther ==
  /\ pc = "receive" /\ Broken(players[Other(turn)]) /\ typed[players[Other(turn)]] = 0
  /\ GameOver(turn)
  /\ UNCHANGED <<asked, players, backlog, stage, typed, fighter, turn>>

\* Receive fails for whoever is to move, and all he typed is done.
Drops ==
  /\ pc = "receive" /\ Broken(Cur) /\ typed[Cur] = 0
  /\ GameOver(Other(turn))
  /\ UNCHANGED <<asked, players, backlog, stage, typed, fighter, turn>>
-----------------------------------------------------------------------------
Serve == Accept \/ Joins \/ Refused \/ Announce \/ Move \/ Attack \/ Heal \/ Drops

Next ==
  \/ Serve
  \/ \E c \in Client : Dial(c) \/ Greet(c) \/ Type(c) \/ Garble(c) \/ Quit(c) \/ ReadResult(c) \/ Reset(c)

(* The server works while it can, and a player who is still there types    *)
(* something in the end and reads what he is sent.                         *)
Fairness ==
  WF_vars(Serve) /\ \A c \in Client : WF_vars(Type(c)) /\ WF_vars(ReadResult(c))

Spec == Init /\ [][Next]_vars /\ Fairness

-----------------------------------------------------------------------------
(* Properties.                                                             *)

Stage == {"away", "silent", "joins", "garbles", "babbles", "left", "joined and left"}

(* The type of every variable; nobody leaves the map, HP stays within its  *)
(* bounds and only the one who has just been killed has none.              *)
TypeOK ==
  /\ pc \in {"accept", "join", "turn", "receive", "exit"}
  /\ asked \in Client \cup {Nobody} /\ players \in Seq(Client) /\ Len(players) <= 2
  /\ backlog \in Seq(Client) /\ stage \in [Client -> Stage]
  /\ typed \in [Client -> 0..MaxAhead]
  /\ fighter \in [{1, 2} -> [pos : Cell, hp : 0..InitHP, potions : 0..MaxPotions]]
  /\ turn \in {1, 2} /\ winner \in Client \cup {Nobody}
  /\ result \in [Client -> {"none", "sent", "read", "lost"}]
  /\ \A i \in {1, 2} : fighter[i].hp = 0 => winner = players[Other(i)]

(* The duel has ended with a winner who lives, against one who is dead, or *)
(* who has left or sent what is no message, and whose turn it was: a       *)
(* player who leaves while he waits, or has left the lobby, is beaten no   *)
(* sooner.                                                                 *)
WonFairly ==
  pc = "exit" =>
    \E i \in {1, 2} :
      /\ winner = players[i] /\ fighter[i].hp > 0
      /\ \/ fighter[Other(i)].hp = 0 /\ turn = i
         \/ Broken(players[Other(i)]) /\ turn = Other(i)

\* He need not read the result, or he may lose it: he has left or sent ahead.
Excused(c) == Broken(c) \/ typed[c] > 0

(* A player who has left, even before the duel has begun, keeps the other  *)
(* waiting for a while only: if the other goes on, the duel ends, and he   *)
(* reads the result unless something of his is unread when the server      *)
(* exits.                                                                  *)
LeaverEndsIt ==
  (pc = "receive" /\ \E i \in {1, 2} : Broken(players[i]))
    ~> (pc = "exit" /\ \A i \in {1, 2} : Excused(players[i]) \/ result[players[i]] = "read")
=============================================================================
