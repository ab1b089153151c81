------------------------------ MODULE Warzone ------------------------------
(***************************************************************************)
(* The Warzone server in Go (warzone_go/internal/server, database) with    *)
(* what its client sends (internal/client).                                *)
(*                                                                         *)
(* The connection layer (conns, under connMu) has one goroutine for each   *)
(* accepted connection; the game layer (slotConn, players, weapons and the *)
(* round, under gameMu) has one seat for each connection that has joined.  *)
(* A packet is handled in one section of gameMu, which ends by telling the *)
(* state to everybody in the room, and is one action here.  A connection   *)
(* is known by its number: entries and seats are used again.               *)
(***************************************************************************)
EXTENDS Integers, FiniteSets, Totals

CONSTANTS
  maxConn,       \* entries for connections
  MaxPlayers,    \* seats, at most five
  MapW, MapH,
  MaxHealth, AttackDamage, PowerDamage, AttackRange,
  MaxWeapons,
  MaxTries,      \* attempts to log in, 10 in connThread
  User,          \* names of accounts
  Comment,       \* those that begin with '#'
  NoUser         \* the empty name

ASSUME WarzoneAssumption ==
  /\ maxConn \in Nat \ {0} /\ MaxPlayers \in 1..5
  /\ MapW \in Nat /\ MapW >= 5 /\ MapH \in Nat /\ MapH >= 5
  /\ {MaxHealth, AttackDamage, PowerDamage, MaxTries} \subseteq Nat \ {0}
  /\ AttackRange \in Nat /\ MaxWeapons \in Nat
  /\ IsFiniteSet(User) /\ NoUser \notin User /\ Comment \subseteq User

None  == -1
Conns == 0..(maxConn - 1)
Slots == 0..(MaxPlayers - 1)
Cell  == (0..(MapW - 1)) \X (0..(MapH - 1))

VARIABLES
  conns,     \* the entry of each connection, with where its goroutine is
  open,      \* the connections whose socket nobody has closed
  accepted,  \* connections accepted so far, whose numbers are 1..accepted
  watch,     \* the entry and the socket heartbeatWatcher is about to close
  slotConn,  \* who has each seat
  players,   \* the player in it
  weapons,   \* cells with a weapon
  started, over, winner,     \* GameStarted, GameOver, WinnerConn
  kills, died,               \* killsGame, diedGame: by seat
  users, stats,              \* users.db, stats.db
  told,      \* the last STATE_UPDATE sent to each connection
  ledger     \* history: what really happened

connLayer == <<conns, open, accepted, watch>>
round     == <<started, over, winner, kills, died, stats>>
game      == <<slotConn, players, weapons, round>>
vars      == <<connLayer, game, users, told, ledger>>

Phase == {"free", "auth", "lobby", "game", "leaving", "closing"}

Free == [sock |-> 0, phase |-> "free", username |-> NoUser, tries |-> 0, stale |-> FALSE]

NoWatch == [entry |-> None, sock |-> 0]

NoRecord == [games |-> 0, wins |-> 0, losses |-> 0, kills |-> 0, deaths |-> 0]

Vacant == [pos |-> <<0, 0>>, health |-> 0, alive |-> FALSE, ready |-> FALSE, armed |-> FALSE]

Untold == [you |-> None]

\* The seat is 0xFF when the room is full.
Full == [you |-> 255]

Init ==
  /\ conns = [c \in Conns |-> Free] /\ open = {} /\ accepted = 0 /\ watch = NoWatch
  /\ slotConn = [g \in Slots |-> None]
  /\ players = [g \in Slots |-> Vacant]
  /\ weapons = {}
  /\ started = FALSE /\ over = FALSE /\ winner = None
  /\ kills = [g \in Slots |-> 0] /\ died = [g \in Slots |-> FALSE]
  /\ users = {} /\ stats = [u \in User |-> NoRecord]
  /\ told = [c \in Conns |-> Untold]
  /\ ledger = [fought |-> {}, felled |-> [c \in Conns |-> 0], fell |-> {},
               late |-> {}, kicked |-> {}]

(* The server process dies and is started again on the same files, which   *)
(* it reads anew for every request: it keeps nothing else.                 *)
Restart ==
  /\ conns' = [c \in Conns |-> Free] /\ open' = {} /\ watch' = NoWatch
  /\ slotConn' = [g \in Slots |-> None]
  /\ players' = [g \in Slots |-> Vacant]
  /\ weapons' = {}
  /\ started' = FALSE /\ over' = FALSE /\ winner' = None
  /\ kills' = [g \in Slots |-> 0] /\ died' = [g \in Slots |-> FALSE]
  /\ told' = [c \in Conns |-> Untold]
  /\ ledger' = [ledger EXCEPT !.fought = {}, !.felled = [c \in Conns |-> 0], !.fell = {}]
  /\ UNCHANGED <<accepted, users, stats>>

-----------------------------------------------------------------------------
(* users.db and stats.db.  A line that begins with '#' is a comment: such a *)
(* name is written and never read again.                                   *)

Listed(names) == names \ Comment

Recorded(records) == [u \in User |-> IF u \in Comment THEN NoRecord ELSE records[u]]

Lowest(S) == CHOOSE x \in S : \A y \in S : x <= y

-----------------------------------------------------------------------------
(* Seats and what is told about them.                                      *)

connToGameSlot(c) == {g \in Slots : slotConn[g] = c}
Seated(c) == connToGameSlot(c) # {}
Online    == {g \in Slots : slotConn[g] # None}
AllReady  == {g \in Online : players[g].ready}
Alive     == {g \in Online : players[g].alive}

\* WinnerConn is a connection: it is looked up among the seats of today.
WinnerID == IF winner = None \/ ~Seated(winner) THEN None ELSE Lowest(connToGameSlot(winner))

Update(g) ==
  [you |-> g, online |-> Cardinality(Online), ready |-> Cardinality(AllReady),
   alive |-> Alive, armed |-> {h \in Alive : players[h].armed}, weapons |-> weapons,
   started |-> started, over |-> over, winner |-> WinnerID]

\* Mutant: whoever has a seat is told what was so before the change.
BroadcastStateEarly ==
  told' = [c \in Conns |-> IF Seated(c) THEN Update(Lowest(connToGameSlot(c))) ELSE told[c]]

\* Everybody who has a seat is told the state as it is now.
BroadcastState ==
  told' = [c \in Conns |-> IF Seated(c)' THEN Update(Lowest(connToGameSlot(c)))' ELSE told[c]]

\* A user with these seats, one of which may have won.
UpdateStats(r, seats, won) ==
  [games  |-> r.games + Cardinality(seats),
   wins   |-> r.wins + Cardinality(won),
   losses |-> r.losses + Cardinality(seats \ won),
   kills  |-> r.kills + Total(kills', seats),
   deaths |-> r.deaths + Cardinality({g \in seats : died'[g]})]

(* UpdateStats for whoever has a seat: also for who came during the round, *)
(* and once for each seat of one user.                                     *)
SaveStats(w) ==
  LET of(u) == {g \in Slots : slotConn'[g] # None /\ conns[slotConn'[g]].username = u}
  IN stats' = Recorded(
       [u \in User |-> UpdateStats(stats[u], of(u), {g \in of(u) : slotConn'[g] = w})])

(* Who is alive after the step decides.  A round that runs has two at      *)
(* least (RunningHasTwo), so that the branch for "everyone died" is out of *)
(* reach.  l is the history up to here.                                    *)
CheckGameOver(l) ==
  /\ \/ /\ Cardinality(Alive') = 1
        /\ over' = TRUE
        /\ \E g \in Alive' : winner' = slotConn'[g] /\ SaveStats(slotConn'[g])
     \/ /\ Cardinality(Alive') > 1
        /\ UNCHANGED <<over, winner, stats>>
  /\ ledger' = l

-----------------------------------------------------------------------------
(* The connection layer.                                                   *)

\* Start: the lowest entry that is free, or the connection is closed at once.
Accept ==
  LET free == {c \in Conns : conns[c].phase = "free"}
      c    == Lowest(free)
  IN /\ accepted' = accepted + 1
     /\ \/ /\ free # {}
           /\ conns' = [conns EXCEPT ![c] = [Free EXCEPT !.sock = accepted', !.phase = "auth"]]
           /\ open' = open \cup {accepted'}
        \/ /\ free = {}
           /\ UNCHANGED <<conns, open>>
     /\ UNCHANGED <<watch, game, users, told, ledger>>

\* The goroutine of entry c is in phase p and has a packet to read.
Reads(c, p) == conns[c].phase = p /\ conns[c].sock \in open

\* The client leaves: it sends DISCONNECT, closes its socket or dies.
HangUp(c) ==
  /\ conns[c].sock \in open
  /\ open' = open \ {conns[c].sock}
  /\ UNCHANGED <<conns, accepted, watch, game, users, told, ledger>>

\* Eight seconds without a heartbeat that connThread has seen.
GoSilent(c) ==
  /\ conns[c].phase # "free" /\ ~conns[c].stale
  /\ conns' = [conns EXCEPT ![c].stale = TRUE]
  /\ ledger' = [ledger EXCEPT !.late = @ \cup {conns[c].sock}]
  /\ UNCHANGED <<open, accepted, watch, game, users, told>>

touchHB(c) ==
  /\ conns[c].stale
  /\ \E p \in {"auth", "lobby", "game"} : Reads(c, p)
  /\ conns' = [conns EXCEPT ![c].stale = FALSE]
  /\ UNCHANGED <<open, accepted, watch, game, users, told, ledger>>

\* heartbeatWatcher copies the entry under connMu and closes after it.
Watch(c) ==
  /\ watch = NoWatch
  /\ conns[c].phase # "free" /\ conns[c].stale
  /\ watch' = [entry |-> c, sock |-> conns[c].sock]
  /\ UNCHANGED <<conns, open, accepted, game, users, told, ledger>>

Closes(s) ==
  /\ watch # NoWatch
  /\ open' = open \ {s}
  /\ ledger' = [ledger EXCEPT !.kicked = @ \cup ({s} \cap open)]
  /\ watch' = NoWatch
  /\ UNCHANGED <<conns, accepted, game, users, told>>

\* Mutant: the watcher reads the entry again, as the one in C++ does.
KickByEntry == Closes(conns[watch.entry].sock)

Kick == Closes(watch.sock)

-----------------------------------------------------------------------------
(* Phase 1: authentication.                                                *)

\* The client asks for a name and a password until one pair is accepted.
Attempt(c) == Reads(c, "auth")

Authed(c, u) == conns' = [conns EXCEPT ![c].phase = "lobby", ![c].username = u]

Register(c, u) ==
  /\ Attempt(c) /\ u \notin users
  /\ users' = Listed(users \cup {u})
  /\ stats' = Recorded([stats EXCEPT ![u] = NoRecord])
  /\ Authed(c, u)
  /\ UNCHANGED <<open, accepted, watch, slotConn, players, weapons, started, over, winner,
                 kills, died, told, ledger>>

Login(c, u) ==
  /\ Attempt(c) /\ u \in users
  /\ Authed(c, u)
  /\ UNCHANGED <<open, accepted, watch, game, users, told, ledger>>

\* A name that is taken, illegal or unknown, or a wrong password.
AuthFails(c) ==
  /\ Attempt(c)
  /\ conns' = [conns EXCEPT ![c].tries = @ + 1,
                            ![c].phase = IF conns[c].tries + 1 < MaxTries THEN "auth" ELSE "leaving"]
  /\ UNCHANGED <<open, accepted, watch, game, users, told, ledger>>

-----------------------------------------------------------------------------
(* Phase 2: the lobby.                                                     *)

\* JOIN, again when the room was full.
Asks(c) == Reads(c, "lobby")

Join(c) ==
  /\ Asks(c)
  /\ Online # Slots
  /\ LET g == Lowest(Slots \ Online)
     IN /\ slotConn' = [slotConn EXCEPT ![g] = c]
        /\ players' = [players EXCEPT ![g] = Vacant]
  /\ conns' = [conns EXCEPT ![c].phase = "game"]
  /\ UNCHANGED <<weapons, round>>
  /\ BroadcastState
  /\ UNCHANGED <<open, accepted, watch, users, ledger>>

JoinFull(c) ==
  /\ Asks(c)
  /\ Online = Slots
  /\ told' = [told EXCEPT ![c] = Full]
  /\ UNCHANGED <<connLayer, game, users, ledger>>

-----------------------------------------------------------------------------
(* Phase 3: the game.                                                      *)

\* Mutant: no margin on the far side, as before version 3.1.
SpawnPointWide(n, rank) ==
  << <<2, 2>>, <<MapW, 2>>, <<2, MapH>>, <<MapW, MapH>>, <<MapW \div 2, MapH \div 2>> >>[
    (<< <<5>>, <<1, 4>>, <<1, 4, 5>>, <<1, 2, 3, 4>>, <<1, 2, 3, 4, 5>> >>[n])[rank]]

(* resetGameLocked: the corners of the map with a margin, and its centre,  *)
(* by the number of players and the rank of the seat.                      *)
SpawnPoint(n, rank) ==
  LET x0 == 2  x1 == MapW - 3  y0 == 2  y1 == MapH - 3
      candidates == << <<x0, y0>>, <<x1, y0>>, <<x0, y1>>, <<x1, y1>>,
                       <<(x0 + x1) \div 2, (y0 + y1) \div 2>> >>
      order == << <<5>>, <<1, 4>>, <<1, 4, 5>>, <<1, 2, 3, 4>>, <<1, 2, 3, 4, 5>> >>
  IN candidates[order[n][rank]]

Rank(g) == Cardinality({h \in Online : h <= g})

\* Mutant: who died in an earlier round has died in this one.
ResetGameKeepsDied ==
  /\ players' = [g \in Slots |->
       IF g \in Online
       THEN [pos |-> SpawnPoint(Cardinality(Online), Rank(g)), health |-> MaxHealth,
             alive |-> TRUE, ready |-> FALSE, armed |-> FALSE]
       ELSE [players[g] EXCEPT !.alive = FALSE]]
  /\ kills' = [g \in Slots |-> IF g \in Online THEN 0 ELSE kills[g]]
  /\ weapons' = {}
  /\ started' = TRUE /\ over' = FALSE /\ winner' = None
  /\ ledger' = [ledger EXCEPT !.fought = {slotConn[g] : g \in Online},
                              !.felled = [c \in Conns |-> 0], !.fell = {}]
  /\ UNCHANGED died

ResetGame ==
  /\ players' = [g \in Slots |->
       IF g \in Online
       THEN [pos |-> SpawnPoint(Cardinality(Online), Rank(g)), health |-> MaxHealth,
             alive |-> TRUE, ready |-> FALSE, armed |-> FALSE]
       ELSE [players[g] EXCEPT !.alive = FALSE]]
  /\ kills' = [g \in Slots |-> IF g \in Online THEN 0 ELSE kills[g]]
  /\ died' = [g \in Slots |-> died[g] /\ g \notin Online]
  /\ weapons' = {}
  /\ started' = TRUE /\ over' = FALSE /\ winner' = None
  /\ ledger' = [ledger EXCEPT !.fought = {slotConn[g] : g \in Online},
                              !.felled = [c \in Conns |-> 0], !.fell = {}]

Ready(c) ==
  /\ Reads(c, "game") /\ ~started /\ Seated(c)
  /\ LET g == Lowest(connToGameSlot(c))
         ready == AllReady \cup {g}
     IN \/ /\ ready = Online /\ Cardinality(Online) >= 2
           /\ ResetGame
        \/ /\ ~(ready = Online /\ Cardinality(Online) >= 2)
           /\ players' = [players EXCEPT ![g].ready = TRUE]
           /\ UNCHANGED <<weapons, started, over, winner, kills, died, ledger>>
  /\ UNCHANGED <<slotConn, stats>>
  /\ BroadcastState
  /\ UNCHANGED <<connLayer, users>>

\* The seat whose player may act; any other action changes nothing.
Acts(c, g) ==
  /\ Reads(c, "game") /\ started /\ ~over
  /\ slotConn[g] = c /\ players[g].alive

Steps(p) == {<<p[1], p[2] - 1>>, <<p[1], p[2] + 1>>, <<p[1] - 1, p[2]>>, <<p[1] + 1, p[2]>>}

\* A move off the map stays where it is; then the weapon there is picked up.
Move(c) ==
  /\ \E g \in Slots : \E to \in Steps(players[g].pos) :
       /\ Acts(c, g)
       /\ LET p == IF to \in Cell THEN to ELSE players[g].pos
          IN /\ players' = [players EXCEPT ![g].pos = p, ![g].armed = @ \/ p \in weapons]
             /\ weapons' = weapons \ {p}
  /\ UNCHANGED <<slotConn, round>>
  /\ BroadcastState
  /\ UNCHANGED <<connLayer, users, ledger>>

Abs(n) == IF n < 0 THEN -n ELSE n
Distance(g, h) ==
  Abs(players[g].pos[1] - players[h].pos[1]) + Abs(players[g].pos[2] - players[h].pos[2])

\* The nearest opponent who is alive, the lowest seat among equals.
Target(g) ==
  LET others == Alive \ {g}
  IN Lowest({h \in others : \A i \in others : Distance(g, h) <= Distance(g, i)})

InRange(g) == Alive # {g} /\ Distance(g, Target(g)) <= AttackRange

Damage(g) == IF players[g].armed THEN PowerDamage ELSE AttackDamage

Wound(c) ==
  /\ \E g \in Slots :
       /\ Acts(c, g) /\ InRange(g)
       /\ players[Target(g)].health > Damage(g)
       /\ players' = [players EXCEPT ![g].armed = FALSE, ![Target(g)].health = @ - Damage(g)]
  /\ UNCHANGED <<slotConn, weapons, round>>
  /\ BroadcastState
  /\ UNCHANGED <<connLayer, users, ledger>>

Kill(c) ==
  /\ \E g \in Slots :
       /\ Acts(c, g) /\ InRange(g)
       /\ players[Target(g)].health <= Damage(g)
       /\ players' = [players EXCEPT ![g].armed = FALSE, ![Target(g)].health = 0,
                                     ![Target(g)].alive = FALSE]
       /\ kills' = [kills EXCEPT ![g] = @ + 1]
       /\ died' = [died EXCEPT ![Target(g)] = TRUE]
       /\ UNCHANGED <<slotConn, weapons, started>>
       /\ CheckGameOver([ledger EXCEPT !.felled[c] = @ + 1, !.fell = @ \cup {slotConn[Target(g)]}])
  /\ BroadcastState
  /\ UNCHANGED <<connLayer, users>>

FreeCells ==
  {p \in ((2..(MapW - 3)) \X (2..(MapH - 3))) \ weapons : \A g \in Alive : players[g].pos # p}

\* weaponWorker, when it finds a free cell: fifty draws may find none.
SpawnWeapon ==
  /\ started /\ ~over /\ Cardinality(weapons) < MaxWeapons
  /\ \E p \in FreeCells : weapons' = weapons \cup {p}
  /\ UNCHANGED <<slotConn, players, round>>
  /\ BroadcastState
  /\ UNCHANGED <<connLayer, users, ledger>>

-----------------------------------------------------------------------------
(* cleanup.                                                                *)

Gone(c) ==
  \/ conns[c].phase = "leaving"
  \/ conns[c].phase \in {"auth", "lobby", "game"} /\ conns[c].sock \notin open

\* removeFromGameLocked of whoever has a seat.
LeaveRoom(c) ==
  /\ Gone(c)
  /\ conns' = [conns EXCEPT ![c].phase = "closing"]
  /\ slotConn' = [g \in Slots |-> IF slotConn[g] = c THEN None ELSE slotConn[g]]
  /\ players' = [g \in Slots |->
       IF slotConn[g] = c THEN [players[g] EXCEPT !.alive = FALSE] ELSE players[g]]
  /\ UNCHANGED <<weapons, kills, died, open, accepted, watch, users>>

Forget(c) == [ledger EXCEPT !.fought = @ \ {c}]

\* The connection had no seat.
Depart(c) ==
  /\ LeaveRoom(c) /\ ~Seated(c)
  /\ UNCHANGED <<started, over, winner, stats, told, ledger>>

\* Mutant: a round that is over is decided again.
DepartFightAgain(c) ==
  /\ LeaveRoom(c) /\ Seated(c) /\ started
  /\ UNCHANGED started
  /\ CheckGameOver(Forget(c))
  /\ BroadcastState

DepartFight(c) ==
  /\ LeaveRoom(c) /\ Seated(c) /\ started /\ ~over
  /\ UNCHANGED started
  /\ CheckGameOver(Forget(c))
  /\ BroadcastState

\* Mutant: the round that is over stays when everybody has gone.
DepartRoomOver(c) ==
  /\ LeaveRoom(c) /\ Seated(c) /\ ~(started /\ ~over)
  /\ UNCHANGED <<started, over, winner, stats>>
  /\ ledger' = Forget(c)
  /\ BroadcastState

DepartRoom(c) ==
  /\ LeaveRoom(c) /\ Seated(c) /\ ~(started /\ ~over)
  /\ started' = (started /\ Online' # {})
  /\ over' = (over /\ Online' # {})
  /\ UNCHANGED <<winner, stats>>
  /\ ledger' = Forget(c)
  /\ BroadcastState

Release(c) ==
  /\ conns[c].phase = "closing"
  /\ conns' = [conns EXCEPT ![c] = Free]
  /\ open' = open \ {conns[c].sock}
  /\ told' = [told EXCEPT ![c] = Untold]
  /\ UNCHANGED <<accepted, watch, game, users, ledger>>
-----------------------------------------------------------------------------
\* What the keys of a player send, whenever he presses them.
Keys(c) == Ready(c) \/ Move(c) \/ Wound(c) \/ Kill(c)

Packet(c) ==
  \/ HangUp(c) \/ touchHB(c) \/ AuthFails(c) \/ Join(c) \/ JoinFull(c) \/ Keys(c)
  \/ \E u \in User : Register(c, u) \/ Login(c, u)

Cleanup(c) == Depart(c) \/ DepartFight(c) \/ DepartRoom(c) \/ Release(c)

Next ==
  \/ Accept \/ Kick \/ SpawnWeapon \/ Restart
  \/ \E c \in Conns : Packet(c) \/ Cleanup(c) \/ GoSilent(c) \/ Watch(c)

Spec == Init /\ [][Next]_vars

-----------------------------------------------------------------------------
(* Properties.                                                             *)

Entry ==
  [sock : Nat, phase : Phase, username : User \cup {NoUser}, tries : 0..MaxTries, stale : BOOLEAN]

Record == [games : Nat, wins : Nat, losses : Nat, kills : Nat, deaths : Nat]

PlayerState ==
  [pos : Cell, health : 0..MaxHealth, alive : BOOLEAN, ready : BOOLEAN, armed : BOOLEAN]

\* Why checkGameOverLocked's branch for a round that nobody survives is dead code.
RunningHasTwo == started /\ ~over => Cardinality(Alive) >= 2

(* The type of every field; health never leaves its range, nobody stands   *)
(* off the map (applyActionLocked, resetGameLocked), and a round runs only *)
(* while two are alive (checkGameOverLocked).                              *)
TypeOK ==
  /\ conns \in [Conns -> Entry] /\ accepted \in Nat /\ open \subseteq 1..accepted
  /\ watch \in [entry : Conns \cup {None}, sock : 0..accepted]
  /\ slotConn \in [Slots -> Conns \cup {None}] /\ players \in [Slots -> PlayerState]
  /\ weapons \subseteq Cell /\ Cardinality(weapons) <= MaxWeapons
  /\ started \in BOOLEAN /\ over \in BOOLEAN /\ winner \in Conns \cup {None}
  /\ kills \in [Slots -> Nat] /\ died \in [Slots -> BOOLEAN]
  /\ users \subseteq User /\ stats \in [User -> Record]
  /\ RunningHasTwo

(* Whatever handler, worker or cleanup changed the room, everybody in it   *)
(* has been told the state as it is.                                       *)
RoomInformed == \A g \in Online : told[slotConn[g]] = Update(g)

(* What is saved for who fought since the round began is what he did in it.*)
(* (Who takes the seat of a fighter during the round inherits his.)        *)
LedgerOfFighters ==
  \A g \in Online :
    started /\ slotConn[g] \in ledger.fought =>
      /\ kills[g] = ledger.felled[slotConn[g]]
      /\ died[g] <=> slotConn[g] \in ledger.fell

Wins == Total([u \in User |-> stats[u].wins], User)

\* Who won has an account that the database finds again.
WonByName == over' /\ ~over /\ conns[winner'].username \notin Comment

(* Every round that ends is won once and recorded once, by a kill, by a    *)
(* departure, and never by both; unless the winner's name is a comment to  *)
(* the database.  A restart neither adds a win nor loses one.              *)
RoundsWonOnce == [][Wins' = Wins + (IF WonByName THEN 1 ELSE 0)]_vars

(* The watcher, which closes after it has unlocked connMu, closes nobody   *)
(* who was on time: not even when the entry has been used again.           *)
KickedWasLate == ledger.kicked \subseteq ledger.late

Seat(S) == {slotConn[g] : g \in S}

Room == INSTANCE SharedRound WITH
  Player <- Conns, Nobody <- None, Reopens <- TRUE,
  phase <- IF ~started THEN "lobby" ELSE IF over THEN "over" ELSE "running",
  room <- Seat(Online), ready <- Seat(AllReady), fighters <- Seat(Alive), winner <- winner

(* Behind the packets, the leavers and the worker there is one room with   *)
(* its rounds, which reopens when it is empty or the server is restarted.  *)
ImplementsRound == Room!SpecWithRestarts
=============================================================================
