------------------------------- MODULE Arena -------------------------------
(***************************************************************************)
(* The Warzone server in C++ (warzone_c++/server.cpp): one thread for each *)
(* connection, a watcher of heartbeats and a worker for weapons, over the  *)
(* operating system's file descriptors, which are used again.              *)
(*                                                                         *)
(* A handler locks g_state_mutex, changes the room and sends the state to  *)
(* one seat after the other before it unlocks: a client that does not read *)
(* holds it up.  Positions, health and weapons are left to Warzone, the    *)
(* same game in Go: an action is a kill or nothing that matters here.      *)
(***************************************************************************)
EXTENDS Integers, FiniteSets

CONSTANTS
  MAX_CONN,     \* entries of g_conns
  MAX_PLAYERS,  \* seats
  MaxTries      \* attempts to log in, 10 in conn_thread

ASSUME ArenaAssumption == {MAX_CONN, MAX_PLAYERS, MaxTries} \subseteq Nat \ {0}

None   == -1
Conns  == 0..(MAX_CONN - 1)
Slots  == 0..(MAX_PLAYERS - 1)
Weapon == MAX_CONN             \* weapon_thread, as a holder of the mutex
Fd     == 0..MAX_CONN          \* enough: one for each thread, one for accept

VARIABLES
  g_conns,      \* the entries: descriptor (or None), active, the age of last_hb
  thread,       \* of each entry: where it is, its own fd, its connection
  file,         \* what the system keeps for a descriptor: a connection or 0
  accepted,     \* connections are numbered 1..accepted
  dead,         \* connections that their client closed or that were shut down
  stuck,        \* connections whose client has stopped reading
  mutex,        \* who holds g_state_mutex, or None
  todo,         \* the connections its holder has still to send to
  g_slot_conn,  \* who has each seat
  ready, alive, \* connections in the room
  game_started, game_over, winner_conn,
  watch,        \* the entry that hb_watch_thread has found late, or None
  was_late,     \* history: connections that have been late
  kicked        \* history: connections shut down by the watcher

connLayer == <<g_conns, thread, file>>
clients   == <<accepted, dead, stuck>>
room      == <<g_slot_conn, ready, alive, game_started, game_over, winner_conn>>
history   == <<was_late, kicked>>
vars      == <<connLayer, clients, mutex, todo, room, watch, history>>

\* How long ago the last heartbeat was: "late" is HEARTBEAT_TIMEOUT or more.
Age == {"fresh", "old", "late"}

Unused == [fd |-> None, active |-> FALSE, hb |-> "fresh"]
Ended  == [pc |-> "none", fd |-> None, sock |-> 0, tries |-> 0]

Init ==
  /\ g_conns = [c \in Conns |-> Unused] /\ thread = [c \in Conns |-> Ended]
  /\ file = [f \in Fd |-> 0] /\ accepted = 0 /\ dead = {} /\ stuck = {}
  /\ mutex = None /\ todo = {}
  /\ g_slot_conn = [g \in Slots |-> None] /\ ready = {} /\ alive = {}
  /\ game_started = FALSE /\ game_over = FALSE /\ winner_conn = None
  /\ watch = None
  /\ was_late = {} /\ kicked = {}

Lowest(S) == CHOOSE x \in S : \A y \in S : x <= y

Online      == {g \in Slots : g_slot_conn[g] # None}
Seated      == {g_slot_conn[g] : g \in Online}
FreeSlots   == Slots \ Online

At(c, p)  == thread' = [thread EXCEPT ![c].pc = p]
Sock(c)   == thread[c].sock
Blocks(s) == s \in stuck /\ s \notin dead

-----------------------------------------------------------------------------
(* Connections and descriptors.                                            *)

(* accept returns the lowest descriptor; without an entry it is closed at  *)
(* once.  The entry is filled in one step; that it is active a moment      *)
(* before its last_hb is set would only be one more way for the watcher to *)
(* be wrong.                                                               *)
Accept ==
  LET free == {c \in Conns : ~g_conns[c].active /\ g_conns[c].fd = None}
      c    == Lowest(free)
      fd   == Lowest({f \in Fd : file[f] = 0})
  IN /\ accepted' = accepted + 1
     /\ \/ /\ free # {}
           /\ file' = [file EXCEPT ![fd] = accepted']
           /\ g_conns' = [g_conns EXCEPT ![c] = [fd |-> fd, active |-> TRUE, hb |-> "fresh"]]
           /\ thread' = [thread EXCEPT ![c] =
                           [pc |-> "auth", fd |-> fd, sock |-> accepted', tries |-> 0]]
        \/ free = {} /\ UNCHANGED connLayer
     /\ UNCHANGED <<dead, stuck, mutex, todo, room, watch, history>>

\* The thread of entry c is in recv_all of its loop p, and a packet comes.
Reads(c, p) == thread[c].pc = p /\ mutex # c /\ Sock(c) \notin dead

\* The client quits or dies, also while the server is sending to it.
HangUp(c) ==
  /\ thread[c].pc # "none" /\ file[thread[c].fd] = Sock(c) /\ Sock(c) \notin dead
  /\ dead' = dead \cup {Sock(c)}
  /\ UNCHANGED <<connLayer, accepted, stuck, mutex, todo, room, watch, history>>

\* The client stops reading, and the buffers of its connection fill up.
StopReading(c) ==
  /\ \E p \in {"auth", "lobby", "game"} : thread[c].pc = p
  /\ Sock(c) \notin stuck \cup dead
  /\ stuck' = stuck \cup {Sock(c)}
  /\ UNCHANGED <<connLayer, accepted, dead, mutex, todo, room, watch, history>>

\* Time passes without a heartbeat: a while, then HEARTBEAT_TIMEOUT.
Ages(c) ==
  /\ g_conns[c].active
  /\ \/ g_conns[c].hb = "fresh" /\ g_conns' = [g_conns EXCEPT ![c].hb = "old"]
        /\ UNCHANGED was_late
     \/ g_conns[c].hb = "old" /\ g_conns' = [g_conns EXCEPT ![c].hb = "late"]
        /\ was_late' = was_late \cup {Sock(c)}
  /\ UNCHANGED <<thread, file, clients, mutex, todo, room, watch, kicked>>

\* touch_hb.
Touch(c) == g_conns' = [g_conns EXCEPT ![c].hb = "fresh"]

(* A heartbeat is noted and answered without the mutex; so is a request    *)
(* for statistics, which is not noted.  The thread of a client that does   *)
(* not read stays in its send.                                             *)
Answer(c) ==
  /\ \E p \in {"auth", "lobby", "game"} : Reads(c, p)
  /\ Touch(c) \/ (thread[c].pc # "auth" /\ UNCHANGED g_conns)
  /\ At(c, IF Blocks(Sock(c)) THEN "stalled" ELSE thread[c].pc)
  /\ UNCHANGED <<file, clients, mutex, todo, room, watch, history>>

\* HEARTBEAT_ACK is noted like a heartbeat, and nothing is sent for it.
NoteAck(c) ==
  /\ \E p \in {"auth", "lobby", "game"} : Reads(c, p)
  /\ Touch(c)
  /\ UNCHANGED <<thread, file, clients, mutex, todo, room, watch, history>>

\* What hb_watch_thread asks of an entry, without a lock.
Overdue(i) == g_conns[i].active /\ g_conns[i].fd # None /\ g_conns[i].hb = "late"

\* It finds entry i late ...
WatchLook(i) ==
  /\ watch = None /\ Overdue(i)
  /\ watch' = i
  /\ UNCHANGED <<connLayer, clients, mutex, todo, room, history>>

\* Mutant: the watcher locks the mutex to read the entry safely.
WatchKickLocked ==
  /\ watch # None /\ mutex = None
  /\ dead' = dead \cup {Sock(watch)} /\ kicked' = kicked \cup {Sock(watch)}
  /\ watch' = None
  /\ UNCHANGED <<connLayer, accepted, stuck, mutex, todo, room, was_late>>

\* ... and shuts down what the descriptor in the entry stands for by then.
WatchKick ==
  LET fd  == g_conns[watch].fd
      hit == IF fd = None THEN {} ELSE {file[fd]} \ ({0} \cup dead)
  IN /\ watch # None
     /\ dead' = dead \cup hit /\ kicked' = kicked \cup hit
     /\ watch' = None
     /\ UNCHANGED <<connLayer, accepted, stuck, mutex, todo, room, was_late>>

-----------------------------------------------------------------------------
(* Sections of g_state_mutex.                                              *)

\* h locks, has changed the room, and will tell the seats of the new room.
Tells(h) == mutex = None /\ mutex' = h /\ todo' = Seated'

\* Seats in their order; who has none is told that the room is full.
NextTold ==
  LET seat(c) == {g \in Slots : g_slot_conn[g] = c}
  IN IF todo \cap Seated = {} THEN CHOOSE c \in todo : TRUE
     ELSE g_slot_conn[Lowest(UNION {seat(c) : c \in todo})]

\* The socket that a send for entry c writes to: the fd is read from the entry.
Written(c) == IF g_conns[c].fd = None THEN 0 ELSE file[g_conns[c].fd]

\* send_packet to the next seat; its failure is not looked at.
Send ==
  /\ todo # {} /\ ~Blocks(Written(NextTold))
  /\ todo' = todo \ {NextTold}
  /\ UNCHANGED <<connLayer, clients, mutex, room, watch, history>>

Unlock ==
  /\ mutex # None /\ todo = {}
  /\ mutex' = None
  /\ UNCHANGED <<connLayer, clients, todo, room, watch, history>>

-----------------------------------------------------------------------------
(* conn_thread.                                                            *)

Auth(c) ==
  /\ Reads(c, "auth")
  /\ \/ At(c, IF Blocks(Sock(c)) THEN "stalled" ELSE "lobby")
     \/ thread' = [thread EXCEPT ![c].tries = @ + 1,
          ![c].pc = IF Blocks(Sock(c)) THEN "stalled"
                    ELSE IF thread[c].tries + 1 < MaxTries THEN "auth" ELSE "leave"]
  /\ UNCHANGED <<g_conns, file, clients, mutex, todo, room, watch, history>>

Join(c) ==
  /\ Reads(c, "lobby") /\ FreeSlots # {}
  /\ g_slot_conn' = [g_slot_conn EXCEPT ![Lowest(FreeSlots)] = c]
  /\ At(c, "game")
  /\ UNCHANGED <<ready, alive, game_started, game_over, winner_conn>>
  /\ Tells(c)
  /\ UNCHANGED <<g_conns, file, clients, watch, history>>

JoinFull(c) ==
  /\ Reads(c, "lobby") /\ FreeSlots = {}
  /\ mutex = None /\ mutex' = c /\ todo' = {c}
  /\ UNCHANGED <<connLayer, clients, room, watch, history>>

\* reset_game_locked.
ResetGame ==
  /\ ready' = {} /\ alive' = Seated
  /\ game_started' = TRUE /\ game_over' = FALSE /\ winner_conn' = None

\* Mutant: one player is enough.
AllReadyAlone(r) == r = Seated

AllReady(r) == r = Seated /\ Cardinality(r) >= 2

Ready(c) ==
  /\ Reads(c, "game") /\ ~game_started /\ c \in Seated
  /\ \/ AllReady(ready \cup {c}) /\ ResetGame
     \/ /\ ~AllReady(ready \cup {c})
        /\ ready' = ready \cup {c}
        /\ UNCHANGED <<alive, game_started, game_over, winner_conn>>
  /\ UNCHANGED g_slot_conn
  /\ Tells(c)
  /\ UNCHANGED <<connLayer, clients, watch, history>>

\* A move, a blow that does not kill, or an action that is not allowed.
Act(c) ==
  /\ Reads(c, "game")
  /\ UNCHANGED room
  /\ Tells(c)
  /\ UNCHANGED <<connLayer, clients, watch, history>>

Kill(c) ==
  /\ Reads(c, "game") /\ game_started /\ ~game_over /\ c \in alive
  /\ \E d \in alive \ {c} : alive' = alive \ {d}
  /\ \/ Cardinality(alive') <= 1 /\ game_over' = TRUE /\ winner_conn' = c
     \/ Cardinality(alive') > 1 /\ UNCHANGED <<game_over, winner_conn>>
  /\ UNCHANGED <<g_slot_conn, ready, game_started>>
  /\ Tells(c)
  /\ UNCHANGED <<connLayer, clients, watch, history>>

\* weapon_thread.
SpawnWeapon ==
  /\ game_started /\ ~game_over
  /\ UNCHANGED room
  /\ Tells(Weapon)
  /\ UNCHANGED <<connLayer, clients, watch, history>>

\* Mutant: the thread ends without leaving the room.
FailsToClose(c) ==
  /\ \E p \in {"auth", "lobby", "game", "stalled"} : thread[c].pc = p
  /\ mutex # c /\ Sock(c) \in dead
  /\ At(c, "close")
  /\ UNCHANGED <<g_conns, file, clients, mutex, todo, room, watch, history>>

\* recv_all or send_packet fails.
Fails(c) ==
  /\ \E p \in {"auth", "lobby", "game", "stalled"} : thread[c].pc = p
  /\ mutex # c /\ Sock(c) \in dead
  /\ At(c, "leave")
  /\ UNCHANGED <<g_conns, file, clients, mutex, todo, room, watch, history>>

\* Mutant: the seat is given up and the player fights on.
RemoveFromGameAlive(c) ==
  /\ g_slot_conn' = [g \in Slots |-> IF g_slot_conn[g] = c THEN None ELSE g_slot_conn[g]]
  /\ ready' = ready \ {c}
  /\ UNCHANGED <<alive, game_started, game_over, winner_conn>>

(* remove_from_game_locked: the round ends with its last fighter; when the *)
(* room is empty then, the round is taken back only if it was not over.    *)
RemoveFromGame(c) ==
  LET left == alive \ {c}
      ends == game_started /\ ~game_over /\ Cardinality(left) = 1
      none == game_started /\ ~game_over /\ Seated = {c}
  IN /\ g_slot_conn' = [g \in Slots |-> IF g_slot_conn[g] = c THEN None ELSE g_slot_conn[g]]
     /\ ready' = ready \ {c} /\ alive' = left
     /\ game_started' = (game_started /\ ~none)
     /\ game_over' = (game_over \/ ends)
     /\ winner_conn' = IF ends THEN CHOOSE d \in left : TRUE ELSE winner_conn

Leave(c) ==
  /\ thread[c].pc = "leave" /\ mutex = None
  /\ At(c, "close")
  /\ \/ c \in Seated /\ RemoveFromGame(c) /\ Tells(c)
     \/ c \notin Seated /\ UNCHANGED <<room, mutex, todo>>
  /\ UNCHANGED <<g_conns, file, clients, watch, history>>

\* From here the descriptor may be used again, though the entry names it.
Close(c) ==
  /\ thread[c].pc = "close" /\ mutex # c
  /\ file' = [file EXCEPT ![thread[c].fd] = 0]
  /\ At(c, "free")
  /\ UNCHANGED <<g_conns, clients, mutex, todo, room, watch, history>>

Free(c) ==
  /\ thread[c].pc = "free"
  /\ g_conns' = [g_conns EXCEPT ![c].fd = None, ![c].active = FALSE, ![c].hb = "fresh"]
  /\ thread' = [thread EXCEPT ![c] = Ended]
  /\ UNCHANGED <<file, clients, mutex, todo, room, watch, history>>
-----------------------------------------------------------------------------
Handler(c) ==
  \/ Answer(c) \/ NoteAck(c) \/ Auth(c) \/ Join(c) \/ JoinFull(c) \/ Ready(c) \/ Act(c)
  \/ Kill(c) \/ Fails(c) \/ Leave(c) \/ Close(c) \/ Free(c)

Next ==
  \/ Accept \/ Send \/ Unlock \/ SpawnWeapon \/ WatchKick
  \/ \E c \in Conns : Handler(c) \/ HangUp(c) \/ StopReading(c) \/ Ages(c) \/ WatchLook(c)

(* The holder of the mutex sends as soon as it can.  Time passes; that     *)
(* makes a client late only if no heartbeat of it is noted for long        *)
(* enough.  The watcher comes round every two seconds, and looks again and *)
(* again at an entry that stays late.                                      *)
Fairness ==
  /\ WF_vars(Send) /\ WF_vars(Unlock) /\ WF_vars(WatchKick)
  /\ \A c \in Conns : /\ WF_vars(Ages(c))
                      /\ <>[]Overdue(c) => SF_vars(WatchLook(c))

Spec == Init /\ [][Next]_vars /\ Fairness

-----------------------------------------------------------------------------
(* Properties.                                                             *)

Pc == {"none", "auth", "lobby", "game", "stalled", "leave", "close", "free"}

(* The type of every variable; only who is in the room is ready or alive.  *)
TypeOK ==
  /\ g_conns \in [Conns -> [fd : Fd \cup {None}, active : BOOLEAN, hb : Age]]
  /\ thread \in [Conns -> [pc : Pc, fd : Fd \cup {None}, sock : 0..accepted, tries : 0..MaxTries]]
  /\ accepted \in Nat /\ file \in [Fd -> 0..accepted]
  /\ dead \subseteq 1..accepted /\ stuck \subseteq 1..accepted
  /\ mutex \in Conns \cup {Weapon, None} /\ todo \subseteq Conns
  /\ g_slot_conn \in [Slots -> Conns \cup {None}]
  /\ ready \subseteq Seated /\ alive \subseteq Seated
  /\ game_started \in BOOLEAN /\ game_over \in BOOLEAN /\ winner_conn \in Conns \cup {None}
  /\ watch \in Conns \cup {None}
  /\ was_late \subseteq 1..accepted /\ kicked \subseteq 1..accepted

(* broadcast_state_locked reads descriptors that other threads close       *)
(* without the mutex.  What it writes for a seat goes to the connection    *)
(* that has the seat all the same, never to one that came later.           *)
SentToTheSeated == \A c \in todo : Written(c) = Sock(c) /\ Sock(c) # 0

\* The holder waits for c, which does not read and has sent a heartbeat.
HeldUpBy(c) ==
  c \in todo /\ c = NextTold /\ Blocks(Written(c)) /\ g_conns[c].hb = "fresh"

(* g_state_mutex is free again and again: the watcher shuts down who keeps *)
(* a broadcast from going on.  There is one way out, and a client can take *)
(* it: the broadcast waits for a client that does not read and still sends *)
(* heartbeats (HEARTBEAT_ACK, or its thread would wait in the answer).     *)
SectionEnds == []<>(mutex = None) \/ []<>(\E c \in Conns : HeldUpBy(c))

Room == INSTANCE SharedRound WITH
  Player <- Conns, Nobody <- None, Reopens <- FALSE,
  phase <- IF ~game_started THEN "lobby" ELSE IF game_over THEN "over" ELSE "running",
  room <- Seated, ready <- ready, fighters <- alive, winner <- winner_conn

(* The room and its rounds, as in the Go server but for one thing: once a  *)
(* round is over the room never opens for another.                         *)
ImplementsRound == Room!Spec

(* server.cpp:642 calls the reads without a lock harmless.  The watcher    *)
(* shuts down nobody who was on time.                                      *)
KickedWasLate == kicked \subseteq was_late
=============================================================================
