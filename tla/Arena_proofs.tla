---------------------------- MODULE Arena_proofs ----------------------------
(***************************************************************************)
(* What holds of the C++ server for every number of entries and seats: the *)
(* states of a broadcast go to who is seated, and the room refines that of *)
(* SharedRound.                                                            *)
(*                                                                         *)
(* The invariant has two halves.  ConnInv: the entry of a thread names the *)
(* thread's descriptor from accept to the end, and until the thread closes *)
(* it the descriptor stands for the thread's connection and no other's.    *)
(* RoomInv: whoever has a seat, or is still to be told something, is a     *)
(* thread that has not closed yet, because a seat is given up and nothing  *)
(* is sent except with the mutex; and a round that runs has two fighters.  *)
(***************************************************************************)
EXTENDS Arena, FiniteSetTheorems, TLAPS

Pos(c)     == thread[c].pc
HasFile(c) == Pos(c) \notin {"none", "free"}

ConnTyped ==
  /\ g_conns \in [Conns -> [fd : Fd \cup {None}, active : BOOLEAN, hb : Age]]
  /\ thread \in [Conns -> [pc : Pc, fd : Fd \cup {None}, sock : 0..accepted, tries : 0..MaxTries]]
  /\ accepted \in Nat /\ file \in [Fd -> 0..accepted]
  /\ dead \subseteq 1..accepted /\ stuck \subseteq 1..accepted
  /\ watch \in Conns \cup {None}
  /\ was_late \subseteq 1..accepted /\ kicked \subseteq 1..accepted

RoomTyped ==
  /\ mutex \in Conns \cup {Weapon, None} /\ todo \subseteq Conns
  /\ g_slot_conn \in [Slots -> Conns \cup {None}]
  /\ ready \subseteq Seated /\ alive \subseteq Seated
  /\ game_started \in BOOLEAN /\ game_over \in BOOLEAN /\ winner_conn \in Conns \cup {None}

\* The entry of a thread names its descriptor as long as there is a thread.
Entries ==
  \A c \in Conns :
    /\ Pos(c) = "none" <=> g_conns[c].fd = None
    /\ thread[c].fd = g_conns[c].fd
    /\ g_conns[c].active <=> g_conns[c].fd # None
    /\ Pos(c) # "none" => thread[c].sock # 0
    /\ Pos(c) = "auth" => thread[c].tries < MaxTries

\* Until a thread closes its descriptor, this is its connection's.
Files ==
  /\ \A c \in Conns : HasFile(c) => file[thread[c].fd] = Sock(c)
  /\ \A c, d \in Conns : HasFile(c) /\ HasFile(d) /\ Sock(c) = Sock(d) => c = d
  /\ \A f \in Fd : file[f] # 0 => \E c \in Conns : HasFile(c) /\ thread[c].fd = f

ConnInv == ConnTyped /\ Entries /\ Files

SeatPos == {"game", "stalled", "leave"}
TellPos == {"lobby", "game", "stalled", "leave"}

Seating ==
  /\ \A c \in Seated : Pos(c) \in SeatPos
  /\ \A c \in todo : Pos(c) \in TellPos
  /\ mutex = None => todo = {}

RunningHasTwo == game_started /\ ~game_over => Cardinality(alive) >= 2

RoomInv == RoomTyped /\ Seating /\ RunningHasTwo

ArenaInv == ConnInv /\ RoomInv

-----------------------------------------------------------------------------
(* Numbers and descriptors.                                                *)

\* A set of natural numbers has a lowest member.
LEMMA LowestIsIn ==
  ASSUME NEW S, S \subseteq Nat, S # {}
  PROVE  Lowest(S) \in S
<1>. DEFINE Less == {p \in Nat \X Nat : p[1] < p[2]}
<1>1. IsWellFoundedOn(Less, Nat)
  BY NatLessThanWellFounded DEF OpToRel
<1>2. \E x \in S : \A y \in S : <<y, x>> \notin Less
  <2>. HIDE DEF Less
  <2>. QED  BY <1>1, WFMin
<1>3. \A x, y \in Nat : <<y, x>> \notin Less => x <= y
  OBVIOUS
<1>. QED  BY <1>2, <1>3 DEF Lowest

\* Entries, seats and descriptors are numbers, and there are finitely many.
LEMMA Numbers ==
  /\ Conns \subseteq Nat /\ Slots \subseteq Nat /\ Fd \subseteq Nat
  /\ None \notin Conns /\ None \notin Fd /\ Weapon # None /\ 0 \in Nat
  /\ IsFiniteSet(Conns) /\ Cardinality(Conns) = MAX_CONN
  /\ IsFiniteSet(Fd) /\ Cardinality(Fd) = MAX_CONN + 1
<1>1. MAX_CONN \in Nat /\ MAX_CONN > 0 /\ MAX_PLAYERS \in Nat
  BY ArenaAssumption
<1>2. IsFiniteSet(0..(MAX_CONN - 1)) /\ Cardinality(0..(MAX_CONN - 1)) = MAX_CONN
  BY <1>1, FS_Interval
<1>3. IsFiniteSet(0..MAX_CONN) /\ Cardinality(0..MAX_CONN) = MAX_CONN + 1
  BY <1>1, FS_Interval
<1>. QED  BY <1>1, <1>2, <1>3 DEF Conns, Slots, Fd, None, Weapon

(* A descriptor is free whenever accept needs one: those in use belong to  *)
(* threads, and there is one more than threads.                            *)
LEMMA DescriptorLeft ==
  ASSUME ConnInv
  PROVE  \E f \in Fd : file[f] = 0
<1>. DEFINE Own == [c \in Conns |-> thread[c].fd]
            Used == {f \in Fd : file[f] # 0}
<1>1. Used \subseteq {Own[c] : c \in Conns}
  BY DEF ConnInv, Files
<1>2. IsFiniteSet({Own[c] : c \in Conns}) /\ Cardinality({Own[c] : c \in Conns}) <= MAX_CONN
  <2>1. Own \in Surjection(Conns, {Own[c] : c \in Conns})
    BY DEF Surjection
  <2>. HIDE DEF Own
  <2>. QED  BY <2>1, Numbers, FS_Surjection
<1>3. Cardinality(Used) <= Cardinality({Own[c] : c \in Conns})
  <2>. HIDE DEF Own, Used
  <2>. QED  BY <1>1, <1>2, FS_Subset
<1>4. IsFiniteSet(Used) /\ Cardinality(Used) \in Nat /\ Cardinality({Own[c] : c \in Conns}) \in Nat
  <2>. HIDE DEF Own
  <2>. QED  BY <1>2, Numbers, FS_Subset, FS_CardinalityType
<1>5. Used # Fd
  <2>. HIDE DEF Own, Used
  <2>. QED  BY <1>2, <1>3, <1>4, Numbers, ArenaAssumption
<1>. QED  BY <1>5

-----------------------------------------------------------------------------
(* The connection layer.                                                   *)

ClientsTyped ==
  /\ dead \subseteq 1..accepted /\ stuck \subseteq 1..accepted
  /\ watch \in Conns \cup {None}
  /\ was_late \subseteq 1..accepted /\ kicked \subseteq 1..accepted

\* The threads stay where they are; heartbeats may be noted, or get older.
LEMMA ThreadsStay ==
  ASSUME ConnInv, UNCHANGED <<thread, file, accepted>>,
         g_conns' \in [Conns -> [fd : Fd \cup {None}, active : BOOLEAN, hb : Age]],
         \A c \in Conns : g_conns'[c].fd = g_conns[c].fd /\ g_conns'[c].active = g_conns[c].active,
         ClientsTyped'
  PROVE  ConnInv'
<1>1. ConnTyped'
  BY DEF ConnInv, ConnTyped, ClientsTyped
<1>2. Entries'
  BY DEF ConnInv, Entries, Pos
<1>3. Files'
  BY DEF ConnInv, Files, Pos, HasFile, Sock
<1>. QED  BY <1>1, <1>2, <1>3 DEF ConnInv

\* The thread of c goes from one place to another and keeps its descriptor.
LEMMA ThreadGoesOn ==
  ASSUME ConnInv, NEW c \in Conns, NEW q \in Pc \ {"none", "free"}, HasFile(c),
         NEW n \in 0..MaxTries,
         thread' = [thread EXCEPT ![c] = [@ EXCEPT !.pc = q, !.tries = n]],
         q = "auth" => n < MaxTries,
         UNCHANGED <<file, accepted>>,
         g_conns' \in [Conns -> [fd : Fd \cup {None}, active : BOOLEAN, hb : Age]],
         \A d \in Conns : g_conns'[d].fd = g_conns[d].fd /\ g_conns'[d].active = g_conns[d].active,
         ClientsTyped'
  PROVE  ConnInv' /\ \A d \in Conns : Pos(d)' = IF d = c THEN q ELSE Pos(d)
<1>1. thread' \in [Conns -> [pc : Pc, fd : Fd \cup {None}, sock : 0..accepted, tries : 0..MaxTries]]
  <2>. DEFINE S == 0..accepted  T == 0..MaxTries  F == Fd \cup {None}
              R == [pc : Pc, fd : F, sock : S, tries : T]
  <2>1. thread \in [Conns -> R] /\ q \in Pc /\ n \in T
    BY DEF ConnInv, ConnTyped
  <2>. HIDE DEF S, T, F
  <2>2. [thread[c] EXCEPT !.pc = q, !.tries = n] \in R
    BY <2>1
  <2>. HIDE DEF R
  <2>3. thread' \in [Conns -> R]
    BY <2>1, <2>2
  <2>. QED  BY <2>3 DEF R, S, T, F
<1>2. \A d \in Conns :
        /\ thread'[d].pc = IF d = c THEN q ELSE thread[d].pc
        /\ thread'[d].fd = thread[d].fd /\ thread'[d].sock = thread[d].sock
        /\ thread'[d].tries = IF d = c THEN n ELSE thread[d].tries
  BY DEF ConnInv, ConnTyped
<1>3. \A d \in Conns : HasFile(d)' <=> HasFile(d)
  BY <1>2 DEF HasFile, Pos
<1>4. ConnTyped'
  BY <1>1 DEF ConnInv, ConnTyped, ClientsTyped
<1>5. Entries'
  BY <1>2 DEF ConnInv, Entries, Pos, HasFile
<1>6. Files'
  BY <1>2, <1>3 DEF ConnInv, Files, Sock
<1>. QED  BY <1>2, <1>4, <1>5, <1>6 DEF ConnInv, Pos

\* A thread with a connection has an entry and a socket.
LEMMA ThreadHas ==
  ASSUME ConnInv, NEW c \in Conns
  PROVE  /\ thread[c].tries \in 0..MaxTries /\ Pos(c) \in Pc
         /\ Pos(c) # "none" =>
              /\ thread[c].fd \in Fd /\ g_conns[c].fd = thread[c].fd /\ g_conns[c].active
              /\ Sock(c) \in 1..accepted
         /\ Pos(c) = "none" => g_conns[c].fd = None /\ ~g_conns[c].active
<1>1. g_conns[c].fd \in Fd \cup {None} /\ thread[c] = [thread[c] EXCEPT !.pc = Pos(c)]
  BY DEF ConnInv, ConnTyped, Pos
<1>2. /\ thread[c].tries \in 0..MaxTries /\ Pos(c) \in Pc /\ thread[c].sock \in 0..accepted
      /\ accepted \in Nat
  BY DEF ConnInv, ConnTyped, Pos
<1>. QED  BY <1>1, <1>2 DEF ConnInv, Entries, Sock

LEMMA AcceptConn == ConnInv /\ Accept => ConnInv'
<1>. SUFFICES ASSUME ConnInv, Accept PROVE ConnInv'
  OBVIOUS
<1>. DEFINE free == {c \in Conns : ~g_conns[c].active /\ g_conns[c].fd = None}
            c  == Lowest(free)
            fd == Lowest({f \in Fd : file[f] = 0})
<1>0. accepted' = accepted + 1 /\ accepted \in Nat /\ 1..accepted \subseteq 1..accepted'
  BY DEF Accept, ConnInv, ConnTyped
<1>1. ClientsTyped'
  BY <1>0 DEF Accept, ConnInv, ConnTyped, ClientsTyped, history
<1>2. CASE free # {}
  <2>1. c \in free
    <3>. HIDE DEF c
    <3>. QED  BY <1>2, LowestIsIn, Numbers DEF c
  <2>2. fd \in Fd /\ file[fd] = 0
    <3>1. {f \in Fd : file[f] = 0} # {} /\ {f \in Fd : file[f] = 0} \subseteq Nat
      BY DescriptorLeft, Numbers
    <3>. QED  BY <3>1, LowestIsIn
  <2>3. /\ file' = [file EXCEPT ![fd] = accepted']
        /\ g_conns' = [g_conns EXCEPT ![c] = [fd |-> fd, active |-> TRUE, hb |-> "fresh"]]
        /\ thread' = [thread EXCEPT ![c] =
                        [pc |-> "auth", fd |-> fd, sock |-> accepted', tries |-> 0]]
    BY <1>2 DEF Accept
  <2>. HIDE DEF c, fd
  <2>4. c \in Conns /\ ~HasFile(c)
    BY <2>1 DEF ConnInv, Entries, HasFile
  <2>5. \A d \in Conns :
          /\ thread[d].sock \in 0..accepted
          /\ d # c => thread'[d] = thread[d] /\ g_conns'[d] = g_conns[d]
    BY <2>3, <2>4 DEF ConnInv, ConnTyped
  <2>6. /\ thread'[c] = [pc |-> "auth", fd |-> fd, sock |-> accepted', tries |-> 0]
        /\ g_conns'[c] = [fd |-> fd, active |-> TRUE, hb |-> "fresh"]
    BY <2>3, <2>4 DEF ConnInv, ConnTyped
  <2>7. ConnTyped'
    <3>1. g_conns' \in [Conns -> [fd : Fd \cup {None}, active : BOOLEAN, hb : Age]]
      BY <2>2, <2>3, <2>4 DEF Age, ConnInv, ConnTyped
    <3>2. file' \in [Fd -> 0..accepted']
      BY <1>0, <2>2, <2>3 DEF ConnInv, ConnTyped
    <3>3. \A d \in Conns : thread'[d] \in
            [pc : Pc, fd : Fd \cup {None}, sock : 0..accepted', tries : 0..MaxTries]
      <4>1. "auth" \in Pc /\ 0 \in 0..MaxTries /\ accepted' \in 0..accepted'
        BY <1>0, ArenaAssumption DEF Pc
      <4>2. \A d \in Conns \ {c} : thread'[d] \in
            [pc : Pc, fd : Fd \cup {None}, sock : 0..accepted', tries : 0..MaxTries]
        BY <1>0, <2>5 DEF ConnInv, ConnTyped
      <4>. QED  BY <2>2, <2>6, <4>1, <4>2
    <3>4. thread' = [d \in Conns |-> thread'[d]]
      BY <2>3 DEF ConnInv, ConnTyped
    <3>. QED  BY <1>0, <1>1, <3>1, <3>2, <3>3, <3>4 DEF ConnTyped, ClientsTyped
  <2>8. Entries'
    BY <1>0, <2>2, <2>4, <2>5, <2>6, Numbers, ArenaAssumption DEF ConnInv, Entries, Pos
  <2>9. \A d \in Conns : HasFile(d)' <=> HasFile(d) \/ d = c
    BY <2>4, <2>5, <2>6 DEF HasFile, Pos
  <2>10. \A d \in Conns : HasFile(d) => d # c /\ thread[d].fd \in Fd /\ thread[d].fd # fd
    BY <2>2, <2>4, ThreadHas DEF ConnInv, Files, HasFile
  <2>11. \A f \in Fd : file'[f] = IF f = fd THEN accepted' ELSE file[f]
    BY <2>2, <2>3 DEF ConnInv, ConnTyped
  <2>12. Files'
    <3>1. \A d \in Conns : HasFile(d)' => file'[thread'[d].fd] = Sock(d)'
      BY <2>2, <2>5, <2>6, <2>9, <2>10, <2>11 DEF ConnInv, Files, Sock
    <3>2. \A d, e \in Conns : HasFile(d)' /\ HasFile(e)' /\ Sock(d)' = Sock(e)' => d = e
      BY <1>0, <2>5, <2>6, <2>9 DEF ConnInv, Files, Sock
    <3>3. \A f \in Fd : file'[f] # 0 => \E d \in Conns : HasFile(d)' /\ thread'[d].fd = f
      <4>. SUFFICES ASSUME NEW f \in Fd, file'[f] # 0
                    PROVE  \E d \in Conns : HasFile(d)' /\ thread'[d].fd = f
        OBVIOUS
      <4>1. CASE f = fd
        BY <4>1, <2>4, <2>6, <2>9
      <4>2. CASE f # fd
        <5>1. PICK d \in Conns : HasFile(d) /\ thread[d].fd = f
          BY <4>2, <2>11 DEF ConnInv, Files
        <5>. QED  BY <5>1, <2>5, <2>9, <2>10
      <4>. QED  BY <4>1, <4>2
    <3>. QED  BY <3>1, <3>2, <3>3 DEF Files
  <2>. QED  BY <2>7, <2>8, <2>12 DEF ConnInv
<1>3. CASE free = {}
  <2>1. UNCHANGED connLayer
    BY <1>3 DEF Accept
  <2>2. ConnTyped'
    <3>1. \A d \in Conns : thread'[d] \in
            [pc : Pc, fd : Fd \cup {None}, sock : 0..accepted', tries : 0..MaxTries]
      BY <1>0, <2>1 DEF connLayer, ConnInv, ConnTyped
    <3>2. thread' = [d \in Conns |-> thread'[d]]
      BY <2>1 DEF connLayer, ConnInv, ConnTyped
    <3>3. file' \in [Fd -> 0..accepted']
      BY <1>0, <2>1 DEF connLayer, ConnInv, ConnTyped
    <3>. QED  BY <1>0, <1>1, <2>1, <3>1, <3>2, <3>3 DEF connLayer, ConnInv, ConnTyped, ClientsTyped
  <2>3. Entries' /\ Files'
    BY <2>1 DEF connLayer, ConnInv, Entries, Files, Pos, HasFile, Sock
  <2>. QED  BY <2>2, <2>3 DEF ConnInv
<1>. QED  BY <1>2, <1>3

\* Steps in which no thread goes on.
Staying ==
  \/ Send \/ Unlock \/ SpawnWeapon \/ WatchKick
  \/ \E c \in Conns : \/ HangUp(c) \/ StopReading(c) \/ Ages(c) \/ NoteAck(c) \/ WatchLook(c)
                       \/ JoinFull(c) \/ Ready(c) \/ Act(c) \/ Kill(c)

LEMMA StayingConn == ConnInv /\ Staying => ConnInv' /\ UNCHANGED thread
<1>. SUFFICES ASSUME ConnInv, Staying PROVE ConnInv' /\ UNCHANGED thread
  OBVIOUS
<1>. USE DEF connLayer, clients, history
<1>1. ClientsTyped /\ accepted \in Nat /\ file \in [Fd -> 0..accepted]
  BY DEF ConnInv, ConnTyped, ClientsTyped
<1>2. CASE Send \/ Unlock \/ SpawnWeapon \/ \E c \in Conns : JoinFull(c) \/ Ready(c) \/ Act(c) \/ Kill(c)
  <2>1. UNCHANGED <<connLayer, clients, watch, history>>
    BY <1>2 DEF Send, Unlock, SpawnWeapon, JoinFull, Ready, Act, Kill
  <2>. QED  BY <1>1, <2>1, ThreadsStay DEF ConnInv, ConnTyped, ClientsTyped
<1>3. CASE WatchKick
  <2>. DEFINE fd  == g_conns[watch].fd
              hit == IF fd = None THEN {} ELSE {file[fd]} \ ({0} \cup dead)
  <2>1. hit \subseteq 1..accepted
    <3>1. watch \in Conns
      BY <1>1, <1>3 DEF WatchKick, ClientsTyped
    <3>2. fd \in Fd \cup {None}
      BY <3>1 DEF ConnInv, ConnTyped
    <3>. QED  BY <1>1, <3>2
  <2>2. dead' = dead \cup hit /\ kicked' = kicked \cup hit /\ watch' = None
    BY <1>3 DEF WatchKick
  <2>. HIDE DEF hit
  <2>3. ClientsTyped'
    BY <1>1, <1>3, <2>1, <2>2 DEF WatchKick, ClientsTyped
  <2>. QED  BY <1>3, <2>3, ThreadsStay DEF WatchKick, ConnInv, ConnTyped
<1>4. ASSUME NEW c \in Conns, HangUp(c) \/ StopReading(c) \/ WatchLook(c) PROVE ConnInv' /\ UNCHANGED thread
  <2>1. Sock(c) \in 1..accepted \/ Pos(c) = "none"
    BY ThreadHas
  <2>2. ClientsTyped' /\ UNCHANGED <<connLayer, accepted>>
    BY <1>1, <1>4, <2>1 DEF HangUp, StopReading, WatchLook, ClientsTyped, Pos
  <2>. QED  BY <2>2, ThreadsStay DEF ConnInv, ConnTyped
<1>5. ASSUME NEW c \in Conns, Ages(c) \/ NoteAck(c) PROVE ConnInv' /\ UNCHANGED thread
  <2>1. Sock(c) \in 1..accepted
    BY <1>5, ThreadHas DEF Ages, NoteAck, Reads, Pos
  <2>2. ClientsTyped' /\ UNCHANGED <<thread, file, accepted>>
    BY <1>1, <1>5, <2>1 DEF Ages, NoteAck, ClientsTyped
  <2>3. \E a \in Age : g_conns' = [g_conns EXCEPT ![c].hb = a]
    BY <1>5 DEF Ages, NoteAck, Touch, Age
  <2>4. /\ g_conns' \in [Conns -> [fd : Fd \cup {None}, active : BOOLEAN, hb : Age]]
        /\ \A d \in Conns : g_conns'[d].fd = g_conns[d].fd /\ g_conns'[d].active = g_conns[d].active
    BY <2>3 DEF ConnInv, ConnTyped
  <2>. QED  BY <2>2, <2>4, ThreadsStay
<1>. QED  BY <1>2, <1>3, <1>4, <1>5 DEF Staying

\* Where the thread of c goes from where it is.
Goes(c, q) == \A d \in Conns : Pos(d)' = IF d = c THEN q ELSE Pos(d)

LEMMA AnswerConn ==
  ASSUME ConnInv, NEW c \in Conns, Answer(c)
  PROVE  ConnInv' /\ \E q \in {Pos(c), "stalled"} : Goes(c, q) /\ Pos(c) \in {"auth", "lobby", "game"}
<1>. DEFINE q == IF Blocks(Sock(c)) THEN "stalled" ELSE thread[c].pc
<1>1. Pos(c) \in {"auth", "lobby", "game"}
  BY DEF Answer, Reads, Pos
<1>2. thread' = [thread EXCEPT ![c] = [@ EXCEPT !.pc = q, !.tries = thread[c].tries]]
  BY DEF Answer, At, ConnInv, ConnTyped
<1>3. q \in Pc \ {"none", "free"} /\ q \in {Pos(c), "stalled"}
  BY <1>1 DEF Pc, Pos
<1>4. thread[c].tries \in 0..MaxTries /\ (q = "auth" => thread[c].tries < MaxTries)
  BY ThreadHas DEF ConnInv, Entries, Pos
<1>5. /\ g_conns' \in [Conns -> [fd : Fd \cup {None}, active : BOOLEAN, hb : Age]]
      /\ \A d \in Conns : g_conns'[d].fd = g_conns[d].fd /\ g_conns'[d].active = g_conns[d].active
  <2>1. CASE Touch(c)
    BY <2>1 DEF Touch, Age, ConnInv, ConnTyped
  <2>2. CASE UNCHANGED g_conns
    BY <2>2 DEF ConnInv, ConnTyped
  <2>. QED  BY <2>1, <2>2 DEF Answer
<1>6. ClientsTyped' /\ UNCHANGED <<file, accepted>>
  BY DEF Answer, ConnInv, ConnTyped, ClientsTyped, clients, history
<1>7. HasFile(c)
  BY <1>1 DEF HasFile
<1>. HIDE DEF q
<1>. QED  BY <1>1, <1>2, <1>3, <1>4, <1>5, <1>6, <1>7, ThreadGoesOn DEF Goes

\* What keeps the entries, and one thread goes on with its tries as they are.
LEMMA AtConn ==
  ASSUME ConnInv, NEW c \in Conns, HasFile(c), NEW q \in Pc \ {"none", "free", "auth"}, At(c, q),
         UNCHANGED <<g_conns, file, clients, watch, history>>
  PROVE  ConnInv' /\ Goes(c, q)
<1>1. thread' = [thread EXCEPT ![c] = [@ EXCEPT !.pc = q, !.tries = thread[c].tries]]
  BY DEF At, ConnInv, ConnTyped
<1>2. thread[c].tries \in 0..MaxTries
  BY ThreadHas
<1>3. ClientsTyped' /\ UNCHANGED <<file, accepted>>
  BY DEF ConnInv, ConnTyped, ClientsTyped, clients, history
<1>. QED  BY <1>1, <1>2, <1>3, ThreadGoesOn DEF Goes, ConnInv, ConnTyped

LEMMA AuthConn ==
  ASSUME ConnInv, NEW c \in Conns, Auth(c)
  PROVE  ConnInv' /\ Pos(c) = "auth" /\ \E q \in Pc : Goes(c, q)
<1>1. Pos(c) = "auth" /\ HasFile(c) /\ UNCHANGED <<g_conns, file, clients, watch, history>>
  BY DEF Auth, Reads, Pos, HasFile
<1>2. thread[c].tries \in 0..MaxTries /\ thread[c].tries < MaxTries /\ MaxTries \in Nat
  BY <1>1, ThreadHas, ArenaAssumption DEF ConnInv, Entries
<1>3. CASE At(c, IF Blocks(Sock(c)) THEN "stalled" ELSE "lobby")
  <2>. DEFINE q == IF Blocks(Sock(c)) THEN "stalled" ELSE "lobby"
  <2>1. q \in Pc \ {"none", "free", "auth"}
    BY DEF Pc
  <2>. HIDE DEF q
  <2>2. At(c, q)
    BY <1>3 DEF q
  <2>. QED  BY <1>1, <2>1, <2>2, AtConn
<1>4. CASE thread' = [thread EXCEPT ![c].tries = @ + 1,
             ![c].pc = IF Blocks(Sock(c)) THEN "stalled"
                       ELSE IF thread[c].tries + 1 < MaxTries THEN "auth" ELSE "leave"]
  <2>. DEFINE q == IF Blocks(Sock(c)) THEN "stalled"
                   ELSE IF thread[c].tries + 1 < MaxTries THEN "auth" ELSE "leave"
              n == thread[c].tries + 1
  <2>1. q \in Pc \ {"none", "free"} /\ n \in 0..MaxTries /\ (q = "auth" => n < MaxTries)
    BY <1>2 DEF Pc
  <2>2. thread' = [thread EXCEPT ![c] = [@ EXCEPT !.pc = q, !.tries = n]]
    BY <1>4 DEF ConnInv, ConnTyped
  <2>. HIDE DEF q, n
  <2>3. ClientsTyped' /\ UNCHANGED <<file, accepted>>
    BY <1>1 DEF ConnInv, ConnTyped, ClientsTyped, clients, history
  <2>. QED  BY <1>1, <2>1, <2>2, <2>3, ThreadGoesOn DEF Goes, ConnInv, ConnTyped
<1>. QED  BY <1>1, <1>3, <1>4 DEF Auth

\* The descriptor of the thread that closes was its connection's alone.
LEMMA CloseConn ==
  ASSUME ConnInv, NEW c \in Conns, Close(c)
  PROVE  ConnInv' /\ Pos(c) = "close" /\ Goes(c, "free")
<1>1. /\ Pos(c) = "close" /\ HasFile(c) /\ thread[c].fd \in Fd
      /\ file' = [file EXCEPT ![thread[c].fd] = 0] /\ thread' = [thread EXCEPT ![c].pc = "free"]
      /\ UNCHANGED <<g_conns, accepted, dead, stuck, watch, history>>
  BY ThreadHas DEF Close, Pos, HasFile, At, clients
<1>2. \A d \in Conns :
        /\ thread'[d].pc = IF d = c THEN "free" ELSE thread[d].pc
        /\ thread'[d].fd = thread[d].fd /\ thread'[d].sock = thread[d].sock
        /\ thread'[d].tries = thread[d].tries
  BY <1>1 DEF ConnInv, ConnTyped
<1>3. \A d \in Conns : HasFile(d)' <=> HasFile(d) /\ d # c
  BY <1>2 DEF HasFile, Pos
<1>4. \A d \in Conns \ {c} : HasFile(d) => thread[d].fd # thread[c].fd
  BY <1>1 DEF ConnInv, Files
<1>5. \A d \in Conns : HasFile(d) => thread[d].fd \in Fd
  BY ThreadHas DEF HasFile
<1>6. ConnTyped'
  <2>1. thread' \in [Conns -> [pc : Pc, fd : Fd \cup {None}, sock : 0..accepted, tries : 0..MaxTries]]
    BY <1>1 DEF ConnInv, ConnTyped, Pc
  <2>2. file' \in [Fd -> 0..accepted]
    BY <1>1 DEF ConnInv, ConnTyped
  <2>. QED  BY <1>1, <2>1, <2>2 DEF ConnInv, ConnTyped, history
<1>7. Entries'
  BY <1>1, <1>2 DEF ConnInv, Entries, Pos
<1>8. \A f \in Fd : file'[f] = IF f = thread[c].fd THEN 0 ELSE file[f]
  BY <1>1 DEF ConnInv, ConnTyped
<1>9. Files'
  <2>1. \A d \in Conns : HasFile(d)' => file'[thread'[d].fd] = Sock(d)'
    BY <1>2, <1>3, <1>4, <1>5, <1>8 DEF ConnInv, Files, Sock
  <2>2. \A d, e \in Conns : HasFile(d)' /\ HasFile(e)' /\ Sock(d)' = Sock(e)' => d = e
    BY <1>2, <1>3 DEF ConnInv, Files, Sock
  <2>3. \A f \in Fd : file'[f] # 0 => \E d \in Conns : HasFile(d)' /\ thread'[d].fd = f
    <3>. SUFFICES ASSUME NEW f \in Fd, file'[f] # 0
                  PROVE  \E d \in Conns : HasFile(d)' /\ thread'[d].fd = f
      OBVIOUS
    <3>1. f # thread[c].fd /\ file[f] # 0
      BY <1>8
    <3>2. PICK d \in Conns : HasFile(d) /\ thread[d].fd = f
      BY <3>1 DEF ConnInv, Files
    <3>. QED  BY <3>1, <3>2, <1>2, <1>3
  <2>. QED  BY <2>1, <2>2, <2>3 DEF Files
<1>. QED  BY <1>1, <1>2, <1>6, <1>7, <1>9 DEF ConnInv, Goes, Pos

LEMMA FreeConn ==
  ASSUME ConnInv, NEW c \in Conns, Free(c)
  PROVE  ConnInv' /\ Pos(c) = "free" /\ Goes(c, "none")
<1>1. /\ Pos(c) = "free" /\ thread' = [thread EXCEPT ![c] = Ended]
      /\ g_conns' = [g_conns EXCEPT ![c].fd = None, ![c].active = FALSE, ![c].hb = "fresh"]
      /\ UNCHANGED <<file, accepted, dead, stuck, watch, history>>
  BY DEF Free, Pos, clients
<1>2. /\ g_conns' = [g_conns EXCEPT ![c] = [fd |-> None, active |-> FALSE, hb |-> "fresh"]]
      /\ \A d \in Conns : /\ thread'[d] = IF d = c THEN Ended ELSE thread[d]
                          /\ Pos(d)' = IF d = c THEN "none" ELSE Pos(d)
  <2>. DEFINE Entry == [fd : Fd \cup {None}, active : BOOLEAN, hb : Age]
              A == [g_conns EXCEPT ![c].fd = None]
              B == [A EXCEPT ![c].active = FALSE]
  <2>1. A \in [Conns -> Entry]
    BY DEF ConnInv, ConnTyped
  <2>2. A[c].fd = None /\ \A d \in Conns \ {c} : A[d] = g_conns[d]
    BY DEF ConnInv, ConnTyped
  <2>3. g_conns' = [B EXCEPT ![c].hb = "fresh"] /\ "fresh" \in Age
    BY <1>1 DEF Age
  <2>. HIDE DEF A
  <2>4. B \in [Conns -> Entry] /\ B[c].fd = None /\ ~B[c].active
    BY <2>1, <2>2
  <2>5. \A d \in Conns \ {c} : B[d] = g_conns[d]
    BY <2>1, <2>2
  <2>. HIDE DEF B
  <2>6. g_conns' \in [Conns -> Entry]
    BY <2>3, <2>4
  <2>7. g_conns'[c] = [fd |-> None, active |-> FALSE, hb |-> "fresh"]
    BY <2>3, <2>4
  <2>8. \A d \in Conns \ {c} : g_conns'[d] = g_conns[d]
    BY <2>3, <2>4, <2>5
  <2>9. g_conns' = [g_conns EXCEPT ![c] = [fd |-> None, active |-> FALSE, hb |-> "fresh"]]
    BY <2>6, <2>7, <2>8 DEF ConnInv, ConnTyped
  <2>. QED  BY <1>1, <2>9 DEF ConnInv, ConnTyped, Ended, Pos
<1>3. \A d \in Conns : HasFile(d)' <=> HasFile(d)
  BY <1>1, <1>2 DEF HasFile
<1>4. ConnTyped'
  <2>1. Ended \in [pc : Pc, fd : Fd \cup {None}, sock : 0..accepted, tries : 0..MaxTries]
    BY ArenaAssumption DEF Ended, Pc, ConnInv, ConnTyped
  <2>2. thread' \in [Conns -> [pc : Pc, fd : Fd \cup {None}, sock : 0..accepted, tries : 0..MaxTries]]
    BY <1>1, <2>1 DEF ConnInv, ConnTyped
  <2>3. g_conns' \in [Conns -> [fd : Fd \cup {None}, active : BOOLEAN, hb : Age]]
    BY <1>2 DEF Age, ConnInv, ConnTyped
  <2>. QED  BY <1>1, <2>2, <2>3 DEF ConnInv, ConnTyped, history
<1>5. Entries'
  <2>1. /\ \A d \in Conns \ {c} : thread'[d] = thread[d] /\ g_conns'[d] = g_conns[d] /\ Pos(d)' = Pos(d)
        /\ thread'[c] = Ended /\ Pos(c)' = "none"
        /\ g_conns'[c] = [fd |-> None, active |-> FALSE, hb |-> "fresh"]
    BY <1>2 DEF ConnInv, ConnTyped
  <2>. QED  BY <2>1 DEF ConnInv, Entries, Ended
<1>6. Files'
  <2>1. \A d \in Conns : HasFile(d) => thread'[d] = thread[d]
    BY <1>1, <1>2 DEF HasFile
  <2>. QED  BY <1>1, <1>3, <2>1 DEF ConnInv, Files, Sock
<1>. QED  BY <1>1, <1>2, <1>4, <1>5, <1>6 DEF ConnInv, Goes

-----------------------------------------------------------------------------
(* The room.                                                               *)

\* The room is a finite set of entries.
LEMMA SeatedFacts ==
  ASSUME RoomTyped
  PROVE  /\ Seated \subseteq Conns /\ IsFiniteSet(Seated) /\ IsFiniteSet(alive)
         /\ Cardinality(Seated) \in Nat /\ Cardinality(alive) \in Nat
<1>1. Seated \subseteq Conns
  BY DEF RoomTyped, Seated, Online
<1>2. alive \subseteq Seated
  BY DEF RoomTyped
<1>3. IsFiniteSet(Seated)
  BY <1>1, Numbers, FS_Subset
<1>4. IsFiniteSet(alive)
  BY <1>2, <1>3, FS_Subset
<1>. QED  BY <1>1, <1>3, <1>4, FS_CardinalityType

\* The room stays as it is, and so does the holder of the mutex, who may send.
LEMMA RoomStays ==
  ASSUME RoomInv, UNCHANGED <<room, mutex>>, todo' \subseteq todo,
         \A c \in Seated : Pos(c)' \in SeatPos,
         \A c \in todo : Pos(c)' \in TellPos
  PROVE  RoomInv'
<1>1. RoomTyped' /\ RunningHasTwo'
  BY DEF RoomInv, RoomTyped, RunningHasTwo, room, Seated, Online
<1>2. Seating'
  BY DEF RoomInv, Seating, room, Seated, Online
<1>. QED  BY <1>1, <1>2 DEF RoomInv

\* After a change of the room its new seats are to be told.
LEMMA TellsStep ==
  ASSUME RoomInv, NEW h \in Conns \cup {Weapon}, Tells(h),
         g_slot_conn' \in [Slots -> Conns \cup {None}],
         ready' \subseteq Seated', alive' \subseteq Seated',
         game_started' \in BOOLEAN, game_over' \in BOOLEAN, winner_conn' \in Conns \cup {None},
         RunningHasTwo',
         \A c \in Seated' : Pos(c)' \in SeatPos
  PROVE  RoomInv'
<1>1. Seated' \subseteq Conns
  BY DEF Seated, Online
<1>2. RoomTyped'
  BY <1>1 DEF RoomTyped, Tells
<1>3. Seating'
  BY Numbers DEF Seating, Tells, SeatPos, TellPos
<1>. QED  BY <1>2, <1>3 DEF RoomInv

\* Who has joined last, besides those who were seated.
LEMMA JoinSeats ==
  ASSUME RoomTyped, NEW c \in Conns, Join(c)
  PROVE  g_slot_conn' \in [Slots -> Conns \cup {None}] /\ Seated' = Seated \cup {c}
<1>. DEFINE g == Lowest(FreeSlots)
<1>1. g \in FreeSlots
  BY LowestIsIn, Numbers DEF Join, FreeSlots
<1>2. g_slot_conn' = [g_slot_conn EXCEPT ![g] = c]
  BY DEF Join
<1>. HIDE DEF g
<1>3. g \in Slots /\ g_slot_conn[g] = None
  BY <1>1 DEF FreeSlots, Online
<1>4. g_slot_conn' \in [Slots -> Conns \cup {None}]
  BY <1>2 DEF RoomTyped
<1>5. \A h \in Slots : g_slot_conn'[h] = IF h = g THEN c ELSE g_slot_conn[h]
  BY <1>2 DEF RoomTyped
<1>6. Seated' = Seated \cup {c}
  BY <1>3, <1>5, Numbers DEF Seated, Online
<1>. QED  BY <1>4, <1>6

\* Who leaves has no seat afterwards, and everybody else has his.
LEMMA LeaveSeats ==
  ASSUME RoomTyped, NEW c \in Conns, RemoveFromGame(c)
  PROVE  g_slot_conn' \in [Slots -> Conns \cup {None}] /\ Seated' = Seated \ {c}
<1>1. g_slot_conn' = [g \in Slots |-> IF g_slot_conn[g] = c THEN None ELSE g_slot_conn[g]]
  BY DEF RemoveFromGame
<1>. QED  BY <1>1, Numbers DEF RoomTyped, Seated, Online

LEMMA JoinRoom ==
  ASSUME RoomInv, NEW c \in Conns, Join(c), Goes(c, "game")
  PROVE  RoomInv' /\ c \notin Seated
<1>1. Pos(c) = "lobby" /\ Tells(c)
  BY DEF Join, Reads, Pos
<1>2. c \notin Seated
  BY <1>1 DEF RoomInv, Seating, SeatPos
<1>3. g_slot_conn' \in [Slots -> Conns \cup {None}] /\ Seated' = Seated \cup {c}
  BY JoinSeats DEF RoomInv
<1>4. \A d \in Seated' : Pos(d)' \in SeatPos
  BY <1>3, SeatedFacts DEF RoomInv, Seating, SeatPos, Goes
<1>5. RunningHasTwo' /\ UNCHANGED <<ready, alive, game_started, game_over, winner_conn>>
  BY DEF Join, RoomInv, RunningHasTwo
<1>. QED  BY <1>1, <1>2, <1>3, <1>4, <1>5, TellsStep DEF RoomInv, RoomTyped

LEMMA ReadyRoom ==
  ASSUME RoomInv, NEW c \in Conns, Ready(c), UNCHANGED thread
  PROVE  RoomInv'
<1>1. Tells(c) /\ c \in Seated /\ ~game_started /\ UNCHANGED g_slot_conn
  BY DEF Ready
<1>2. Seated' = Seated /\ g_slot_conn' \in [Slots -> Conns \cup {None}]
  BY <1>1 DEF Seated, Online, RoomInv, RoomTyped
<1>3. \A d \in Seated' : Pos(d)' \in SeatPos
  BY <1>2 DEF RoomInv, Seating, Pos
<1>4. CASE AllReady(ready \cup {c}) /\ ResetGame
  <2>1. Cardinality(Seated) >= 2
    BY <1>4 DEF AllReady
  <2>2. RunningHasTwo'
    BY <1>4, <2>1 DEF ResetGame, RunningHasTwo
  <2>. QED  BY <1>1, <1>2, <1>3, <1>4, <2>2, TellsStep DEF ResetGame
<1>5. CASE ready' = ready \cup {c} /\ UNCHANGED <<alive, game_started, game_over, winner_conn>>
  <2>1. RunningHasTwo' /\ ready' \subseteq Seated'
    BY <1>1, <1>2, <1>5 DEF RoomInv, RoomTyped, RunningHasTwo
  <2>. QED  BY <1>1, <1>2, <1>3, <1>5, <2>1, TellsStep DEF RoomInv, RoomTyped
<1>. QED  BY <1>4, <1>5 DEF Ready

\* A kill ends the round or leaves two at least.
LEMMA KillRoom ==
  ASSUME RoomInv, NEW c \in Conns, Kill(c), UNCHANGED thread
  PROVE  /\ RoomInv' /\ Cardinality(alive') \in Nat
         /\ Cardinality(alive') >= 1 /\ c \in alive'
<1>1. Tells(c) /\ game_started /\ ~game_over /\ c \in alive /\ UNCHANGED <<g_slot_conn, ready, game_started>>
  BY DEF Kill
<1>2. PICK d \in alive \ {c} : alive' = alive \ {d}
  BY DEF Kill
<1>3. Seated' = Seated /\ g_slot_conn' \in [Slots -> Conns \cup {None}]
  BY <1>1 DEF Seated, Online, RoomInv, RoomTyped
<1>4. \A e \in Seated' : Pos(e)' \in SeatPos
  BY <1>3 DEF RoomInv, Seating, Pos
<1>5. Cardinality(alive') \in Nat /\ Cardinality(alive') >= 1
  <2>1. IsFiniteSet(alive) /\ Cardinality(alive) \in Nat /\ Cardinality(alive) >= 2
    BY <1>1, SeatedFacts DEF RoomInv, RunningHasTwo
  <2>2. Cardinality(alive \ {d}) = Cardinality(alive) - 1
    BY <2>1, FS_RemoveElement
  <2>. QED  BY <1>2, <2>1, <2>2
<1>6. alive' \subseteq Seated' /\ ready' \subseteq Seated'
  BY <1>1, <1>2, <1>3 DEF RoomInv, RoomTyped
<1>7. RunningHasTwo' /\ game_over' \in BOOLEAN /\ winner_conn' \in Conns \cup {None}
  <2>1. CASE Cardinality(alive') <= 1 /\ game_over' = TRUE /\ winner_conn' = c
    BY <2>1 DEF RunningHasTwo
  <2>2. CASE Cardinality(alive') > 1 /\ UNCHANGED <<game_over, winner_conn>>
    BY <1>5, <2>2 DEF RunningHasTwo, RoomInv, RoomTyped
  <2>. QED  BY <2>1, <2>2 DEF Kill
<1>8. game_started' \in BOOLEAN
  BY <1>1 DEF RoomInv, RoomTyped
<1>. QED  BY <1>1, <1>2, <1>3, <1>4, <1>5, <1>6, <1>7, <1>8, TellsStep

\* In a round that runs, who leaves is not the last one in the room.
LEMMA LeaveRoom ==
  ASSUME RoomInv, NEW c \in Conns, Leave(c), c \in Seated, Goes(c, "close")
  PROVE  /\ RoomInv' /\ Seated' = Seated \ {c}
         /\ ready' = ready \ {c} /\ alive' = alive \ {c}
         /\ game_started' = game_started
         /\ \/ /\ game_started /\ ~game_over /\ Cardinality(alive') = 1
               /\ game_over' = TRUE /\ winner_conn' \in alive'
            \/ /\ ~(game_started /\ ~game_over /\ Cardinality(alive') = 1)
               /\ UNCHANGED <<game_over, winner_conn>>
<1>. DEFINE left == alive \ {c}
            ends == game_started /\ ~game_over /\ Cardinality(left) = 1
            none == game_started /\ ~game_over /\ Seated = {c}
<1>1. RemoveFromGame(c) /\ Tells(c)
  BY DEF Leave
<1>2. g_slot_conn' \in [Slots -> Conns \cup {None}] /\ Seated' = Seated \ {c}
  BY <1>1, LeaveSeats DEF RoomInv
<1>3. /\ ready' = ready \ {c} /\ alive' = left
      /\ game_started' = (game_started /\ ~none) /\ game_over' = (game_over \/ ends)
      /\ winner_conn' = IF ends THEN CHOOSE d \in left : TRUE ELSE winner_conn
  BY <1>1 DEF RemoveFromGame
<1>4. IsFiniteSet(alive) /\ Cardinality(alive) \in Nat /\ alive \subseteq Seated
  BY SeatedFacts DEF RoomInv, RoomTyped
<1>5. /\ IsFiniteSet(left) /\ Cardinality(left) \in Nat
      /\ Cardinality(left) = IF c \in alive THEN Cardinality(alive) - 1 ELSE Cardinality(alive)
  BY <1>4, FS_RemoveElement, FS_CardinalityType
<1>6. game_started /\ ~game_over => Cardinality(left) >= 1
  BY <1>4, <1>5 DEF RoomInv, RunningHasTwo
<1>7. Cardinality(left) >= 1 => left # {} /\ ~none
  <2>1. Cardinality({}) = 0
    BY FS_EmptySet
  <2>. QED  BY <1>4, <2>1
<1>8. game_started' = game_started
  BY <1>3, <1>6, <1>7 DEF RoomInv, RoomTyped
<1>9. ends => game_over' = TRUE /\ winner_conn' \in left
  <2>. HIDE DEF left
  <2>. QED  BY <1>3, <1>6, <1>7
<1>10. ~ends => UNCHANGED <<game_over, winner_conn>>
  BY <1>3 DEF RoomInv, RoomTyped
<1>11. RunningHasTwo'
  <2>1. CASE ends
    BY <2>1, <1>9 DEF RunningHasTwo
  <2>2. CASE ~ends
    BY <2>2, <1>3, <1>5, <1>6, <1>8, <1>10 DEF RunningHasTwo
  <2>. QED  BY <2>1, <2>2
<1>12. \A d \in Seated' : Pos(d)' \in SeatPos
  BY <1>2, SeatedFacts DEF RoomInv, Seating, Goes
<1>13. ready' \subseteq Seated' /\ alive' \subseteq Seated'
  BY <1>2, <1>3 DEF RoomInv, RoomTyped
<1>14. game_over' \in BOOLEAN /\ winner_conn' \in Conns \cup {None} /\ game_started' \in BOOLEAN
  BY <1>4, <1>8, <1>9, <1>10, SeatedFacts DEF RoomInv, RoomTyped
<1>15. RoomInv'
  BY <1>1, <1>2, <1>11, <1>12, <1>13, <1>14, TellsStep
<1>. QED  BY <1>2, <1>3, <1>8, <1>9, <1>10, <1>15

-----------------------------------------------------------------------------
(* The invariant, and what follows from it.                                *)

LEMMA InitOK == Init => ArenaInv
<1>. SUFFICES ASSUME Init PROVE ArenaInv
  OBVIOUS
<1>. USE DEF Init, Unused, Ended
<1>1. 0 \in 0..MaxTries /\ 0 \in 0..accepted /\ 0 \in Nat
  BY ArenaAssumption
<1>2. ConnInv
  BY <1>1, Numbers DEF Age, ConnInv, ConnTyped, Entries, Files, Pos, HasFile, Pc
<1>3. Seated = {}
  BY DEF Seated, Online
<1>4. RoomInv
  BY <1>3 DEF RoomInv, RoomTyped, Seating, RunningHasTwo
<1>. QED  BY <1>2, <1>4 DEF ArenaInv

\* A thread goes on that has no seat to lose, or keeps it.
LEMMA RoomOfOneThread ==
  ASSUME RoomInv, NEW c \in Conns, NEW q, Goes(c, q), UNCHANGED <<room, mutex, todo>>,
         \/ Pos(c) \notin TellPos
         \/ Pos(c) = "lobby" /\ q \in TellPos
         \/ q \in SeatPos
  PROVE  RoomInv'
<1>1. \A d \in Seated : Pos(d)' \in SeatPos
  BY SeatedFacts DEF RoomInv, Seating, Goes, SeatPos, TellPos
<1>2. \A d \in todo : Pos(d)' \in TellPos
  BY DEF RoomInv, RoomTyped, Seating, Goes, SeatPos, TellPos
<1>. QED  BY <1>1, <1>2, RoomStays

LEMMA StayingRoom ==
  ASSUME RoomInv, Staying, UNCHANGED thread
  PROVE  RoomInv'
<1>1. \A c \in Seated : Pos(c)' \in SeatPos
  BY DEF RoomInv, Seating, Pos
<1>2. \A c \in todo : Pos(c)' \in TellPos
  BY DEF RoomInv, Seating, Pos
<1>3. CASE Send \/ WatchKick \/ \E c \in Conns : \/ HangUp(c) \/ StopReading(c) \/ Ages(c)
                                                \/ NoteAck(c) \/ WatchLook(c)
  BY <1>1, <1>2, <1>3, RoomStays
     DEF Send, WatchKick, HangUp, StopReading, Ages, NoteAck, WatchLook
<1>4. CASE Unlock
  BY <1>1, <1>4 DEF Unlock, RoomInv, RoomTyped, Seating, RunningHasTwo, room, Seated, Online
<1>5. ASSUME NEW h \in Conns \cup {Weapon}, Tells(h), UNCHANGED room PROVE RoomInv'
  <2>1. Seated' = Seated
    BY <1>5 DEF room, Seated, Online
  <2>. QED  BY <1>1, <1>5, <2>1, TellsStep DEF room, RoomInv, RoomTyped, RunningHasTwo
<1>6. CASE SpawnWeapon \/ \E c \in Conns : Act(c)
  BY <1>5, <1>6 DEF SpawnWeapon, Act
<1>7. ASSUME NEW c \in Conns, JoinFull(c) PROVE RoomInv'
  <2>1. Pos(c) = "lobby" /\ mutex' = c /\ todo' = {c} /\ UNCHANGED <<room, thread>>
    BY <1>7 DEF JoinFull, Reads, Pos, connLayer
  <2>. QED  BY <1>1, <2>1, Numbers
            DEF RoomInv, RoomTyped, Seating, RunningHasTwo, room, Seated, Online, Pos, TellPos
<1>. QED  BY <1>3, <1>4, <1>6, <1>7, ReadyRoom, KillRoom DEF Staying

LEMMA HandlerStep ==
  ASSUME ArenaInv, NEW c \in Conns,
         Answer(c) \/ Auth(c) \/ Join(c) \/ Fails(c) \/ Leave(c) \/ Close(c) \/ Free(c)
  PROVE  ArenaInv' /\ (Leave(c) => Goes(c, "close")) /\ (Join(c) => Goes(c, "game"))
<1>. USE DEF ArenaInv
<1>1. CASE Answer(c)
  <2>1. PICK q \in {Pos(c), "stalled"} : Goes(c, q)
    BY <1>1, AnswerConn
  <2>2. ConnInv' /\ Pos(c) \in {"auth", "lobby", "game"} /\ UNCHANGED <<room, mutex, todo>>
    BY <1>1, AnswerConn DEF Answer
  <2>3. RoomInv'
    BY <2>1, <2>2, RoomOfOneThread DEF SeatPos, TellPos
  <2>4. ~Leave(c) /\ ~Join(c)
    BY <2>2, Numbers DEF Leave, Join, Tells, Pos
  <2>. QED  BY <2>2, <2>3, <2>4
<1>2. CASE Auth(c)
  <2>1. PICK q \in Pc : Goes(c, q)
    BY <1>2, AuthConn
  <2>2. ConnInv' /\ Pos(c) = "auth" /\ UNCHANGED <<room, mutex, todo>>
    BY <1>2, AuthConn DEF Auth
  <2>3. RoomInv'
    BY <2>1, <2>2, RoomOfOneThread DEF TellPos
  <2>. QED  BY <2>2, <2>3 DEF Leave, Join, Reads, Pos
<1>3. CASE Join(c)
  <2>1. Pos(c) = "lobby" /\ HasFile(c) /\ At(c, "game") /\ UNCHANGED <<g_conns, file, clients, watch, history>>
    BY <1>3 DEF Join, Reads, Pos, HasFile
  <2>2. ConnInv' /\ Goes(c, "game")
    BY <2>1, AtConn DEF Pc
  <2>. QED  BY <1>3, <2>1, <2>2, JoinRoom DEF Leave, Pos
<1>4. CASE Fails(c)
  <2>1. /\ Pos(c) \in {"auth", "lobby", "game", "stalled"} /\ HasFile(c) /\ At(c, "leave")
        /\ UNCHANGED <<g_conns, file, clients, watch, history, room, mutex, todo>>
    BY <1>4 DEF Fails, Pos, HasFile
  <2>2. ConnInv' /\ Goes(c, "leave")
    BY <2>1, AtConn DEF Pc
  <2>3. RoomInv'
    BY <2>1, <2>2, RoomOfOneThread DEF SeatPos
  <2>4. ~Leave(c) /\ (Join(c) => Goes(c, "game"))
    BY <2>1, <2>2 DEF Leave, Join, At, Pos, ConnInv, ConnTyped
  <2>. QED  BY <2>2, <2>3, <2>4
<1>5. CASE Leave(c)
  <2>1. /\ Pos(c) = "leave" /\ HasFile(c) /\ At(c, "close") /\ mutex = None
        /\ UNCHANGED <<g_conns, file, clients, watch, history>>
    BY <1>5 DEF Leave, Pos, HasFile
  <2>2. ConnInv' /\ Goes(c, "close")
    BY <2>1, AtConn DEF Pc
  <2>3. CASE c \in Seated
    BY <1>5, <2>1, <2>2, <2>3, LeaveRoom DEF Join, Reads, Pos
  <2>4. CASE c \notin Seated
    <3>1. UNCHANGED <<room, mutex, todo>> /\ todo = {}
      BY <1>5, <2>1, <2>4 DEF Leave, RoomInv, Seating
    <3>2. \A d \in Seated : Pos(d)' \in SeatPos
      BY <2>2, <2>4, SeatedFacts DEF RoomInv, Seating, Goes
    <3>3. RoomInv'
      BY <3>1, <3>2, RoomStays
    <3>. QED  BY <2>1, <2>2, <3>3 DEF Join, Reads, Pos
  <2>. QED  BY <2>3, <2>4
<1>6. CASE Close(c) \/ Free(c)
  <2>1. PICK q \in {"free", "none"} : Goes(c, q)
    BY <1>6, CloseConn, FreeConn
  <2>2. ConnInv' /\ Pos(c) \in {"close", "free"} /\ UNCHANGED <<room, mutex, todo>>
    BY <1>6, CloseConn, FreeConn DEF Close, Free
  <2>3. RoomInv'
    BY <2>1, <2>2, RoomOfOneThread DEF TellPos
  <2>. QED  BY <2>2, <2>3 DEF Leave, Join, Reads, Pos
<1>. QED  BY <1>1, <1>2, <1>3, <1>4, <1>5, <1>6

LEMMA AcceptRoom == ArenaInv /\ Accept => RoomInv'
<1>. SUFFICES ASSUME ArenaInv, Accept PROVE RoomInv'
  OBVIOUS
<1>. DEFINE free == {c \in Conns : ~g_conns[c].active /\ g_conns[c].fd = None}
            c  == Lowest(free)
<1>1. UNCHANGED <<room, mutex, todo>>
  BY DEF Accept
<1>2. CASE UNCHANGED connLayer
  BY <1>1, <1>2, RoomStays DEF ArenaInv, RoomInv, Seating, Pos, connLayer
<1>3. CASE free # {}
  <2>1. c \in free
    <3>. HIDE DEF c
    <3>. QED  BY <1>3, LowestIsIn, Numbers DEF c
  <2>2. c \in Conns /\ Pos(c) = "none"
    BY <2>1 DEF ArenaInv, ConnInv, Entries
  <2>3. PICK e : thread' = [thread EXCEPT ![c] = e]
    BY <1>3 DEF Accept
  <2>. HIDE DEF c
  <2>4. Goes(c, e.pc)
    BY <2>2, <2>3 DEF Goes, Pos, ArenaInv, ConnInv, ConnTyped
  <2>. QED  BY <1>1, <2>2, <2>4, RoomOfOneThread DEF ArenaInv, TellPos
<1>. QED  BY <1>2, <1>3 DEF Accept

LEMMA NextOK == ArenaInv /\ [Next]_vars => ArenaInv'
<1>. SUFFICES ASSUME ArenaInv, [Next]_vars PROVE ArenaInv'
  OBVIOUS
<1>1. CASE UNCHANGED vars
  <2>1. ConnInv'
    BY <1>1 DEF vars, connLayer, clients, history, ArenaInv, ConnInv, ConnTyped, Entries, Files,
                Pos, HasFile, Sock
  <2>2. RoomInv'
    BY <1>1, RoomStays DEF vars, connLayer, ArenaInv, RoomInv, Seating, Pos
  <2>. QED  BY <2>1, <2>2 DEF ArenaInv
<1>2. CASE Accept
  BY <1>2, AcceptConn, AcceptRoom DEF ArenaInv
<1>3. CASE Staying
  BY <1>3, StayingConn, StayingRoom DEF ArenaInv
<1>4. ASSUME NEW c \in Conns,
             Answer(c) \/ Auth(c) \/ Join(c) \/ Fails(c) \/ Leave(c) \/ Close(c) \/ Free(c)
      PROVE  ArenaInv'
  BY <1>4, HandlerStep
<1>. QED  BY <1>1, <1>2, <1>3, <1>4 DEF Next, Handler, Staying

LEMMA Invariance == Spec => []ArenaInv
<1>. QED  BY InitOK, NextOK, PTL DEF Spec

(* Every variable keeps its type; only who is in the room is ready or      *)
(* alive, for any number of entries and seats.                             *)
THEOREM ArenaTypeCorrect == Spec => []TypeOK
<1>1. ArenaInv => TypeOK
  BY DEF ArenaInv, ConnInv, RoomInv, ConnTyped, RoomTyped, TypeOK
<1>. QED  BY <1>1, Invariance, PTL

(* A state that is sent for a seat goes to the connection that has it,     *)
(* although descriptors are closed and used again without the mutex.       *)
THEOREM SentToTheSeatedAlways == Spec => []SentToTheSeated
<1>1. ArenaInv => SentToTheSeated
  <2>. SUFFICES ASSUME ArenaInv, NEW c \in todo PROVE Written(c) = Sock(c) /\ Sock(c) # 0
    BY DEF SentToTheSeated
  <2>1. c \in Conns /\ HasFile(c) /\ Pos(c) # "none"
    BY DEF ArenaInv, RoomInv, RoomTyped, Seating, TellPos, HasFile
  <2>2. /\ thread[c].fd \in Fd /\ g_conns[c].fd = thread[c].fd
        /\ Sock(c) # 0 /\ file[thread[c].fd] = Sock(c)
    BY <2>1, ThreadHas DEF ArenaInv, ConnInv, Entries, Files, Sock
  <2>. QED  BY <2>2, Numbers DEF Written
<1>. QED  BY <1>1, Invariance, PTL

-----------------------------------------------------------------------------
(* The room behind the threads.                                            *)

\* SharedRound counts as this module does.
LEMMA RoomCardinality == \A S : Room!Cardinality(S) = Cardinality(S)
BY DEF Room!Cardinality, Cardinality

\* Steps that leave the room alone change nothing of what it promises.
LEMMA RoomUntouched == UNCHANGED room => UNCHANGED Room!vars
BY DEF room, Room!vars, Seated, Online

LEMMA JoinIsEnter ==
  ASSUME ArenaInv, NEW c \in Conns, Join(c)
  PROVE  Room!Enter(c)
<1>1. Seated' = Seated \cup {c} /\ UNCHANGED <<ready, alive, game_started, game_over, winner_conn>>
  BY JoinSeats DEF Join, ArenaInv, RoomInv
<1>2. c \notin Seated
  BY DEF Join, Reads, ArenaInv, RoomInv, Seating, SeatPos, Pos
<1>. QED  BY <1>1, <1>2 DEF Room!Enter

LEMMA ReadyIsPromised ==
  ASSUME ArenaInv, NEW c \in Conns, Ready(c)
  PROVE  Room!GetReady(c) \/ Room!Start(c)
<1>1. ~game_started /\ c \in Seated /\ UNCHANGED g_slot_conn
  BY DEF Ready
<1>2. Seated' = Seated
  BY <1>1 DEF Seated, Online
<1>3. Room!AllReady(ready \cup {c}) <=> AllReady(ready \cup {c})
  BY RoomCardinality DEF AllReady, Room!AllReady
<1>4. CASE AllReady(ready \cup {c}) /\ ResetGame
  BY <1>1, <1>2, <1>3, <1>4 DEF ResetGame, Room!Start
<1>5. CASE /\ ~AllReady(ready \cup {c})
           /\ ready' = ready \cup {c}
           /\ UNCHANGED <<alive, game_started, game_over, winner_conn>>
  BY <1>1, <1>2, <1>3, <1>5 DEF Room!GetReady
<1>. QED  BY <1>4, <1>5 DEF Ready

LEMMA KillIsFall ==
  ASSUME ArenaInv, NEW c \in Conns, Kill(c)
  PROVE  \E d \in Conns : Room!Fall(d)
<1>1. /\ game_started /\ ~game_over /\ UNCHANGED <<g_slot_conn, ready, game_started, thread>>
      /\ alive \subseteq Conns
  BY SeatedFacts DEF Kill, connLayer, ArenaInv, RoomInv, RoomTyped
<1>2. PICK d \in alive \ {c} : alive' = alive \ {d}
  BY DEF Kill
<1>3. Cardinality(alive') \in Nat /\ Cardinality(alive') >= 1 /\ c \in alive'
  BY <1>1, KillRoom DEF ArenaInv
<1>4. Seated' = Seated
  BY <1>1 DEF Seated, Online
<1>5. CASE Cardinality(alive') <= 1 /\ game_over' = TRUE /\ winner_conn' = c
  <2>1. Cardinality(alive') = 1
    BY <1>3, <1>5
  <2>. QED  BY <1>1, <1>2, <1>3, <1>4, <1>5, <2>1, RoomCardinality DEF Room!Fall, Room!Out
<1>6. CASE Cardinality(alive') > 1 /\ UNCHANGED <<game_over, winner_conn>>
  <2>1. Cardinality(alive') # 1
    BY <1>3, <1>6
  <2>. QED  BY <1>1, <1>2, <1>4, <1>6, <2>1, RoomCardinality DEF Room!Fall, Room!Out
<1>. QED  BY <1>5, <1>6 DEF Kill

LEMMA LeaveIsLeave ==
  ASSUME ArenaInv, NEW c \in Conns, Leave(c)
  PROVE  [Room!Leave(c)]_(Room!vars)
<1>1. CASE c \notin Seated
  BY <1>1, RoomUntouched DEF Leave
<1>2. CASE c \in Seated
  <2>1. Goes(c, "close")
    BY HandlerStep
  <2>2. /\ Seated' = Seated \ {c} /\ ready' = ready \ {c} /\ alive' = alive \ {c}
        /\ game_started' = game_started
        /\ \/ /\ game_started /\ ~game_over /\ Cardinality(alive') = 1
              /\ game_over' = TRUE /\ winner_conn' \in alive'
           \/ /\ ~(game_started /\ ~game_over /\ Cardinality(alive') = 1)
              /\ UNCHANGED <<game_over, winner_conn>>
    BY <1>2, <2>1, LeaveRoom DEF ArenaInv
  <2>3. CASE game_started /\ ~game_over
    BY <1>2, <2>2, <2>3, RoomCardinality DEF Room!Leave, Room!Out
  <2>4. CASE ~(game_started /\ ~game_over)
    BY <1>2, <2>2, <2>4 DEF Room!Leave
  <2>. QED  BY <2>3, <2>4
<1>. QED  BY <1>1, <1>2

(* The threads, the weapons and the watcher implement one room with its    *)
(* rounds, which does not reopen once a round is over.                     *)
THEOREM ImplementsSharedRoundOnce == Spec => ImplementsRound
<1>1. Init => Room!Init
  BY DEF Init, Room!Init, Seated, Online
<1>2. ArenaInv /\ [Next]_vars => [Room!Next]_(Room!vars)
  <2>. SUFFICES ASSUME ArenaInv, [Next]_vars PROVE [Room!Next]_(Room!vars)
    OBVIOUS
  <2>1. CASE Accept \/ Send \/ Unlock \/ SpawnWeapon \/ WatchKick \/ UNCHANGED vars
    BY <2>1, RoomUntouched DEF Accept, Send, Unlock, SpawnWeapon, WatchKick, vars
  <2>2. ASSUME NEW c \in Conns,
               \/ HangUp(c) \/ StopReading(c) \/ Ages(c) \/ WatchLook(c) \/ Answer(c)
               \/ NoteAck(c) \/ Auth(c)
               \/ JoinFull(c) \/ Act(c) \/ Fails(c) \/ Close(c) \/ Free(c)
        PROVE  UNCHANGED Room!vars
    BY <2>2, RoomUntouched
       DEF HangUp, StopReading, Ages, WatchLook, Answer, NoteAck, Auth, JoinFull, Act, Fails,
           Close, Free
  <2>3. ASSUME NEW c \in Conns, Join(c) \/ Ready(c) \/ Kill(c) \/ Leave(c)
        PROVE  [Room!Next]_(Room!vars)
    BY <2>3, JoinIsEnter, ReadyIsPromised, KillIsFall, LeaveIsLeave DEF Room!Next
  <2>. QED  BY <2>1, <2>2, <2>3 DEF Next, Handler
<1>. QED  BY <1>1, <1>2, Invariance, PTL DEF Spec, ImplementsRound, Room!Spec
=============================================================================
