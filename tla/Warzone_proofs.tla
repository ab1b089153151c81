--------------------------- MODULE Warzone_proofs ---------------------------
(***************************************************************************)
(* What holds of the Warzone room for every number of entries, of seats    *)
(* and of accounts, on every map.  The invariant is RoomInv: a connection  *)
(* has one seat at most, and has one only while its goroutine is in the    *)
(* third phase; those who fight the round are seated; and an entry that is *)
(* stale, or that heartbeatWatcher has copied, was late.  With it the last *)
(* part shows that the handlers implement the room of SharedRound.         *)
(***************************************************************************)
EXTENDS Warzone, FiniteSetTheorems, TLAPS

AnyEntry ==
  [sock : Nat, phase : Phase, username : User \cup {NoUser}, tries : Nat, stale : BOOLEAN]

History ==
  [fought : SUBSET Conns, felled : [Conns -> Nat], fell : SUBSET Conns,
   late : SUBSET Nat, kicked : SUBSET Nat]

Typed ==
  /\ conns \in [Conns -> AnyEntry] /\ accepted \in Nat
  /\ watch \in [entry : Conns \cup {None}, sock : Nat]
  /\ slotConn \in [Slots -> Conns \cup {None}] /\ players \in [Slots -> PlayerState]
  /\ started \in BOOLEAN /\ over \in BOOLEAN
  /\ kills \in [Slots -> Nat] /\ died \in [Slots -> BOOLEAN]
  /\ told = [c \in Conns |-> told[c]]
  /\ ledger \in History

Seating ==
  /\ \A g \in Online : conns[slotConn[g]].phase = "game"
  /\ \A g, h \in Online : slotConn[g] = slotConn[h] => g = h
  /\ ledger.fought \subseteq Seat(Online)

Lateness ==
  /\ watch # NoWatch => watch.sock \in ledger.late
  /\ \A c \in Conns : conns[c].stale => conns[c].sock \in ledger.late
  /\ KickedWasLate

RoomInv == Typed /\ Seating /\ Lateness /\ RunningHasTwo /\ RoomInformed /\ LedgerOfFighters

(* The rest of the type, for which RoomInv is used: entries and sockets,   *)
(* weapons and the winner, and the accounts.                               *)
Entries ==
  /\ \A c \in Conns : /\ conns[c].tries \in 0..MaxTries
                      /\ conns[c].phase = "auth" => conns[c].tries < MaxTries
                      /\ conns[c].sock \in 0..accepted
  /\ open \subseteq 1..accepted
  /\ watch.sock \in 0..accepted

Field ==
  /\ weapons \subseteq Cell /\ IsFiniteSet(weapons) /\ Cardinality(weapons) <= MaxWeapons
  /\ winner \in Conns \cup {None}

(* Whoever is past the first phase has an account, or a name that is lost, *)
(* and who has none has never won.                                         *)
Accounts ==
  /\ users \subseteq User \ Comment /\ stats \in [User -> Record]
  /\ \A c \in Conns :
       conns[c].phase \in {"lobby", "game"} => conns[c].username \in users \cup Comment
  /\ \A u \in User \ users : stats[u].wins = 0

Books == Entries /\ Field /\ Accounts

\* A set of natural numbers has a lowest member.
LEMMA LowestIsIn ==
  ASSUME NEW S, S \subseteq Nat, S # {}
  PROVE  Lowest(S) \in S /\ \A y \in S : Lowest(S) <= y
<1>. DEFINE Less == {p \in Nat \X Nat : p[1] < p[2]}
<1>1. IsWellFoundedOn(Less, Nat)
  BY NatLessThanWellFounded DEF OpToRel
<1>2. \E x \in S : \A y \in S : <<y, x>> \notin Less
  <2>. HIDE DEF Less
  <2>. QED  BY <1>1, WFMin
<1>3. \A x, y \in Nat : <<y, x>> \notin Less => x <= y
  OBVIOUS
<1>4. \E x \in S : \A y \in S : x <= y
  <2>. HIDE DEF Less
  <2>. QED  BY <1>2, <1>3
<1>. QED  BY <1>4 DEF Lowest

LEMMA SlotsFinite ==
  /\ Slots \subseteq Nat /\ IsFiniteSet(Slots) /\ Cardinality(Slots) = MaxPlayers
  /\ MaxPlayers \in 1..5 /\ Conns \subseteq Nat /\ None \notin Conns
  /\ \A S : S \subseteq Slots =>
       IsFiniteSet(S) /\ Cardinality(S) \in Nat /\ Cardinality(S) <= MaxPlayers
<1>1. MaxPlayers \in 1..5 /\ maxConn \in Nat
  BY WarzoneAssumption
<1>2. IsFiniteSet(Slots) /\ Cardinality(Slots) = MaxPlayers
  BY <1>1, FS_Interval DEF Slots
<1>3. \A S : S \subseteq Slots =>
       IsFiniteSet(S) /\ Cardinality(S) \in Nat /\ Cardinality(S) <= MaxPlayers
  BY <1>2, FS_Subset, FS_CardinalityType
<1>. QED  BY <1>1, <1>2, <1>3 DEF Slots, Conns, None

LEMMA OneSeat ==
  ASSUME Typed, Seating, NEW c \in Conns, NEW g \in Slots, slotConn[g] = c
  PROVE  g \in Online /\ connToGameSlot(c) = {g} /\ Lowest(connToGameSlot(c)) = g
<1>1. g \in Online
  BY SlotsFinite DEF Online
<1>2. connToGameSlot(c) = {g}
  BY <1>1, SlotsFinite DEF connToGameSlot, Seating, Online
<1>3. Lowest({g}) = g
  BY LowestIsIn, SlotsFinite
<1>. QED  BY <1>1, <1>2, <1>3

LEMMA Informed ==
  ASSUME Typed', Seating', BroadcastState
  PROVE  RoomInformed'
<1>. SUFFICES ASSUME NEW g \in Online' PROVE told'[slotConn'[g]] = Update(g)'
  BY DEF RoomInformed
<1>1. PICK c \in Conns : c = slotConn'[g]
  BY DEF Online, Typed
<1>2. g \in Slots
  BY DEF Online
<1>3. connToGameSlot(c)' = {g}
  BY <1>1, <1>2, SlotsFinite DEF connToGameSlot, Seating, Online
<1>4. Lowest({g}) = g
  BY <1>2, LowestIsIn, SlotsFinite
<1>5. Seated(c)'
  BY <1>3 DEF Seated
<1>6. told'[c] = Update(Lowest(connToGameSlot(c)))'
  BY <1>5 DEF BroadcastState
<1>. QED  BY <1>1, <1>3, <1>4, <1>6 DEF Update

-----------------------------------------------------------------------------
(* Totals.                                                                 *)

\* Finitely many members have finitely many points.
LEMMA PointsFinite ==
  ASSUME NEW S, IsFiniteSet(S), NEW f, \A x \in S : f[x] \in Nat
  PROVE  IsFiniteSet(Points(f, S)) /\ Total(f, S) \in Nat
<1>. DEFINE P == [x \in S |-> {x} \X (1..f[x])]
            R == {P[x] : x \in S}
<1>1. IsFiniteSet(R)
  <2>1. P \in Surjection(S, R)
    BY DEF Surjection
  <2>. HIDE DEF P, R
  <2>. QED  BY <2>1, FS_Surjection
<1>2. \A T \in R : IsFiniteSet(T)
  <2>. SUFFICES ASSUME NEW x \in S PROVE IsFiniteSet({x} \X (1..f[x]))
    OBVIOUS
  <2>1. 1 \in Int /\ f[x] \in Int
    OBVIOUS
  <2>2. IsFiniteSet({x}) /\ IsFiniteSet(1..f[x])
    BY <2>1, FS_Singleton, FS_Interval
  <2>. QED  BY <2>2, FS_Product
<1>3. Points(f, S) = UNION R
  BY DEF Points
<1>. HIDE DEF R
<1>4. IsFiniteSet(Points(f, S))
  BY <1>1, <1>2, <1>3, FS_UNION
<1>. QED  BY <1>4, FS_CardinalityType DEF Total

\* Who gets d more makes the total d more.
LEMMA TotalAdd ==
  ASSUME NEW S, IsFiniteSet(S), NEW f \in [S -> Nat], NEW u \in S, NEW d \in Nat
  PROVE  Total([f EXCEPT ![u] = f[u] + d], S) = Total(f, S) + d
<1>. DEFINE h == [f EXCEPT ![u] = f[u] + d]
            A == Points(f, S)
            I == (f[u] + 1)..(f[u] + d)
            B == {u} \X I
<1>1. f[u] \in Nat /\ h[u] = f[u] + d /\ \A x \in S \ {u} : h[x] = f[x]
  OBVIOUS
<1>2. IsFiniteSet(A) /\ Cardinality(A) \in Nat /\ Cardinality(A) = Total(f, S)
  BY PointsFinite DEF Total
<1>3. IsFiniteSet(B) /\ Cardinality(B) = d
  <2>1. IsFiniteSet(I) /\ Cardinality(I) = d
    <3>1. PICK a \in Int, b \in Int : a = f[u] + 1 /\ b = f[u] + d
      BY <1>1
    <3>2. IsFiniteSet(a..b) /\ Cardinality(a..b) = IF a > b THEN 0 ELSE b - a + 1
      BY FS_Interval
    <3>. QED  BY <1>1, <3>1, <3>2
  <2>2. IsFiniteSet({u}) /\ Cardinality({u}) = 1
    BY FS_Singleton
  <2>. HIDE DEF I
  <2>3. IsFiniteSet(B) /\ Cardinality(B) = 1 * d
    BY <2>1, <2>2, FS_Product
  <2>. QED  BY <2>3
<1>4. A \cap B = {}
  <2>1. \A p \in A : p[1] \in S /\ p[2] \in 1..f[p[1]]
    BY DEF Points
  <2>2. \A p \in B : p[1] = u /\ p[2] \in I
    OBVIOUS
  <2>. QED  BY <1>1, <2>1, <2>2
<1>5. Points(h, S) = A \cup B
  <2>1. 1..h[u] = (1..f[u]) \cup I
    BY <1>1
  <2>2. {u} \X (1..h[u]) = ({u} \X (1..f[u])) \cup B
    BY <2>1
  <2>3. \A x \in S \ {u} : {x} \X (1..h[x]) = {x} \X (1..f[x])
    BY <1>1
  <2>. HIDE DEF B, h
  <2>. QED  BY <2>2, <2>3 DEF Points
<1>. HIDE DEF A, B, h
<1>6. Cardinality(A \cup B) = Cardinality(A) + Cardinality(B) - Cardinality(A \cap B)
  BY <1>2, <1>3, FS_Union
<1>7. Cardinality(A \cap B) = 0
  BY <1>4, FS_EmptySet
<1>8. Total(h, S) = Total(f, S) + d
  BY <1>2, <1>3, <1>5, <1>6, <1>7 DEF Total
<1>. QED  BY <1>8 DEF h

LEMMA TotalZero ==
  ASSUME NEW S, NEW f, \A x \in S : f[x] = 0
  PROVE  Total(f, S) = 0
<1>1. Points(f, S) = {}
  BY DEF Points
<1>. QED  BY <1>1, FS_EmptySet DEF Total

-----------------------------------------------------------------------------
\* Steps of the connection layer, and answers to who is not in the room.
LEMMA OutsideStep ==
  ASSUME RoomInv,
         UNCHANGED <<slotConn, players, weapons, started, over, winner, kills, died>>,
         told' = [c \in Conns |-> told'[c]],
         \A c \in Conns : conns[c].phase = "game" => told'[c] = told[c],
         conns' \in [Conns -> AnyEntry], accepted' \in Nat,
         watch' \in [entry : Conns \cup {None}, sock : Nat],
         \A c \in Conns : conns[c].phase = "game" => conns'[c].phase = "game",
         ledger' \in History,
         UNCHANGED <<ledger.fought, ledger.felled, ledger.fell>>,
         Lateness'
  PROVE  RoomInv'
<1>1. Typed'
  BY DEF RoomInv, Typed, PlayerState, Cell, AnyEntry, History
<1>2. UNCHANGED <<Online, Alive, AllReady, WinnerID>> /\ \A S : Seat(S)' = Seat(S)
  BY DEF Online, Alive, AllReady, Seat, WinnerID, Seated, connToGameSlot
<1>3. Seating'
  BY <1>2 DEF RoomInv, Typed, Seating, Online
<1>4. RunningHasTwo' /\ LedgerOfFighters'
  BY <1>2 DEF RoomInv, RunningHasTwo, LedgerOfFighters
<1>5. \A g \in Online : told'[slotConn[g]] = told[slotConn[g]]
  BY DEF RoomInv, Typed, Seating, Online
<1>6. RoomInformed'
  BY <1>2, <1>5 DEF RoomInv, RoomInformed, Update
<1>. QED  BY <1>1, <1>3, <1>4, <1>6 DEF RoomInv

LEMMA ConnectionStep ==
  ASSUME RoomInv,
         UNCHANGED <<slotConn, players, weapons, started, over, winner, kills, died, told>>,
         conns' \in [Conns -> AnyEntry], accepted' \in Nat,
         watch' \in [entry : Conns \cup {None}, sock : Nat],
         \A c \in Conns : conns[c].phase = "game" => conns'[c].phase = "game",
         ledger' \in History,
         UNCHANGED <<ledger.fought, ledger.felled, ledger.fell>>,
         Lateness'
  PROVE  RoomInv'
<1>1. told = [c \in Conns |-> told[c]]
  BY DEF RoomInv, Typed
<1>2. told' = [c \in Conns |-> told'[c]]
  BY <1>1
<1>. QED  BY <1>2, OutsideStep

LEMMA AcceptStep ==
  ASSUME RoomInv, Accept
  PROVE  RoomInv'
<1>. DEFINE free == {c \in Conns : conns[c].phase = "free"}
            c == Lowest(free)
            e == [Free EXCEPT !.sock = accepted', !.phase = "auth"]
<1>1. /\ accepted' = accepted + 1
      /\ \/ free # {} /\ conns' = [conns EXCEPT ![c] = e]
         \/ conns' = conns
      /\ UNCHANGED <<watch, slotConn, players, weapons, started, over, winner, kills, died,
                     told, ledger>>
  BY DEF Accept, game, round
<1>2. accepted' \in Nat /\ e \in AnyEntry /\ e.stale = FALSE
  <2>1. accepted' \in Nat
    BY <1>1 DEF RoomInv, Typed
  <2>2. "auth" \in Phase /\ Free \in AnyEntry /\ Free.stale = FALSE
    BY DEF Phase, Free, AnyEntry
  <2>. QED  BY <2>1, <2>2 DEF AnyEntry
<1>3. free # {} => c \in Conns /\ conns[c].phase = "free"
  <2>1. free \subseteq Nat
    BY SlotsFinite
  <2>. HIDE DEF free
  <2>2. free # {} => c \in free
    BY <2>1, LowestIsIn
  <2>. QED  BY <2>2 DEF free
<1>. HIDE DEF free, c, e
<1>4. conns' \in [Conns -> AnyEntry] /\ \A d \in Conns : conns'[d] = conns[d] \/
        (conns[d].phase = "free" /\ conns'[d].stale = FALSE)
  BY <1>1, <1>2, <1>3 DEF RoomInv, Typed
<1>5. Lateness'
  BY <1>1, <1>4 DEF RoomInv, Lateness, KickedWasLate, NoWatch
<1>6. ledger' \in History /\ watch' \in [entry : Conns \cup {None}, sock : Nat]
  BY <1>1 DEF RoomInv, Typed
<1>7. \A d \in Conns : conns[d].phase = "game" => conns'[d].phase = "game"
  BY <1>4
<1>. QED  BY <1>1, <1>2, <1>4, <1>5, <1>6, <1>7, ConnectionStep

LEMMA WatchStep ==
  ASSUME RoomInv, NEW c \in Conns, GoSilent(c) \/ touchHB(c) \/ Watch(c) \/ HangUp(c)
  PROVE  RoomInv'
<1>1. /\ conns \in [Conns -> AnyEntry] /\ accepted \in Nat /\ ledger \in History
      /\ watch \in [entry : Conns \cup {None}, sock : Nat]
  BY DEF RoomInv, Typed
<1>2. UNCHANGED <<slotConn, players, weapons, started, over, winner, kills, died, told, accepted>>
  BY DEF GoSilent, touchHB, Watch, HangUp, game, round
<1>3. CASE GoSilent(c)
  <2>1. /\ conns' = [conns EXCEPT ![c].stale = TRUE] /\ UNCHANGED watch
        /\ ledger' = [ledger EXCEPT !.late = ledger.late \cup {conns[c].sock}]
    BY <1>3 DEF GoSilent
  <2>2. /\ conns' \in [Conns -> AnyEntry]
        /\ \A d \in Conns : conns'[d].phase = conns[d].phase /\ conns'[d].sock = conns[d].sock
        /\ \A d \in Conns : d # c => conns'[d].stale = conns[d].stale
    BY <1>1, <2>1 DEF AnyEntry
  <2>3. /\ ledger' \in History /\ ledger'.late = ledger.late \cup {conns[c].sock}
        /\ UNCHANGED <<ledger.fought, ledger.felled, ledger.fell, ledger.kicked>>
    BY <1>1, <2>1 DEF History, AnyEntry
  <2>4. Lateness'
    BY <2>1, <2>2, <2>3 DEF RoomInv, Lateness, KickedWasLate, NoWatch
  <2>. QED  BY <1>1, <1>2, <2>1, <2>2, <2>3, <2>4, ConnectionStep
<1>4. CASE touchHB(c)
  <2>1. conns' = [conns EXCEPT ![c].stale = FALSE] /\ UNCHANGED <<watch, ledger>>
    BY <1>4 DEF touchHB
  <2>2. /\ conns' \in [Conns -> AnyEntry] /\ conns'[c].stale = FALSE
        /\ \A d \in Conns : conns'[d].phase = conns[d].phase /\ conns'[d].sock = conns[d].sock
        /\ \A d \in Conns : d # c => conns'[d].stale = conns[d].stale
    BY <1>1, <2>1 DEF AnyEntry
  <2>3. Lateness'
    BY <2>1, <2>2 DEF RoomInv, Lateness, KickedWasLate, NoWatch
  <2>. QED  BY <1>1, <1>2, <2>1, <2>2, <2>3, ConnectionStep
<1>5. CASE Watch(c)
  <2>1. /\ watch' = [entry |-> c, sock |-> conns[c].sock] /\ conns[c].stale
        /\ UNCHANGED <<conns, ledger>>
    BY <1>5 DEF Watch
  <2>2. watch' \in [entry : Conns \cup {None}, sock : Nat] /\ watch'.sock = conns[c].sock
    BY <1>1, <2>1 DEF AnyEntry
  <2>3. Lateness'
    BY <2>1, <2>2 DEF RoomInv, Lateness, KickedWasLate, NoWatch
  <2>. QED  BY <1>1, <1>2, <2>1, <2>2, <2>3, ConnectionStep
<1>6. CASE HangUp(c)
  <2>1. UNCHANGED <<conns, watch, ledger>>
    BY <1>6 DEF HangUp
  <2>2. Lateness'
    BY <2>1 DEF RoomInv, Lateness, KickedWasLate, NoWatch
  <2>. QED  BY <1>1, <1>2, <2>1, <2>2, ConnectionStep
<1>. QED  BY <1>3, <1>4, <1>5, <1>6

(* The watcher closes the socket it copied, and that was late when it was  *)
(* copied, whoever has the entry now.                                      *)
LEMMA KickStep ==
  ASSUME RoomInv, Kick
  PROVE  RoomInv'
<1>1. /\ watch # NoWatch /\ watch' = NoWatch
      /\ ledger' = [ledger EXCEPT !.kicked = ledger.kicked \cup ({watch.sock} \cap open)]
      /\ UNCHANGED <<conns, accepted, slotConn, players, weapons, started, over, winner, kills,
                     died, told>>
  BY DEF Kick, Closes, game, round
<1>2. /\ conns \in [Conns -> AnyEntry] /\ accepted \in Nat /\ ledger \in History
      /\ watch \in [entry : Conns \cup {None}, sock : Nat]
  BY DEF RoomInv, Typed
<1>3. watch.sock \in Nat /\ watch' \in [entry : Conns \cup {None}, sock : Nat]
  BY <1>1, <1>2 DEF NoWatch
<1>4. /\ ledger' \in History /\ ledger'.kicked = ledger.kicked \cup ({watch.sock} \cap open)
      /\ UNCHANGED <<ledger.fought, ledger.felled, ledger.fell, ledger.late>>
  BY <1>1, <1>2, <1>3 DEF History
<1>5. Lateness'
  BY <1>1, <1>4 DEF RoomInv, Lateness, KickedWasLate, NoWatch
<1>. QED  BY <1>1, <1>2, <1>3, <1>4, <1>5, ConnectionStep

LEMMA AuthStep ==
  ASSUME RoomInv, NEW c \in Conns,
         AuthFails(c) \/ \E u \in User : Register(c, u) \/ Login(c, u)
  PROVE  RoomInv'
<1>1. /\ conns \in [Conns -> AnyEntry] /\ accepted \in Nat /\ ledger \in History
      /\ watch \in [entry : Conns \cup {None}, sock : Nat]
  BY DEF RoomInv, Typed
<1>2. /\ UNCHANGED <<slotConn, players, weapons, started, over, winner, kills, died, told,
                     accepted, watch, ledger>>
      /\ conns[c].phase = "auth"
  BY DEF AuthFails, Register, Login, Attempt, Reads, game, round
<1>3. PICK e \in AnyEntry : /\ conns' = [conns EXCEPT ![c] = e]
                            /\ e.stale = conns[c].stale /\ e.sock = conns[c].sock
  <2>1. CASE AuthFails(c)
    <3>. DEFINE p == IF conns[c].tries + 1 < MaxTries THEN "auth" ELSE "leaving"
                e == [conns[c] EXCEPT !.tries = conns[c].tries + 1, !.phase = p]
    <3>1. conns' = [conns EXCEPT ![c] = e]
      BY <1>1, <2>1 DEF AuthFails
    <3>2. p \in Phase
      BY DEF Phase
    <3>. HIDE DEF p
    <3>3. e \in AnyEntry /\ e.stale = conns[c].stale /\ e.sock = conns[c].sock
      <4>1. conns[c] \in AnyEntry /\ conns[c].tries + 1 \in Nat
        BY <1>1 DEF AnyEntry
      <4>. QED  BY <3>2, <4>1 DEF AnyEntry
    <3>. QED  BY <3>1, <3>3
  <2>2. ASSUME NEW u \in User, Register(c, u) \/ Login(c, u)
        PROVE  \E e \in AnyEntry : /\ conns' = [conns EXCEPT ![c] = e]
                                   /\ e.stale = conns[c].stale /\ e.sock = conns[c].sock
    <3>. DEFINE e == [conns[c] EXCEPT !.phase = "lobby", !.username = u]
    <3>1. conns' = [conns EXCEPT ![c] = e]
      BY <1>1, <2>2 DEF Register, Login, Authed
    <3>2. e \in AnyEntry /\ e.stale = conns[c].stale /\ e.sock = conns[c].sock
      BY <1>1 DEF AnyEntry, Phase
    <3>. QED  BY <3>1, <3>2
  <2>. QED  BY <2>1, <2>2
<1>4. /\ conns' \in [Conns -> AnyEntry]
      /\ \A d \in Conns : conns[d].phase = "game" => conns'[d].phase = "game"
      /\ \A d \in Conns : conns'[d].stale = conns[d].stale /\ conns'[d].sock = conns[d].sock
  BY <1>1, <1>2, <1>3
<1>5. Lateness'
  BY <1>2, <1>4 DEF RoomInv, Lateness, KickedWasLate, NoWatch
<1>. QED  BY <1>1, <1>2, <1>4, <1>5, ConnectionStep

\* A name that the full room has turned away, and an entry that is free again.
LEMMA JoinFullStep ==
  ASSUME RoomInv, NEW c \in Conns, JoinFull(c)
  PROVE  RoomInv'
<1>1. /\ UNCHANGED <<slotConn, players, weapons, started, over, winner, kills, died,
                     conns, accepted, watch, ledger>>
      /\ told' = [told EXCEPT ![c] = Full] /\ conns[c].phase = "lobby"
  BY DEF JoinFull, Asks, Reads, connLayer, game, round
<1>2. /\ told' = [d \in Conns |-> told'[d]]
      /\ \A d \in Conns : conns[d].phase = "game" => told'[d] = told[d]
  BY <1>1 DEF RoomInv, Typed
<1>3. Lateness'
  BY <1>1 DEF RoomInv, Lateness, KickedWasLate, NoWatch
<1>. QED  BY <1>1, <1>2, <1>3, OutsideStep DEF RoomInv, Typed

LEMMA ReleaseStep ==
  ASSUME RoomInv, NEW c \in Conns, Release(c)
  PROVE  RoomInv'
<1>1. /\ UNCHANGED <<slotConn, players, weapons, started, over, winner, kills, died,
                     accepted, watch, ledger>>
      /\ told' = [told EXCEPT ![c] = Untold] /\ conns[c].phase = "closing"
      /\ conns' = [conns EXCEPT ![c] = Free]
  BY DEF Release, game, round
<1>2. /\ told' = [d \in Conns |-> told'[d]]
      /\ \A d \in Conns : conns[d].phase = "game" => told'[d] = told[d]
  BY <1>1 DEF RoomInv, Typed
<1>3. Free \in AnyEntry /\ Free.stale = FALSE
  BY DEF Free, AnyEntry, Phase
<1>4. /\ conns' \in [Conns -> AnyEntry]
      /\ \A d \in Conns : conns'[d].stale => conns'[d] = conns[d]
      /\ \A d \in Conns : conns[d].phase = "game" => conns'[d].phase = "game"
  BY <1>1, <1>3 DEF RoomInv, Typed
<1>5. Lateness'
  BY <1>1, <1>4 DEF RoomInv, Lateness, KickedWasLate, NoWatch
<1>. QED  BY <1>1, <1>2, <1>4, <1>5, OutsideStep DEF RoomInv, Typed

-----------------------------------------------------------------------------
\* Steps in which nobody enters or leaves the room.
LEMMA RoomStep ==
  ASSUME RoomInv, UNCHANGED <<slotConn, conns, accepted, watch>>,
         players' \in [Slots -> PlayerState], started' \in BOOLEAN, over' \in BOOLEAN,
         kills' \in [Slots -> Nat], died' \in [Slots -> BOOLEAN], ledger' \in History,
         UNCHANGED <<ledger.late, ledger.kicked>>, ledger'.fought \subseteq Seat(Online),
         BroadcastState, RunningHasTwo', LedgerOfFighters'
  PROVE  RoomInv'
<1>1. told' = [c \in Conns |-> told'[c]]
  BY DEF BroadcastState
<1>2. Typed'
  BY <1>1 DEF RoomInv, Typed, PlayerState, Cell, AnyEntry, History
<1>3. Online' = Online /\ \A S : Seat(S)' = Seat(S)
  BY DEF Online, Seat
<1>4. Seating'
  BY <1>3 DEF RoomInv, Seating, Typed, Online
<1>5. Lateness'
  BY DEF RoomInv, Lateness, KickedWasLate, NoWatch
<1>. QED  BY <1>2, <1>4, <1>5, Informed DEF RoomInv

LEMMA SameLives ==
  ASSUME RoomInv, UNCHANGED <<slotConn, conns, accepted, watch, started, over, kills, died, ledger>>,
         players' \in [Slots -> PlayerState],
         \A g \in Slots : players'[g].alive = players[g].alive,
         BroadcastState
  PROVE  RoomInv'
<1>1. Online' = Online /\ Alive' = Alive
  BY DEF Online, Alive
<1>2. RunningHasTwo'
  BY <1>1 DEF RoomInv, RunningHasTwo
<1>3. LedgerOfFighters'
  BY <1>1 DEF RoomInv, LedgerOfFighters
<1>. QED  BY <1>2, <1>3, RoomStep DEF RoomInv, Typed, Seating

LEMMA MoveStep ==
  ASSUME RoomInv, NEW c \in Conns, Move(c)
  PROVE  RoomInv' /\ Alive' = Alive /\ AllReady' = AllReady
<1>1. PICK g \in Slots, p \in Cell :
        players' = [players EXCEPT ![g].pos = p, ![g].armed = players[g].armed \/ p \in weapons]
  <2>1. PICK g \in Slots : \E to \in Steps(players[g].pos) :
          LET p == IF to \in Cell THEN to ELSE players[g].pos
          IN  players' = [players EXCEPT ![g].pos = p, ![g].armed = players[g].armed \/ p \in weapons]
    BY DEF Move, RoomInv, Typed
  <2>2. players[g].pos \in Cell
    BY DEF RoomInv, Typed, PlayerState
  <2>. QED  BY <2>1, <2>2
<1>2. UNCHANGED <<slotConn, conns, accepted, watch, started, over, kills, died, ledger>> /\ BroadcastState
  BY DEF Move, round, connLayer
<1>3. players \in [Slots -> PlayerState]
  BY DEF RoomInv, Typed
<1>. DEFINE a == players[g].armed \/ p \in weapons
            r == [players[g] EXCEPT !.pos = p, !.armed = a]
<1>4. players[g].armed \in BOOLEAN /\ a \in BOOLEAN
  BY <1>3 DEF PlayerState
<1>5. r \in PlayerState /\ r.alive = players[g].alive /\ r.ready = players[g].ready
  <2>. HIDE DEF a
  <2>. QED  BY <1>3, <1>4 DEF PlayerState
<1>6. players' = [players EXCEPT ![g] = r]
  BY <1>1, <1>3
<1>. HIDE DEF r
<1>7. /\ players' \in [Slots -> PlayerState]
      /\ \A h \in Slots : /\ players'[h].alive = players[h].alive
                          /\ players'[h].ready = players[h].ready
  BY <1>3, <1>5, <1>6
<1>8. Alive' = Alive /\ AllReady' = AllReady
  BY <1>2, <1>7 DEF Alive, AllReady, Online
<1>. QED  BY <1>2, <1>7, <1>8, SameLives

LEMMA WeaponStep == RoomInv /\ SpawnWeapon => RoomInv'
<1>. SUFFICES ASSUME RoomInv, SpawnWeapon PROVE RoomInv'
  OBVIOUS
<1>1. UNCHANGED <<slotConn, conns, accepted, watch, started, over, kills, died, ledger, players>>
      /\ BroadcastState
  BY DEF SpawnWeapon, round, connLayer
<1>. QED  BY <1>1, SameLives DEF RoomInv, Typed

-----------------------------------------------------------------------------
\* The places where a round begins are on the map.
LEMMA SpawnOnMap ==
  ASSUME NEW n \in 1..5, NEW r \in 1..n
  PROVE  SpawnPoint(n, r) \in Cell
<1>. DEFINE x0 == 2  x1 == MapW - 3  y0 == 2  y1 == MapH - 3
            candidates == << <<x0, y0>>, <<x1, y0>>, <<x0, y1>>, <<x1, y1>>,
                             <<(x0 + x1) \div 2, (y0 + y1) \div 2>> >>
            order == << <<5>>, <<1, 4>>, <<1, 4, 5>>, <<1, 2, 3, 4>>, <<1, 2, 3, 4, 5>> >>
<1>1. MapW \in Nat /\ MapW >= 5 /\ MapH \in Nat /\ MapH >= 5
  BY WarzoneAssumption
<1>2. /\ {x0, x1, (x0 + x1) \div 2} \subseteq 0..(MapW - 1)
      /\ {y0, y1, (y0 + y1) \div 2} \subseteq 0..(MapH - 1)
  BY <1>1
<1>3. \A i \in 1..5 : candidates[i] \in Cell
  BY <1>2 DEF Cell
<1>4. order[n][r] \in 1..5
  <2>1. CASE n = 1
    BY <2>1
  <2>2. CASE n = 2
    BY <2>2
  <2>3. CASE n = 3
    BY <2>3
  <2>4. CASE n = 4
    BY <2>4
  <2>5. CASE n = 5
    BY <2>5
  <2>. QED  BY <2>1, <2>2, <2>3, <2>4, <2>5
<1>5. SpawnPoint(n, r) = candidates[order[n][r]]
  BY DEF SpawnPoint
<1>. HIDE DEF candidates, order
<1>. QED  BY <1>3, <1>4, <1>5

\* A seat that is taken has a rank among those that are.
LEMMA RankInRange ==
  ASSUME NEW g \in Online
  PROVE  Cardinality(Online) \in 1..5 /\ Rank(g) \in 1..Cardinality(Online)
<1>. DEFINE R == {h \in Online : h <= g}
<1>1. Online \subseteq Slots /\ R \subseteq Online /\ g \in R
  BY SlotsFinite DEF Online
<1>2. IsFiniteSet(Online) /\ Cardinality(Online) \in Nat /\ Cardinality(Online) <= MaxPlayers
  BY <1>1, SlotsFinite
<1>3. IsFiniteSet(R) /\ Cardinality(R) \in Nat /\ Cardinality(R) <= Cardinality(Online)
  BY <1>1, <1>2, FS_Subset, FS_CardinalityType
<1>4. Cardinality(R) # 0
  BY <1>1, <1>3, FS_EmptySet
<1>5. Rank(g) = Cardinality(R)
  BY DEF Rank
<1>. QED  BY <1>2, <1>3, <1>4, <1>5, SlotsFinite

\* A round begins with a fresh ledger and everybody in the room alive.
LEMMA ResetStep ==
  ASSUME RoomInv, UNCHANGED <<slotConn, conns, accepted, watch>>, Cardinality(Online) >= 2,
         ResetGame, BroadcastState
  PROVE  RoomInv' /\ Alive' = Online /\ AllReady' = {}
<1>1. players \in [Slots -> PlayerState] /\ ledger \in History
  BY DEF RoomInv, Typed
<1>2. players' \in [Slots -> PlayerState]
  <2>1. players' = [h \in Slots |-> players'[h]]
    BY DEF ResetGame
  <2>2. ASSUME NEW g \in Slots PROVE players'[g] \in PlayerState
    <3>1. CASE g \in Online
      <4>1. SpawnPoint(Cardinality(Online), Rank(g)) \in Cell
        BY <3>1, RankInRange, SpawnOnMap
      <4>2. MaxHealth \in 0..MaxHealth
        BY WarzoneAssumption
      <4>. QED  BY <3>1, <4>1, <4>2 DEF ResetGame, PlayerState
    <3>2. CASE g \notin Online
      BY <1>1, <3>2 DEF ResetGame, PlayerState
    <3>. QED  BY <3>1, <3>2
  <2>. QED  BY <2>1, <2>2
<1>3. /\ \A g \in Online : players'[g].alive /\ ~players'[g].ready
      /\ Online' = Online
  BY DEF ResetGame, Online
<1>4. Alive' = Online /\ AllReady' = {}
  BY <1>3 DEF Alive, AllReady
<1>5. /\ ledger' \in History /\ UNCHANGED <<ledger.late, ledger.kicked>>
      /\ ledger'.fought = Seat(Online) /\ ledger'.felled = [c \in Conns |-> 0] /\ ledger'.fell = {}
  <2>1. Seat(Online) \subseteq Conns
    BY DEF Seat, Online, RoomInv, Typed
  <2>2. ledger' = [ledger EXCEPT !.fought = Seat(Online), !.felled = [c \in Conns |-> 0], !.fell = {}]
    BY DEF ResetGame, Seat
  <2>. QED  BY <1>1, <2>1, <2>2 DEF History
<1>6. /\ kills' \in [Slots -> Nat] /\ died' \in [Slots -> BOOLEAN]
      /\ \A g \in Online : kills'[g] = 0 /\ died'[g] = FALSE
      /\ started' = TRUE /\ over' = FALSE
  <2>1. Online \subseteq Slots
    BY DEF Online
  <2>2. kills \in [Slots -> Nat] /\ died \in [Slots -> BOOLEAN]
    BY DEF RoomInv, Typed
  <2>3. kills' \in [Slots -> Nat] /\ \A g \in Online : kills'[g] = 0
    BY <2>1, <2>2 DEF ResetGame
  <2>4. died' \in [Slots -> BOOLEAN] /\ \A g \in Online : died'[g] = FALSE
    BY <2>1, <2>2 DEF ResetGame
  <2>. QED  BY <2>3, <2>4 DEF ResetGame
<1>7. RunningHasTwo'
  BY <1>4 DEF RunningHasTwo
<1>8. LedgerOfFighters'
  <2>1. \A g \in Online : slotConn[g] \in Conns
    BY DEF RoomInv, Typed, Online
  <2>. QED  BY <1>3, <1>5, <1>6, <2>1 DEF LedgerOfFighters
<1>9. ledger'.fought \subseteq Seat(Online)
  BY <1>5
<1>. QED  BY <1>2, <1>4, <1>5, <1>6, <1>7, <1>8, <1>9, RoomStep

LEMMA ReadyStep ==
  ASSUME RoomInv, NEW c \in Conns, Ready(c)
  PROVE  RoomInv'
<1>1. PICK g \in Slots : slotConn[g] = c /\ g = Lowest(connToGameSlot(c))
  <2>1. PICK g \in Slots : slotConn[g] = c
    BY DEF Ready, Seated, connToGameSlot
  <2>2. Lowest(connToGameSlot(c)) = g
    BY <2>1, OneSeat DEF RoomInv
  <2>. QED  BY <2>1, <2>2
<1>2. UNCHANGED <<slotConn, conns, accepted, watch>> /\ BroadcastState
  BY DEF Ready, connLayer
<1>3. CASE Cardinality(Online) >= 2 /\ ResetGame
  BY <1>2, <1>3, ResetStep
<1>4. CASE /\ players' = [players EXCEPT ![g].ready = TRUE]
           /\ UNCHANGED <<weapons, started, over, winner, kills, died, ledger>>
  <2>1. players \in [Slots -> PlayerState]
    BY DEF RoomInv, Typed
  <2>2. /\ [players[g] EXCEPT !.ready = TRUE] \in PlayerState
        /\ [players[g] EXCEPT !.ready = TRUE].alive = players[g].alive
    BY <2>1 DEF PlayerState
  <2>3. /\ players' \in [Slots -> PlayerState]
        /\ \A h \in Slots : players'[h].alive = players[h].alive
    BY <1>4, <2>1, <2>2
  <2>. QED  BY <1>2, <1>4, <2>3, SameLives
<1>. QED  BY <1>1, <1>3, <1>4 DEF Ready

\* The victim is another one who is alive.
LEMMA TargetIsAlive ==
  ASSUME Typed, NEW g \in Alive, InRange(g)
  PROVE  Target(g) \in Alive \ {g}
<1>. DEFINE others == Alive \ {g}
            D == {Distance(g, h) : h \in others}
            nearest == {h \in others : \A i \in others : Distance(g, h) <= Distance(g, i)}
<1>1. others # {} /\ Alive \subseteq Slots
  BY DEF InRange, Alive, Online
<1>2. \A h \in Slots : players[h].pos[1] \in Int /\ players[h].pos[2] \in Int
  BY WarzoneAssumption DEF Typed, PlayerState, Cell
<1>3. \A h \in Slots : Distance(g, h) \in Nat
  BY <1>1, <1>2 DEF Distance, Abs
<1>4. D \subseteq Nat /\ D # {}
  BY <1>1, <1>3
<1>5. PICK h \in others : \A i \in others : Distance(g, h) <= Distance(g, i)
  <2>1. Lowest(D) \in D /\ \A d \in D : Lowest(D) <= d
    <3>. HIDE DEF D
    <3>. QED  BY <1>4, LowestIsIn
  <2>. QED  BY <2>1
<1>6. nearest # {} /\ nearest \subseteq Nat
  BY <1>1, <1>5, SlotsFinite
<1>7. Lowest(nearest) \in nearest
  <2>. HIDE DEF nearest
  <2>. QED  BY <1>6, LowestIsIn
<1>. QED  BY <1>7 DEF Target

LEMMA DamageIsNat == \A g \in Slots : Damage(g) \in Nat
BY WarzoneAssumption DEF Damage

LEMMA WoundStep ==
  ASSUME RoomInv, NEW c \in Conns, Wound(c)
  PROVE  RoomInv' /\ Alive' = Alive /\ AllReady' = AllReady
<1>1. PICK g \in Slots :
        /\ Acts(c, g) /\ InRange(g) /\ players[Target(g)].health > Damage(g)
        /\ players' = [players EXCEPT ![g].armed = FALSE, ![Target(g)].health = @ - Damage(g)]
  BY DEF Wound
<1>2. UNCHANGED <<slotConn, conns, accepted, watch, started, over, kills, died, ledger>> /\ BroadcastState
  BY DEF Wound, round, connLayer
<1>3. players \in [Slots -> PlayerState]
  BY DEF RoomInv, Typed
<1>4. PICK t \in Slots \ {g} : t = Target(g)
  <2>1. g \in Alive
    BY <1>1, SlotsFinite DEF Acts, Alive, Online
  <2>. QED  BY <1>1, <2>1, TargetIsAlive DEF RoomInv, Alive, Online
<1>5. /\ players'[g] = [players[g] EXCEPT !.armed = FALSE]
      /\ players'[t] = [players[t] EXCEPT !.health = players[t].health - Damage(g)]
      /\ \A h \in Slots \ {g, t} : players'[h] = players[h]
      /\ players' = [h \in Slots |-> players'[h]]
  BY <1>1, <1>3, <1>4
<1>6. players[t].health - Damage(g) \in 0..MaxHealth
  BY <1>1, <1>3, <1>4, DamageIsNat, WarzoneAssumption DEF PlayerState
<1>7. /\ players'[g] \in PlayerState /\ players'[g].alive = players[g].alive
      /\ players'[t] \in PlayerState /\ players'[t].alive = players[t].alive
      /\ players'[g].ready = players[g].ready /\ players'[t].ready = players[t].ready
  <2>1. players[g] \in PlayerState /\ players[t] \in PlayerState
    BY <1>3
  <2>2. /\ players'[g] \in PlayerState /\ players'[g].alive = players[g].alive
        /\ players'[g].ready = players[g].ready
    BY <1>5, <2>1 DEF PlayerState
  <2>3. /\ players'[t] \in PlayerState /\ players'[t].alive = players[t].alive
        /\ players'[t].ready = players[t].ready
    BY <1>5, <1>6, <2>1 DEF PlayerState
  <2>. QED  BY <2>2, <2>3
<1>8. /\ players' \in [Slots -> PlayerState]
      /\ \A h \in Slots : /\ players'[h].alive = players[h].alive
                          /\ players'[h].ready = players[h].ready
  BY <1>3, <1>5, <1>7
<1>9. Alive' = Alive /\ AllReady' = AllReady
  BY <1>2, <1>8 DEF Alive, AllReady, Online
<1>. QED  BY <1>2, <1>8, <1>9, SameLives

\* What is left of a fatal blow: the victim falls and the ledger says so.
Fatal(c, g, t) ==
  /\ t # g
  /\ slotConn[g] = c /\ started /\ ~over /\ g \in Alive
  /\ players' \in [Slots -> PlayerState]
  /\ ~players'[t].alive
  /\ \A h \in Slots \ {t} : /\ players'[h].alive = players[h].alive
                            /\ players'[h].ready = players[h].ready
  /\ players'[t].ready = players[t].ready
  /\ kills' = [kills EXCEPT ![g] = kills[g] + 1]
  /\ died' = [died EXCEPT ![t] = TRUE]
  /\ UNCHANGED <<slotConn, conns, accepted, watch, started>> /\ BroadcastState
  /\ CheckGameOver([ledger EXCEPT !.felled[c] = @ + 1, !.fell = @ \cup {slotConn[t]}])

LEMMA KillFacts ==
  ASSUME RoomInv, NEW c \in Conns, Kill(c)
  PROVE  \E g \in Slots, t \in Alive : Fatal(c, g, t)
<1>1. PICK g \in Slots :
        /\ Acts(c, g) /\ InRange(g)
        /\ players' = [players EXCEPT ![g].armed = FALSE, ![Target(g)].health = 0,
                                      ![Target(g)].alive = FALSE]
        /\ kills' = [kills EXCEPT ![g] = @ + 1]
        /\ died' = [died EXCEPT ![Target(g)] = TRUE]
        /\ UNCHANGED <<slotConn, weapons, started>>
        /\ CheckGameOver([ledger EXCEPT !.felled[c] = @ + 1, !.fell = @ \cup {slotConn[Target(g)]}])
  BY DEF Kill
<1>2. players \in [Slots -> PlayerState]
  BY DEF RoomInv, Typed
<1>3. slotConn[g] = c /\ started /\ ~over /\ g \in Alive
  BY <1>1, SlotsFinite DEF Acts, Alive, Online
<1>4. PICK t \in Alive \ {g} : t = Target(g)
  BY <1>1, <1>3, TargetIsAlive DEF RoomInv
<1>5. t \in Slots \ {g}
  BY <1>4 DEF Alive, Online
<1>6. /\ players'[g] = [players[g] EXCEPT !.armed = FALSE]
      /\ players'[t] = [players[t] EXCEPT !.health = 0, !.alive = FALSE]
      /\ \A h \in Slots \ {g, t} : players'[h] = players[h]
      /\ players' = [h \in Slots |-> players'[h]]
  BY <1>1, <1>2, <1>4, <1>5
<1>7. players[g] \in PlayerState /\ players[t] \in PlayerState /\ 0 \in 0..MaxHealth
  BY <1>2, <1>5, WarzoneAssumption
<1>8. /\ players'[g] \in PlayerState /\ players'[g].alive = players[g].alive
      /\ players'[g].ready = players[g].ready
  BY <1>6, <1>7 DEF PlayerState
<1>9. /\ players'[t] \in PlayerState /\ players'[t].alive = FALSE
      /\ players'[t].ready = players[t].ready
  BY <1>6, <1>7 DEF PlayerState
<1>10. players' \in [Slots -> PlayerState]
  BY <1>2, <1>6, <1>8, <1>9
<1>11. \A h \in Slots \ {t} : /\ players'[h].alive = players[h].alive
                              /\ players'[h].ready = players[h].ready
  BY <1>6, <1>8
<1>12. /\ kills' = [kills EXCEPT ![g] = kills[g] + 1]
       /\ died' = [died EXCEPT ![t] = TRUE]
       /\ CheckGameOver([ledger EXCEPT !.felled[c] = @ + 1, !.fell = @ \cup {slotConn[t]}])
  BY <1>1, <1>4
<1>13. UNCHANGED <<slotConn, conns, accepted, watch, started>> /\ BroadcastState
  BY <1>1 DEF Kill, connLayer
<1>. QED  BY <1>3, <1>5, <1>9, <1>10, <1>11, <1>12, <1>13, <1>4 DEF Fatal

LEMMA KillStep ==
  ASSUME RoomInv, NEW c \in Conns, Kill(c)
  PROVE  RoomInv'
<1>0. PICK g \in Slots, t \in Alive : Fatal(c, g, t)
  BY KillFacts
<1>1. /\ t # g
      /\ slotConn[g] = c /\ started /\ ~over /\ g \in Alive
      /\ players' \in [Slots -> PlayerState]
      /\ kills' = [kills EXCEPT ![g] = kills[g] + 1]
      /\ died' = [died EXCEPT ![t] = TRUE]
      /\ UNCHANGED <<slotConn, conns, accepted, watch, started>> /\ BroadcastState
      /\ CheckGameOver([ledger EXCEPT !.felled[c] = @ + 1, !.fell = @ \cup {slotConn[t]}])
  BY <1>0, Zenon DEF Fatal
<1>2. ledger \in History /\ t \in Slots /\ slotConn[t] \in Conns
  BY DEF RoomInv, Typed, Alive, Online
<1>3. ledger' = [ledger EXCEPT !.felled[c] = @ + 1, !.fell = @ \cup {slotConn[t]}]
  BY <1>1 DEF CheckGameOver
<1>4. /\ ledger' \in History /\ UNCHANGED <<ledger.late, ledger.kicked, ledger.fought>>
      /\ ledger'.felled = [ledger.felled EXCEPT ![c] = ledger.felled[c] + 1]
      /\ ledger'.fell = ledger.fell \cup {slotConn[t]}
  <2>. DEFINE F == [ledger.felled EXCEPT ![c] = ledger.felled[c] + 1]
              L == ledger.fell \cup {slotConn[t]}
  <2>1. F \in [Conns -> Nat] /\ L \in SUBSET Conns
    BY <1>2 DEF History
  <2>2. ledger' = [ledger EXCEPT !.felled = F, !.fell = L]
    BY <1>2, <1>3 DEF History
  <2>. HIDE DEF F, L
  <2>3. /\ ledger' \in History /\ UNCHANGED <<ledger.late, ledger.kicked, ledger.fought>>
        /\ ledger'.felled = F /\ ledger'.fell = L
    BY <1>2, <2>1, <2>2 DEF History
  <2>. QED  BY <2>3 DEF F, L
<1>5. /\ kills' \in [Slots -> Nat] /\ died' \in [Slots -> BOOLEAN]
      /\ over' \in BOOLEAN /\ started' \in BOOLEAN
  <2>1. over' = TRUE \/ over' = over
    BY <1>1, Zenon DEF CheckGameOver
  <2>2. kills' \in [Slots -> Nat] /\ died' \in [Slots -> BOOLEAN]
    BY <1>1, <1>2 DEF RoomInv, Typed
  <2>. QED  BY <1>1, <2>1, <2>2 DEF RoomInv, Typed
<1>6. RunningHasTwo'
  <2>1. Alive' \subseteq Slots
    BY DEF Alive, Online
  <2>2. Cardinality(Alive') \in Nat
    BY <2>1, SlotsFinite
  <2>3. (over' = TRUE) \/ Cardinality(Alive') > 1
    BY <1>1, Zenon DEF CheckGameOver
  <2>. QED  BY <2>2, <2>3 DEF RunningHasTwo
<1>7. LedgerOfFighters'
  <2>. SUFFICES ASSUME NEW h \in Online, slotConn[h] \in ledger.fought
                PROVE  /\ kills'[h] = ledger'.felled[slotConn[h]]
                       /\ died'[h] <=> slotConn[h] \in ledger'.fell
    BY <1>1, <1>4 DEF LedgerOfFighters, Online
  <2>1. kills[h] = ledger.felled[slotConn[h]] /\ (died[h] <=> slotConn[h] \in ledger.fell)
    BY <1>1 DEF RoomInv, LedgerOfFighters
  <2>2. /\ h = g <=> slotConn[h] = c
        /\ h = t <=> slotConn[h] = slotConn[t]
    BY <1>1 DEF RoomInv, Seating, Alive
  <2>3. h \in Slots /\ slotConn[h] \in Conns
    BY DEF RoomInv, Typed, Online
  <2>4. kills'[h] = ledger'.felled[slotConn[h]]
    BY <1>1, <1>2, <1>4, <2>1, <2>2, <2>3 DEF RoomInv, Typed, History
  <2>5. died'[h] <=> slotConn[h] \in ledger'.fell
    BY <1>1, <1>4, <2>1, <2>2, <2>3 DEF RoomInv, Typed
  <2>. QED  BY <2>4, <2>5
<1>8. ledger'.fought \subseteq Seat(Online)
  BY <1>4 DEF RoomInv, Seating
<1>. QED  BY <1>1, <1>4, <1>5, <1>6, <1>7, <1>8, RoomStep

-----------------------------------------------------------------------------
\* Who enters gets a free seat and fights no round that is on.
LEMMA JoinFacts ==
  ASSUME RoomInv, NEW c \in Conns, Join(c)
  PROVE  \E g \in Slots \ Online :
           /\ slotConn' = [slotConn EXCEPT ![g] = c]
           /\ players' = [players EXCEPT ![g] = Vacant]
           /\ conns' = [conns EXCEPT ![c].phase = "game"]
           /\ UNCHANGED <<weapons, started, over, winner, kills, died, accepted, watch, ledger>>
           /\ BroadcastState
           /\ \A h \in Online : slotConn[h] # c
           /\ Online' = Online \cup {g} /\ Alive' = Alive /\ AllReady' = AllReady
<1>. DEFINE S == Slots \ Online
            g == Lowest(S)
<1>1. /\ slotConn' = [slotConn EXCEPT ![g] = c]
      /\ players' = [players EXCEPT ![g] = Vacant]
      /\ conns' = [conns EXCEPT ![c].phase = "game"]
      /\ UNCHANGED <<weapons, started, over, winner, kills, died, accepted, watch, ledger>>
      /\ BroadcastState
      /\ conns[c].phase = "lobby" /\ S # {}
  BY DEF Join, Asks, Reads, round, Online
<1>2. g \in S
  <2>1. S \subseteq Nat
    BY SlotsFinite
  <2>. HIDE DEF S
  <2>. QED  BY <1>1, <2>1, LowestIsIn
<1>3. \A h \in Online : slotConn[h] # c
  BY <1>1 DEF RoomInv, Seating
<1>. HIDE DEF g
<1>4. Online' = Online \cup {g}
  BY <1>1, <1>2, SlotsFinite DEF Online, RoomInv, Typed
<1>5. /\ ~players'[g].alive /\ ~players'[g].ready
      /\ \A h \in Online : players'[h] = players[h]
  BY <1>1, <1>2 DEF Vacant, RoomInv, Typed, Online
<1>6. Alive' = Alive /\ AllReady' = AllReady
  BY <1>4, <1>5 DEF Alive, AllReady
<1>. QED  BY <1>1, <1>2, <1>3, <1>4, <1>6

LEMMA JoinStep ==
  ASSUME RoomInv, NEW c \in Conns, Join(c)
  PROVE  RoomInv'
<1>1. PICK g \in Slots \ Online :
           /\ slotConn' = [slotConn EXCEPT ![g] = c]
           /\ players' = [players EXCEPT ![g] = Vacant]
           /\ conns' = [conns EXCEPT ![c].phase = "game"]
           /\ UNCHANGED <<started, over, kills, died, accepted, watch, ledger>>
           /\ BroadcastState
           /\ \A h \in Online : slotConn[h] # c
           /\ Online' = Online \cup {g} /\ Alive' = Alive
  BY JoinFacts
<1>2. /\ conns \in [Conns -> AnyEntry] /\ slotConn \in [Slots -> Conns \cup {None}]
      /\ players \in [Slots -> PlayerState] /\ Online \subseteq Slots
  BY DEF RoomInv, Typed, Online
<1>3. /\ conns' \in [Conns -> AnyEntry] /\ conns'[c].phase = "game"
      /\ conns'[c].stale = conns[c].stale /\ conns'[c].sock = conns[c].sock
      /\ \A d \in Conns \ {c} : conns'[d] = conns[d]
  <2>1. "game" \in Phase
    BY DEF Phase
  <2>. QED  BY <1>1, <1>2, <2>1 DEF AnyEntry
<1>4. Vacant \in PlayerState
  BY WarzoneAssumption DEF Vacant, PlayerState, Cell
<1>5. /\ slotConn' \in [Slots -> Conns \cup {None}] /\ slotConn'[g] = c
      /\ \A h \in Online : slotConn'[h] = slotConn[h]
      /\ players' \in [Slots -> PlayerState]
  BY <1>1, <1>2, <1>4
<1>6. told' = [d \in Conns |-> told'[d]]
  BY DEF BroadcastState, Join
<1>7. Typed'
  BY <1>1, <1>3, <1>5, <1>6 DEF RoomInv, Typed, PlayerState, Cell, AnyEntry, History
<1>8. Seating'
  <2>1. \A h \in Online' : conns'[slotConn'[h]].phase = "game"
    BY <1>1, <1>2, <1>3, <1>5 DEF RoomInv, Seating, Online
  <2>2. \A h, i \in Online' : slotConn'[h] = slotConn'[i] => h = i
    BY <1>1, <1>5 DEF RoomInv, Seating
  <2>3. ledger'.fought \subseteq Seat(Online)'
    BY <1>1, <1>5 DEF RoomInv, Seating, Seat
  <2>. QED  BY <2>1, <2>2, <2>3 DEF Seating
<1>9. Lateness'
  BY <1>1, <1>3 DEF RoomInv, Lateness, KickedWasLate, NoWatch
<1>10. RunningHasTwo'
  BY <1>1 DEF RoomInv, RunningHasTwo
<1>11. LedgerOfFighters'
  <2>1. c \notin ledger.fought
    BY <1>1 DEF RoomInv, Seating, Seat
  <2>. QED  BY <1>1, <1>5, <2>1 DEF RoomInv, LedgerOfFighters
<1>. QED  BY <1>1, <1>7, <1>8, <1>9, <1>10, <1>11, Informed DEF RoomInv

-----------------------------------------------------------------------------
\* Who leaves gives up his seats, and nobody else does.
LEMMA LeaveFacts ==
  ASSUME RoomInv, NEW c \in Conns, LeaveRoom(c)
  PROVE  /\ conns' \in [Conns -> AnyEntry]
         /\ conns'[c].stale = conns[c].stale /\ conns'[c].sock = conns[c].sock
         /\ \A d \in Conns \ {c} : conns'[d] = conns[d]
         /\ slotConn' \in [Slots -> Conns \cup {None}]
         /\ Online' = {g \in Online : slotConn[g] # c}
         /\ \A g \in Online' : slotConn'[g] = slotConn[g] /\ players'[g] = players[g]
         /\ players' \in [Slots -> PlayerState]
         /\ Alive' = {g \in Alive : slotConn[g] # c}
         /\ AllReady' = {g \in AllReady : slotConn[g] # c}
         /\ UNCHANGED <<kills, died, accepted, watch>>
<1>1. /\ conns' = [conns EXCEPT ![c].phase = "closing"]
      /\ slotConn' = [g \in Slots |-> IF slotConn[g] = c THEN None ELSE slotConn[g]]
      /\ players' = [g \in Slots |->
           IF slotConn[g] = c THEN [players[g] EXCEPT !.alive = FALSE] ELSE players[g]]
      /\ UNCHANGED <<kills, died, accepted, watch>>
  BY DEF LeaveRoom
<1>2. /\ conns \in [Conns -> AnyEntry] /\ slotConn \in [Slots -> Conns \cup {None}]
      /\ players \in [Slots -> PlayerState] /\ "closing" \in Phase
  BY DEF RoomInv, Typed, Phase
<1>3. /\ conns' \in [Conns -> AnyEntry]
      /\ conns'[c].stale = conns[c].stale /\ conns'[c].sock = conns[c].sock
      /\ \A d \in Conns \ {c} : conns'[d] = conns[d]
  BY <1>1, <1>2 DEF AnyEntry
<1>4. slotConn' \in [Slots -> Conns \cup {None}]
  BY <1>1, <1>2
<1>5. players' \in [Slots -> PlayerState]
  BY <1>1, <1>2 DEF PlayerState
<1>6. Online' = {g \in Online : slotConn[g] # c}
  BY <1>1, SlotsFinite DEF Online
<1>7. \A g \in Online' : slotConn'[g] = slotConn[g] /\ players'[g] = players[g]
  BY <1>1, <1>6 DEF Online
<1>8. /\ Alive' = {g \in Alive : slotConn[g] # c}
      /\ AllReady' = {g \in AllReady : slotConn[g] # c}
  BY <1>6, <1>7 DEF Alive, AllReady
<1>. QED  BY <1>1, <1>3, <1>4, <1>5, <1>6, <1>7, <1>8

LEMMA DepartStep ==
  ASSUME RoomInv, NEW c \in Conns, LeaveRoom(c),
         started' \in BOOLEAN, over' \in BOOLEAN, started' => started,
         ledger' = Forget(c), BroadcastState, RunningHasTwo'
  PROVE  RoomInv'
<1>. USE LeaveFacts
<1>1. /\ ledger' \in History /\ ledger'.fought = ledger.fought \ {c}
      /\ UNCHANGED <<ledger.felled, ledger.fell, ledger.late, ledger.kicked>>
  BY DEF Forget, History, RoomInv, Typed
<1>2. told' = [d \in Conns |-> told'[d]]
  BY DEF BroadcastState
<1>3. Typed'
  BY <1>1, <1>2 DEF RoomInv, Typed, PlayerState, Cell, AnyEntry, History
<1>4. Seating'
  <2>1. \A g \in Online' : conns'[slotConn'[g]].phase = "game"
    BY DEF RoomInv, Seating, Typed, Online
  <2>2. \A g, h \in Online' : slotConn'[g] = slotConn'[h] => g = h
    BY DEF RoomInv, Seating
  <2>3. ledger'.fought \subseteq Seat(Online)'
    BY <1>1 DEF RoomInv, Seating, Seat
  <2>. QED  BY <2>1, <2>2, <2>3 DEF Seating
<1>5. Lateness'
  BY <1>1 DEF RoomInv, Lateness, KickedWasLate, NoWatch
<1>6. LedgerOfFighters'
  BY <1>1 DEF RoomInv, LedgerOfFighters
<1>. QED  BY <1>3, <1>4, <1>5, <1>6, Informed DEF RoomInv

LEMMA CleanupStep ==
  ASSUME RoomInv, NEW c \in Conns, Cleanup(c)
  PROVE  RoomInv'
<1>1. CASE Depart(c)
  <2>1. ~Seated(c) /\ LeaveRoom(c) /\ UNCHANGED <<started, over, winner, told, ledger, weapons, kills, died>>
    BY <1>1 DEF Depart, LeaveRoom
  <2>2. /\ \A g \in Slots : slotConn[g] # c
        /\ slotConn \in [Slots -> Conns \cup {None}] /\ players \in [Slots -> PlayerState]
    BY <2>1 DEF Seated, connToGameSlot, RoomInv, Typed
  <2>3. UNCHANGED <<slotConn, players>>
    BY <2>1, <2>2 DEF LeaveRoom
  <2>4. conns[c].phase # "game" \/ conns[c].phase = "game"
    OBVIOUS
  <2>5. Typed' /\ Lateness'
    BY <2>1, <2>3, LeaveFacts
       DEF RoomInv, Typed, PlayerState, Cell, AnyEntry, History, Lateness, KickedWasLate, NoWatch
  <2>6. UNCHANGED <<Online, Alive, AllReady, WinnerID>> /\ \A S : Seat(S)' = Seat(S)
    BY <2>1, <2>3 DEF Online, Alive, AllReady, Seat, WinnerID, Seated, connToGameSlot
  <2>7. Seating'
    BY <2>1, <2>2, <2>3, <2>6, LeaveFacts DEF RoomInv, Seating, Online, Typed
  <2>8. RunningHasTwo' /\ LedgerOfFighters' /\ RoomInformed'
    BY <2>1, <2>3, <2>6 DEF RoomInv, RunningHasTwo, LedgerOfFighters, RoomInformed, Update
  <2>. QED  BY <2>5, <2>7, <2>8 DEF RoomInv
<1>2. CASE DepartFight(c)
  <2>1. /\ LeaveRoom(c) /\ started /\ UNCHANGED started /\ ledger' = Forget(c) /\ BroadcastState
        /\ \/ Cardinality(Alive') = 1 /\ over' = TRUE
           \/ Cardinality(Alive') > 1 /\ UNCHANGED over
    BY <1>2 DEF DepartFight, CheckGameOver
  <2>2. started' \in BOOLEAN /\ over' \in BOOLEAN
    BY <2>1 DEF RoomInv, Typed
  <2>3. Alive' \subseteq Slots
    BY DEF Alive, Online
  <2>4. Cardinality(Alive') \in Nat
    BY <2>3, SlotsFinite
  <2>5. RunningHasTwo'
    BY <2>1, <2>4 DEF RunningHasTwo
  <2>. QED  BY <2>1, <2>2, <2>5, DepartStep
<1>3. CASE DepartRoom(c)
  <2>1. /\ LeaveRoom(c) /\ ~(started /\ ~over) /\ ledger' = Forget(c) /\ BroadcastState
        /\ started' = (started /\ Online' # {}) /\ over' = (over /\ Online' # {})
    BY <1>3 DEF DepartRoom
  <2>2. started' \in BOOLEAN /\ over' \in BOOLEAN /\ (started' => started) /\ ~(started' /\ ~over')
    BY <2>1 DEF RoomInv, Typed
  <2>3. RunningHasTwo'
    BY <2>2 DEF RunningHasTwo
  <2>. QED  BY <2>1, <2>2, <2>3, DepartStep
<1>. QED  BY <1>1, <1>2, <1>3, ReleaseStep DEF Cleanup

-----------------------------------------------------------------------------
LEMMA RoomInvInit == Init => RoomInv
<1>. SUFFICES ASSUME Init PROVE RoomInv
  OBVIOUS
<1>1. Online = {} /\ Alive = {}
  BY SlotsFinite DEF Init, Online, Alive
<1>2. Free \in AnyEntry /\ Vacant \in PlayerState /\ Free.stale = FALSE
  BY WarzoneAssumption DEF Free, AnyEntry, Phase, Vacant, PlayerState, Cell
<1>3. ledger \in History
  BY DEF Init, History
<1>4. Typed
  BY <1>2, <1>3 DEF Init, Typed, NoWatch
<1>5. Seating
  BY <1>1 DEF Init, Seating
<1>6. Lateness
  BY <1>2 DEF Init, Lateness, KickedWasLate
<1>7. RunningHasTwo /\ RoomInformed /\ LedgerOfFighters
  BY <1>1 DEF Init, RunningHasTwo, RoomInformed, LedgerOfFighters
<1>. QED  BY <1>4, <1>5, <1>6, <1>7 DEF RoomInv

\* A restart leaves the room as it began.
LEMMA RestartStep ==
  ASSUME RoomInv, Restart
  PROVE  RoomInv'
<1>1. Online' = {} /\ Alive' = {}
  BY SlotsFinite DEF Restart, Online, Alive
<1>2. Free \in AnyEntry /\ Vacant \in PlayerState /\ Free.stale = FALSE
  BY WarzoneAssumption DEF Free, AnyEntry, Phase, Vacant, PlayerState, Cell
<1>3. /\ ledger' \in History /\ ledger'.fought = {}
      /\ ledger'.late = ledger.late /\ ledger'.kicked = ledger.kicked
  BY DEF Restart, RoomInv, Typed, History
<1>4. Typed'
  BY <1>2, <1>3 DEF Restart, RoomInv, Typed, NoWatch
<1>5. Seating'
  BY <1>1, <1>3 DEF Seating
<1>6. Lateness'
  BY <1>2, <1>3 DEF Restart, RoomInv, Lateness, KickedWasLate
<1>7. RunningHasTwo' /\ RoomInformed' /\ LedgerOfFighters'
  BY <1>1 DEF Restart, RunningHasTwo, RoomInformed, LedgerOfFighters
<1>. QED  BY <1>4, <1>5, <1>6, <1>7 DEF RoomInv

LEMMA RoomInvStep == RoomInv /\ [Next]_vars => RoomInv'
<1>. SUFFICES ASSUME RoomInv, [Next]_vars PROVE RoomInv'
  OBVIOUS
<1>1. CASE Accept
  BY <1>1, AcceptStep
<1>2. CASE Kick
  BY <1>2, KickStep
<1>3. CASE SpawnWeapon
  BY <1>3, WeaponStep
<1>4. ASSUME NEW c \in Conns, Packet(c) PROVE RoomInv'
  <2>1. CASE HangUp(c) \/ touchHB(c)
    BY <2>1, WatchStep
  <2>2. CASE AuthFails(c) \/ \E u \in User : Register(c, u) \/ Login(c, u)
    BY <2>2, AuthStep
  <2>3. CASE Join(c) \/ JoinFull(c)
    BY <2>3, JoinStep, JoinFullStep
  <2>4. CASE Keys(c)
    BY <2>4, ReadyStep, MoveStep, WoundStep, KillStep DEF Keys
  <2>. QED  BY <1>4, <2>1, <2>2, <2>3, <2>4 DEF Packet
<1>5. ASSUME NEW c \in Conns, Cleanup(c) PROVE RoomInv'
  BY <1>5, CleanupStep
<1>6. ASSUME NEW c \in Conns, GoSilent(c) \/ Watch(c) PROVE RoomInv'
  BY <1>6, WatchStep
<1>7. CASE UNCHANGED vars
  <2>1. UNCHANGED <<slotConn, players, weapons, started, over, winner, kills, died, told, conns,
                    accepted, watch, ledger>>
    BY <1>7 DEF vars, connLayer, game, round
  <2>2. Lateness'
    BY <2>1 DEF RoomInv, Lateness, KickedWasLate, NoWatch
  <2>. QED  BY <2>1, <2>2, ConnectionStep DEF RoomInv, Typed
<1>. QED  BY <1>1, <1>2, <1>3, <1>4, <1>5, <1>6, <1>7, RestartStep DEF Next

LEMMA RoomInvAlways == Spec => []RoomInv
BY RoomInvInit, RoomInvStep, PTL DEF Spec

-----------------------------------------------------------------------------
(* Entries and sockets.                                                    *)

\* Entries keep their socket or are free again; sockets are only closed.
LEMMA SameSockets ==
  ASSUME Entries, UNCHANGED accepted, open' \subseteq open, watch'.sock \in 0..accepted,
         \A c \in Conns : conns'[c].sock \in {0, conns[c].sock},
         \A c \in Conns : \/ conns'[c].tries = 0
                          \/ conns'[c].tries = conns[c].tries /\
                               (conns'[c].phase = "auth" => conns[c].phase = "auth"),
         accepted \in Nat
  PROVE  Entries'
<1>1. MaxTries \in Nat \ {0}
  BY WarzoneAssumption
<1>2. ASSUME NEW c \in Conns
      PROVE  /\ conns'[c].tries \in 0..MaxTries
             /\ conns'[c].phase = "auth" => conns'[c].tries < MaxTries
             /\ conns'[c].sock \in 0..accepted
  BY <1>1 DEF Entries
<1>. QED  BY <1>2 DEF Entries

LEMMA EntriesInit == Init => Entries
BY WarzoneAssumption DEF Init, Entries, Free, NoWatch

LEMMA AcceptEntries ==
  ASSUME RoomInv, Entries, Accept
  PROVE  Entries'
<1>. DEFINE free == {c \in Conns : conns[c].phase = "free"}
            e == [Free EXCEPT !.sock = accepted', !.phase = "auth"]
<1>1. accepted' = accepted + 1 /\ UNCHANGED watch /\ accepted \in Nat /\ MaxTries \in Nat \ {0}
  BY WarzoneAssumption DEF Accept, RoomInv, Typed
<1>2. e.sock = accepted' /\ e.tries = 0
  BY DEF Free
<1>3. conns' = conns \/ conns' = [conns EXCEPT ![Lowest(free)] = e]
  BY DEF Accept
<1>. HIDE DEF e
<1>4. \A c \in Conns : conns'[c] = conns[c] \/ conns'[c] = e
  BY <1>3 DEF RoomInv, Typed
<1>5. open' \subseteq open \cup {accepted'}
  BY DEF Accept
<1>6. 0..accepted \subseteq 0..accepted' /\ 1..accepted \subseteq 1..accepted' /\ accepted' \in 1..accepted'
  BY <1>1
<1>7. ASSUME NEW c \in Conns
      PROVE  /\ conns'[c].tries \in 0..MaxTries
             /\ conns'[c].phase = "auth" => conns'[c].tries < MaxTries
             /\ conns'[c].sock \in 0..accepted'
  BY <1>1, <1>2, <1>4, <1>6 DEF Entries
<1>. QED  BY <1>1, <1>5, <1>6, <1>7 DEF Entries

LEMMA AuthEntries ==
  ASSUME RoomInv, Entries, NEW c \in Conns,
         AuthFails(c) \/ \E u \in User : Register(c, u) \/ Login(c, u)
  PROVE  Entries'
<1>1. /\ conns \in [Conns -> AnyEntry] /\ accepted \in Nat /\ MaxTries \in Nat \ {0}
      /\ conns[c].phase = "auth" /\ UNCHANGED <<open, accepted, watch>>
  BY WarzoneAssumption DEF RoomInv, Typed, AuthFails, Register, Login, Attempt, Reads
<1>2. CASE AuthFails(c)
  <2>. DEFINE p == IF conns[c].tries + 1 < MaxTries THEN "auth" ELSE "leaving"
              e == [conns[c] EXCEPT !.tries = conns[c].tries + 1, !.phase = p]
  <2>1. conns' = [conns EXCEPT ![c] = e]
    BY <1>1, <1>2 DEF AuthFails
  <2>2. conns[c].tries \in 0..MaxTries /\ conns[c].tries < MaxTries
    BY <1>1 DEF Entries
  <2>3. e.tries = conns[c].tries + 1 /\ e.phase = p /\ e.sock = conns[c].sock
    BY <1>1 DEF AnyEntry
  <2>. HIDE DEF e
  <2>4. /\ e.tries \in 0..MaxTries /\ e.sock \in 0..accepted
        /\ e.phase = "auth" => e.tries < MaxTries
    BY <1>1, <2>2, <2>3 DEF Entries
  <2>. HIDE DEF p
  <2>5. \A d \in Conns : conns'[d] = conns[d] \/ conns'[d] = e
    BY <1>1, <2>1
  <2>. QED  BY <1>1, <2>4, <2>5 DEF Entries
<1>3. ASSUME NEW u \in User, Register(c, u) \/ Login(c, u) PROVE Entries'
  <2>. DEFINE e == [conns[c] EXCEPT !.phase = "lobby", !.username = u]
  <2>1. conns' = [conns EXCEPT ![c] = e]
    BY <1>1, <1>3 DEF Register, Login, Authed
  <2>2. e.tries = conns[c].tries /\ e.phase = "lobby" /\ e.sock = conns[c].sock
    BY <1>1 DEF AnyEntry
  <2>. HIDE DEF e
  <2>3. \A d \in Conns : conns'[d] = conns[d] \/ (d = c /\ conns'[d] = e)
    BY <1>1, <2>1
  <2>. QED  BY <1>1, <2>2, <2>3 DEF Entries
<1>. QED  BY <1>2, <1>3

LEMMA EntriesStep == RoomInv /\ Entries /\ [Next]_vars => Entries'
<1>. SUFFICES ASSUME RoomInv, Entries, [Next]_vars PROVE Entries'
  OBVIOUS
<1>1. /\ conns \in [Conns -> AnyEntry] /\ accepted \in Nat
      /\ watch \in [entry : Conns \cup {None}, sock : Nat] /\ watch.sock \in 0..accepted
  BY DEF RoomInv, Typed, Entries
<1>2. CASE UNCHANGED connLayer
  BY <1>1, <1>2 DEF connLayer, Entries
<1>3. CASE Kick
  <2>1. UNCHANGED <<conns, accepted>> /\ open' \subseteq open /\ watch' = NoWatch
    BY <1>3 DEF Kick, Closes
  <2>. QED  BY <1>1, <2>1, SameSockets DEF NoWatch
<1>4. ASSUME NEW c \in Conns, HangUp(c) \/ GoSilent(c) \/ touchHB(c) \/ Join(c) \/ LeaveRoom(c)
      PROVE  Entries'
  <2>1. UNCHANGED <<accepted, watch>> /\ open' \subseteq open
    BY <1>4 DEF HangUp, GoSilent, touchHB, Join, LeaveRoom
  <2>2. \/ conns' = conns \/ conns' = [conns EXCEPT ![c].stale = TRUE]
        \/ conns' = [conns EXCEPT ![c].stale = FALSE]
        \/ conns' = [conns EXCEPT ![c].phase = "game"]
        \/ conns' = [conns EXCEPT ![c].phase = "closing"]
    BY <1>4 DEF HangUp, GoSilent, touchHB, Join, LeaveRoom
  <2>3. /\ \A d \in Conns : conns'[d].sock = conns[d].sock /\ conns'[d].tries = conns[d].tries
        /\ \A d \in Conns : conns'[d].phase = "auth" => conns[d].phase = "auth"
    BY <1>1, <2>2 DEF AnyEntry
  <2>. QED  BY <1>1, <2>1, <2>3, SameSockets
<1>5. ASSUME NEW c \in Conns, Watch(c) PROVE Entries'
  <2>1. UNCHANGED <<conns, open, accepted>> /\ watch'.sock = conns[c].sock
    BY <1>5 DEF Watch
  <2>2. watch'.sock \in 0..accepted
    BY <2>1 DEF Entries
  <2>. QED  BY <1>1, <2>1, <2>2, SameSockets
<1>6. ASSUME NEW c \in Conns, Release(c) PROVE Entries'
  <2>1. /\ conns' = [conns EXCEPT ![c] = Free] /\ UNCHANGED <<accepted, watch>>
        /\ open' \subseteq open
    BY <1>6 DEF Release
  <2>2. Free.sock = 0 /\ Free.tries = 0
    BY DEF Free
  <2>3. \A d \in Conns : conns'[d] = conns[d] \/ conns'[d] = Free
    BY <1>1, <2>1
  <2>. QED  BY <1>1, <2>1, <2>2, <2>3, SameSockets
<1>7. ASSUME NEW c \in Conns, Packet(c) PROVE Entries'
  <2>1. CASE JoinFull(c) \/ Keys(c)
    BY <1>2, <2>1 DEF JoinFull, Keys, Ready, Move, Wound, Kill
  <2>. QED  BY <1>4, <1>7, <2>1, AuthEntries DEF Packet
<1>8. ASSUME NEW c \in Conns, Cleanup(c) PROVE Entries'
  BY <1>4, <1>6, <1>8 DEF Cleanup, Depart, DepartFight, DepartRoom
<1>9. CASE SpawnWeapon \/ UNCHANGED vars
  BY <1>2, <1>9 DEF SpawnWeapon, vars
<1>10. CASE Restart
  <2>1. /\ UNCHANGED accepted /\ open' = {} /\ watch'.sock = 0
        /\ \A c \in Conns : conns'[c].sock = 0 /\ conns'[c].tries = 0
    BY <1>10 DEF Restart, Free, NoWatch
  <2>. QED  BY <1>1, <2>1, SameSockets
<1>. QED  BY <1>3, <1>4, <1>5, <1>7, <1>8, <1>9, <1>10, AcceptEntries DEF Next

-----------------------------------------------------------------------------
(* Weapons, the winner and the accounts.                                   *)

\* A round is decided for somebody who is alive in the room.
LEMMA WinnerIsSeated ==
  ASSUME RoomInv', NEW l, CheckGameOver(l)
  PROVE  \/ /\ over' = TRUE
            /\ \E g \in Online' : winner' = slotConn'[g] /\ SaveStats(slotConn'[g])
         \/ UNCHANGED <<over, winner, stats>>
<1>1. Alive' \subseteq Online'
  BY DEF Alive
<1>2. \/ over' = TRUE /\ \E g \in Alive' : winner' = slotConn'[g] /\ SaveStats(slotConn'[g])
      \/ UNCHANGED <<over, winner, stats>>
  BY Zenon DEF CheckGameOver
<1>. QED  BY <1>1, <1>2, Zenon

LEMMA FieldInit == Init => Field
BY WarzoneAssumption, FS_EmptySet DEF Init, Field

LEMMA FieldStep == RoomInv /\ RoomInv' /\ Field /\ [Next]_vars => Field'
<1>. SUFFICES ASSUME RoomInv, RoomInv', Field, [Next]_vars PROVE Field'
  OBVIOUS
<1>0. MaxWeapons \in Nat
  BY WarzoneAssumption
<1>1. CASE UNCHANGED <<weapons, winner>>
  BY <1>1 DEF Field
<1>2. CASE Accept \/ Kick \/ UNCHANGED vars
  BY <1>1, <1>2 DEF Accept, Kick, Closes, vars, game, round
<1>3. CASE SpawnWeapon
  <2>1. PICK p \in FreeCells : weapons' = weapons \cup {p}
    BY <1>3 DEF SpawnWeapon
  <2>2. Cardinality(weapons) < MaxWeapons /\ UNCHANGED winner
    BY <1>3 DEF SpawnWeapon, round
  <2>3. p \in Cell
    BY WarzoneAssumption DEF FreeCells, Cell
  <2>4. IsFiniteSet(weapons) /\ Cardinality(weapons) \in Nat
    BY FS_CardinalityType DEF Field
  <2>5. IsFiniteSet(weapons') /\ Cardinality(weapons') <= Cardinality(weapons) + 1
    BY <2>1, <2>4, FS_AddElement
  <2>6. IsFiniteSet(weapons') /\ Cardinality(weapons') \in Nat
    BY <2>5, FS_CardinalityType
  <2>. QED  BY <1>0, <2>1, <2>2, <2>3, <2>4, <2>5, <2>6 DEF Field
<1>4. ASSUME NEW c \in Conns, Move(c) PROVE Field'
  <2>1. weapons' \subseteq weapons /\ UNCHANGED winner
    BY <1>4 DEF Move, round
  <2>2. /\ IsFiniteSet(weapons') /\ Cardinality(weapons') <= Cardinality(weapons)
        /\ Cardinality(weapons') \in Nat /\ Cardinality(weapons) \in Nat
    BY <2>1, FS_Subset, FS_CardinalityType DEF Field
  <2>. QED  BY <1>0, <2>1, <2>2 DEF Field
<1>5. ASSUME NEW c \in Conns, Ready(c) PROVE Field'
  <2>1. (weapons' = {} /\ winner' = None) \/ UNCHANGED <<weapons, winner>>
    BY <1>5 DEF Ready, ResetGame
  <2>. QED  BY <1>0, <1>1, <2>1, FS_EmptySet DEF Field
<1>6. ASSUME NEW l, CheckGameOver(l), UNCHANGED weapons PROVE Field'
  <2>1. winner' \in Conns \/ UNCHANGED winner
    BY <1>6, WinnerIsSeated DEF RoomInv, Typed, Online
  <2>. QED  BY <1>6, <2>1 DEF Field
<1>7. ASSUME NEW c \in Conns, Kill(c) PROVE Field'
  <2>1. \E l : CheckGameOver(l)
    BY <1>7 DEF Kill
  <2>2. UNCHANGED weapons
    BY <1>7 DEF Kill
  <2>. QED  BY <1>6, <2>1, <2>2
<1>8. ASSUME NEW c \in Conns, Packet(c) PROVE Field'
  <2>1. CASE HangUp(c) \/ touchHB(c) \/ AuthFails(c) \/ JoinFull(c) \/ Join(c) \/ Wound(c)
    BY <1>1, <2>1 DEF HangUp, touchHB, AuthFails, JoinFull, Join, Wound, game, round
  <2>2. ASSUME NEW u \in User, Register(c, u) \/ Login(c, u) PROVE Field'
    BY <1>1, <2>2 DEF Register, Login, game, round
  <2>. QED  BY <1>4, <1>5, <1>7, <1>8, <2>1, <2>2 DEF Packet, Keys
<1>9. ASSUME NEW c \in Conns, Cleanup(c) PROVE Field'
  <2>1. CASE Depart(c) \/ DepartRoom(c) \/ Release(c)
    BY <1>1, <2>1 DEF Depart, DepartRoom, Release, LeaveRoom, game, round
  <2>2. CASE DepartFight(c)
    BY <1>6, <2>2 DEF DepartFight, LeaveRoom
  <2>. QED  BY <1>9, <2>1, <2>2 DEF Cleanup
<1>10. ASSUME NEW c \in Conns, GoSilent(c) \/ Watch(c) PROVE Field'
  BY <1>1, <1>10 DEF GoSilent, Watch, game, round
<1>11. CASE Restart
  BY <1>0, <1>11, FS_EmptySet DEF Restart, Field
<1>. QED  BY <1>2, <1>3, <1>8, <1>9, <1>10, <1>11 DEF Next

(* saveStatsLocked: each seat counts for the account of its player, and    *)
(* the one seat of the winner as a win, if the name is found again.        *)
LEMMA SaveFacts ==
  ASSUME RoomInv, RoomInv', Accounts, NEW g \in Online', SaveStats(slotConn'[g]),
         conns[slotConn'[g]].phase = "game"
  PROVE  /\ stats' \in [User -> Record]
         /\ \A v \in User \ users : stats'[v].wins = 0
         /\ \/ /\ conns[slotConn'[g]].username \in Comment
               /\ \A v \in User : stats'[v].wins = stats[v].wins
            \/ /\ conns[slotConn'[g]].username \notin Comment
               /\ \E u \in users : /\ stats'[u].wins = stats[u].wins + 1
                                   /\ \A v \in User \ {u} : stats'[v].wins = stats[v].wins
<1>. DEFINE w == slotConn'[g]
            of(u) == {h \in Slots : slotConn'[h] # None /\ conns[slotConn'[h]].username = u}
            won(u) == {h \in of(u) : slotConn'[h] = w}
            fell(u) == {h \in of(u) : died'[h]}
<1>1. g \in Slots /\ w \in Conns /\ w # None /\ kills' \in [Slots -> Nat]
  BY SlotsFinite DEF Online, RoomInv, Typed
<1>2. ASSUME NEW u \in User
      PROVE  /\ of(u) \subseteq Slots /\ Cardinality(of(u)) \in Nat
             /\ Cardinality(won(u)) \in Nat /\ Cardinality(fell(u)) \in Nat
             /\ Cardinality(of(u) \ won(u)) \in Nat
             /\ Total(kills', of(u)) \in Nat
  <2>. DEFINE O == of(u)  W == won(u)  F == fell(u)
  <2>1. O \subseteq Slots /\ W \subseteq Slots /\ F \subseteq Slots /\ O \ W \subseteq Slots
    OBVIOUS
  <2>. HIDE DEF O, W, F
  <2>2. /\ IsFiniteSet(O) /\ Cardinality(O) \in Nat /\ Cardinality(W) \in Nat
        /\ Cardinality(F) \in Nat /\ Cardinality(O \ W) \in Nat
    BY <2>1, SlotsFinite
  <2>3. Total(kills', O) \in Nat
    BY <1>1, <2>1, <2>2, PointsFinite
  <2>. QED  BY <2>1, <2>2, <2>3 DEF O, W, F
<1>3. /\ \A u \in User \ Comment : stats'[u] = UpdateStats(stats[u], of(u), won(u))
      /\ \A u \in Comment : stats'[u] = NoRecord
  BY WarzoneAssumption DEF SaveStats, Recorded
<1>4. \A u \in User : stats[u] \in Record
  BY DEF Accounts
<1>5. ASSUME NEW u \in User \ Comment
      PROVE  stats'[u] \in Record /\ stats'[u].wins = stats[u].wins + Cardinality(won(u))
  <2>1. stats[u] \in Record
    BY <1>4
  <2>2. stats'[u] = [games  |-> stats[u].games + Cardinality(of(u)),
                     wins   |-> stats[u].wins + Cardinality(won(u)),
                     losses |-> stats[u].losses + Cardinality(of(u) \ won(u)),
                     kills  |-> stats[u].kills + Total(kills', of(u)),
                     deaths |-> stats[u].deaths + Cardinality(fell(u))]
    BY <1>3 DEF UpdateStats
  <2>. HIDE DEF of, won, fell
  <2>. QED  BY <1>2, <2>1, <2>2 DEF Record
<1>6. stats' \in [User -> Record]
  <2>1. stats' = [u \in User |-> stats'[u]]
    BY DEF SaveStats, Recorded
  <2>2. NoRecord \in Record
    BY DEF NoRecord, Record
  <2>. HIDE DEF of, won, fell
  <2>. QED  BY <1>3, <1>5, <2>1, <2>2
<1>. DEFINE x == conns[w].username
<1>7. x \in users \cup Comment /\ users \subseteq User \ Comment
  BY <1>1 DEF Accounts
<1>8. \A h \in Slots : slotConn'[h] = w => h = g
  BY <1>1, SlotsFinite DEF RoomInv, Seating, Online
<1>9. won(x) = {g} /\ \A v \in User \ {x} : won(v) = {}
  BY <1>1, <1>8
<1>10. Cardinality(won(x)) = 1 /\ \A v \in User \ {x} : Cardinality(won(v)) = 0
  <2>. HIDE DEF won, x
  <2>. QED  BY <1>9, FS_Singleton, FS_EmptySet
<1>11. \A v \in User : stats[v].wins \in Nat
  BY <1>4 DEF Record
<1>12. \A v \in User \ {x} : stats'[v].wins = stats[v].wins
  <2>1. \A v \in Comment : stats'[v].wins = 0 /\ stats[v].wins = 0
    BY <1>3, <1>7, WarzoneAssumption DEF NoRecord, Accounts
  <2>. HIDE DEF won, x
  <2>. QED  BY <1>5, <1>10, <1>11, <2>1
<1>13. x \notin Comment => x \in users /\ stats'[x].wins = stats[x].wins + 1
  <2>. HIDE DEF won, x
  <2>. QED  BY <1>5, <1>7, <1>10
<1>14. x \in Comment => stats'[x].wins = stats[x].wins
  <2>1. \A v \in Comment : stats'[v].wins = 0 /\ stats[v].wins = 0
    BY <1>3, <1>7, WarzoneAssumption DEF NoRecord, Accounts
  <2>. QED  BY <2>1
<1>15. \A v \in User \ users : stats'[v].wins = 0
  <2>1. \A v \in User \ users : stats[v].wins = 0
    BY DEF Accounts
  <2>. HIDE DEF x
  <2>. QED  BY <1>12, <1>13, <1>14, <2>1
<1>. QED  BY <1>6, <1>12, <1>13, <1>14, <1>15

-----------------------------------------------------------------------------
(* What the wins of all accounts add up to.                                *)

WonOnce == Wins' = Wins + (IF WonByName THEN 1 ELSE 0)

LEMMA NoWin ==
  ASSUME Accounts, ~WonByName, stats' \in [User -> Record],
         \A u \in User : stats'[u].wins = stats[u].wins
  PROVE  WonOnce
<1>. DEFINE W == [u \in User |-> stats[u].wins]
<1>1. \A u \in User : W[u] \in Nat
  BY DEF Accounts, Record
<1>2. [u \in User |-> stats'[u].wins] = W
  OBVIOUS
<1>3. IsFiniteSet(User)
  BY WarzoneAssumption
<1>4. Total(W, User) \in Nat
  <2>. HIDE DEF W
  <2>. QED  BY <1>1, <1>3, PointsFinite
<1>. QED  BY <1>2, <1>4 DEF Wins, WonOnce

LEMMA OneWin ==
  ASSUME Accounts, WonByName, NEW u \in User, stats' \in [User -> Record],
         stats'[u].wins = stats[u].wins + 1,
         \A v \in User \ {u} : stats'[v].wins = stats[v].wins
  PROVE  WonOnce
<1>. DEFINE W == [v \in User |-> stats[v].wins]
            X == [v \in User |-> stats'[v].wins]
<1>1. W \in [User -> Nat]
  BY DEF Accounts, Record
<1>2. X = [W EXCEPT ![u] = W[u] + 1]
  OBVIOUS
<1>3. IsFiniteSet(User)
  BY WarzoneAssumption
<1>4. Total([W EXCEPT ![u] = W[u] + 1], User) = Total(W, User) + 1
  <2>. HIDE DEF W
  <2>. QED  BY <1>1, <1>3, TotalAdd
<1>5. Total(X, User) = Total(W, User) + 1
  BY <1>2, <1>4
<1>6. Wins' = Total(X, User) /\ Wins = Total(W, User)
  BY DEF Wins
<1>. QED  BY <1>5, <1>6 DEF WonOnce

LEMMA SameAccounts ==
  ASSUME Accounts, over' => over, UNCHANGED <<users, stats>>,
         \A c \in Conns : conns'[c].phase \in {"lobby", "game"} =>
           conns[c].phase \in {"lobby", "game"} /\ conns'[c].username = conns[c].username
  PROVE  Accounts' /\ WonOnce
BY NoWin DEF Accounts, WonByName

LEMMA DecidedAccounts ==
  ASSUME RoomInv, RoomInv', Accounts, NEW l, CheckGameOver(l), ~over, UNCHANGED users,
         \A g \in Online' : conns[slotConn'[g]].phase = "game",
         \A c \in Conns : conns'[c].phase \in {"lobby", "game"} => conns'[c] = conns[c]
  PROVE  Accounts' /\ WonOnce
<1>1. ASSUME over' = TRUE, NEW g \in Online', winner' = slotConn'[g], SaveStats(slotConn'[g])
      PROVE  Accounts' /\ WonOnce
  <2>1. conns[slotConn'[g]].phase = "game"
    OBVIOUS
  <2>2. /\ stats' \in [User -> Record] /\ \A v \in User \ users : stats'[v].wins = 0
        /\ \/ conns[winner'].username \in Comment /\ \A v \in User : stats'[v].wins = stats[v].wins
           \/ /\ conns[winner'].username \notin Comment
              /\ \E u \in users : /\ stats'[u].wins = stats[u].wins + 1
                                  /\ \A v \in User \ {u} : stats'[v].wins = stats[v].wins
    BY <1>1, <2>1, SaveFacts
  <2>3. Accounts'
    BY <2>2 DEF Accounts
  <2>4. CASE conns[winner'].username \in Comment
    <3>1. ~WonByName
      BY <2>4 DEF WonByName
    <3>. QED  BY <2>2, <2>3, <2>4, <3>1, NoWin
  <2>5. CASE conns[winner'].username \notin Comment
    <3>1. WonByName /\ users \subseteq User
      BY <1>1, <2>5 DEF WonByName, Accounts
    <3>. QED  BY <2>2, <2>3, <2>5, <3>1, OneWin
  <2>. QED  BY <2>4, <2>5
<1>2. CASE UNCHANGED <<over, winner, stats>>
  BY <1>2, SameAccounts
<1>. QED  BY <1>1, <1>2, WinnerIsSeated

LEMMA AuthAccounts ==
  ASSUME RoomInv, Accounts, NEW c \in Conns,
         AuthFails(c) \/ \E u \in User : Register(c, u) \/ Login(c, u)
  PROVE  Accounts' /\ WonOnce
<1>1. conns \in [Conns -> AnyEntry] /\ conns[c].phase = "auth" /\ over' = over
  BY DEF RoomInv, Typed, AuthFails, Register, Login, Attempt, Reads, game, round
<1>2. CASE AuthFails(c)
  <2>. DEFINE p == IF conns[c].tries + 1 < MaxTries THEN "auth" ELSE "leaving"
              e == [conns[c] EXCEPT !.tries = conns[c].tries + 1, !.phase = p]
  <2>1. conns' = [conns EXCEPT ![c] = e] /\ UNCHANGED <<users, stats>>
    BY <1>1, <1>2 DEF AuthFails, game, round
  <2>2. e.phase = p /\ p \notin {"lobby", "game"}
    BY <1>1 DEF AnyEntry
  <2>. HIDE DEF e, p
  <2>3. \A d \in Conns : conns'[d] = conns[d] \/ conns'[d] = e
    BY <1>1, <2>1
  <2>. QED  BY <1>1, <2>1, <2>2, <2>3, SameAccounts
<1>3. ASSUME NEW u \in User, Register(c, u) \/ Login(c, u) PROVE Accounts' /\ WonOnce
  <2>. DEFINE e == [conns[c] EXCEPT !.phase = "lobby", !.username = u]
  <2>1. conns' = [conns EXCEPT ![c] = e]
    BY <1>1, <1>3 DEF Register, Login, Authed
  <2>2. e.username = u
    BY <1>1 DEF AnyEntry
  <2>. HIDE DEF e
  <2>3. \A d \in Conns : conns'[d] = conns[d] \/ conns'[d].username = u
    BY <1>1, <2>1, <2>2
  <2>4. NoRecord \in Record /\ NoRecord.wins = 0
    BY DEF NoRecord, Record
  <2>5. \/ /\ users' = (users \cup {u}) \ Comment /\ u \notin users
           /\ stats' = [v \in User |-> IF v = u \/ v \in Comment THEN NoRecord ELSE stats[v]]
        \/ u \in users /\ UNCHANGED <<users, stats>>
    BY <1>3, WarzoneAssumption DEF Register, Login, Listed, Recorded, game, round, Accounts
  <2>6. stats' \in [User -> Record] /\ \A v \in User : stats'[v].wins = stats[v].wins
    BY <2>4, <2>5, WarzoneAssumption DEF Accounts
  <2>7. WonOnce
    BY <1>1, <2>6, NoWin DEF WonByName
  <2>8. Accounts'
    BY <2>3, <2>5, <2>6 DEF Accounts
  <2>. QED  BY <2>7, <2>8
<1>. QED  BY <1>2, <1>3

LEMMA AccountsInit == Init => Accounts
BY DEF Init, Accounts, Record, NoRecord, Free

LEMMA AccountsStep == RoomInv /\ RoomInv' /\ Accounts /\ [Next]_vars => Accounts' /\ WonOnce
<1>. SUFFICES ASSUME RoomInv, RoomInv', Accounts, [Next]_vars PROVE Accounts' /\ WonOnce
  OBVIOUS
<1>1. conns \in [Conns -> AnyEntry]
  BY DEF RoomInv, Typed
<1>2. CASE UNCHANGED <<conns, users, stats, over>>
  BY <1>2, SameAccounts
<1>3. CASE Accept
  <2>. DEFINE free == {c \in Conns : conns[c].phase = "free"}
              e == [Free EXCEPT !.sock = accepted', !.phase = "auth"]
  <2>1. UNCHANGED <<users, stats, over>> /\ (conns' = conns \/ conns' = [conns EXCEPT ![Lowest(free)] = e])
    BY <1>3 DEF Accept, game, round
  <2>2. e.phase = "auth"
    BY DEF Free
  <2>. HIDE DEF e
  <2>3. \A c \in Conns : conns'[c] = conns[c] \/ conns'[c] = e
    BY <1>1, <2>1
  <2>. QED  BY <2>1, <2>2, <2>3, SameAccounts
<1>4. ASSUME NEW c \in Conns,
             \/ HangUp(c) \/ GoSilent(c) \/ touchHB(c) \/ Watch(c) \/ Join(c) \/ JoinFull(c)
             \/ Depart(c) \/ DepartRoom(c) \/ Release(c)
      PROVE  Accounts' /\ WonOnce
  <2>1. UNCHANGED <<users, stats>> /\ (over' => over)
    <3>1. CASE DepartRoom(c)
      BY <3>1 DEF DepartRoom, LeaveRoom
    <3>2. CASE Depart(c) \/ Release(c)
      BY <3>2 DEF Depart, LeaveRoom, Release, game, round
    <3>. QED  BY <1>4, <3>1, <3>2
              DEF HangUp, GoSilent, touchHB, Watch, Join, JoinFull, game, round
  <2>2. \/ conns' = conns \/ conns' = [conns EXCEPT ![c].stale = TRUE]
        \/ conns' = [conns EXCEPT ![c].stale = FALSE]
        \/ conns[c].phase = "lobby" /\ conns' = [conns EXCEPT ![c].phase = "game"]
        \/ conns' = [conns EXCEPT ![c].phase = "closing"]
        \/ conns' = [conns EXCEPT ![c] = Free]
    BY <1>4 DEF HangUp, GoSilent, touchHB, Watch, Join, Asks, Reads, JoinFull, connLayer, Depart,
                DepartRoom, LeaveRoom, Release
  <2>3. \A d \in Conns : conns'[d].phase \in {"lobby", "game"} =>
          conns[d].phase \in {"lobby", "game"} /\ conns'[d].username = conns[d].username
    BY <1>1, <2>2 DEF AnyEntry, Free
  <2>. QED  BY <2>1, <2>3, SameAccounts
<1>5. ASSUME NEW c \in Conns, Keys(c) PROVE Accounts' /\ WonOnce
  <2>1. UNCHANGED <<conns, users>>
    BY <1>5 DEF Keys, Ready, Move, Wound, Kill, connLayer
  <2>2. CASE Ready(c)
    <3>1. UNCHANGED stats /\ (over' = FALSE \/ over' = over)
      BY <2>2 DEF Ready, ResetGame
    <3>. QED  BY <2>1, <3>1, SameAccounts
  <2>3. CASE Move(c) \/ Wound(c)
    BY <1>2, <2>1, <2>3 DEF Move, Wound, round
  <2>4. CASE Kill(c)
    <3>1. (\E l : CheckGameOver(l)) /\ ~over /\ UNCHANGED slotConn
      BY <2>4 DEF Kill, Acts
    <3>2. \A g \in Online' : conns[slotConn'[g]].phase = "game"
      BY <3>1 DEF Online, RoomInv, Seating
    <3>. QED  BY <2>1, <3>1, <3>2, DecidedAccounts
  <2>. QED  BY <1>5, <2>2, <2>3, <2>4 DEF Keys
<1>6. ASSUME NEW c \in Conns, DepartFight(c) PROVE Accounts' /\ WonOnce
  <2>1. LeaveRoom(c) /\ ~over /\ UNCHANGED users /\ CheckGameOver(Forget(c))
    BY <1>6 DEF DepartFight, LeaveRoom
  <2>2. \A g \in Online' : conns[slotConn'[g]].phase = "game"
    BY <2>1, LeaveFacts DEF RoomInv, Seating
  <2>3. \A d \in Conns : conns'[d].phase \in {"lobby", "game"} => conns'[d] = conns[d]
    BY <1>1, <2>1 DEF LeaveRoom, AnyEntry
  <2>. QED  BY <2>1, <2>2, <2>3, DecidedAccounts
<1>7. CASE Kick \/ SpawnWeapon \/ UNCHANGED vars
  BY <1>2, <1>7 DEF Kick, Closes, SpawnWeapon, vars, connLayer, game, round
<1>8. ASSUME NEW c \in Conns, Packet(c) \/ Cleanup(c) PROVE Accounts' /\ WonOnce
  BY <1>4, <1>5, <1>6, <1>8, AuthAccounts DEF Packet, Cleanup
<1>9. CASE Restart
  <2>1. UNCHANGED <<users, stats>> /\ over' = FALSE /\ \A c \in Conns : conns'[c].phase = "free"
    BY <1>9 DEF Restart, Free
  <2>. QED  BY <2>1, SameAccounts
<1>. QED  BY <1>3, <1>4, <1>7, <1>8, <1>9 DEF Next

LEMMA BooksAlways == Spec => [](RoomInv /\ Books)
<1>1. Init => Books
  BY EntriesInit, FieldInit, AccountsInit DEF Books
<1>2. RoomInv /\ RoomInv' /\ Books /\ [Next]_vars => Books'
  BY EntriesStep, FieldStep, AccountsStep DEF Books
<1>. QED  BY <1>1, <1>2, RoomInvAlways, PTL DEF Spec

-----------------------------------------------------------------------------
(* Every field keeps its type: nobody's health leaves its range, nobody    *)
(* stands off the map (applyActionLocked, resetGameLocked), no more        *)
(* weapons lie about than weaponWorker may put there, and a round runs     *)
(* only while two are alive (checkGameOverLocked), for any numbers of      *)
(* entries, seats and accounts and on every map.                           *)
THEOREM WarzoneTypeCorrect == Spec => []TypeOK
<1>1. RoomInv /\ Books => TypeOK
  <2>. SUFFICES ASSUME RoomInv, Books PROVE TypeOK
    OBVIOUS
  <2>1. conns \in [Conns -> Entry]
    <3>1. conns \in [Conns -> AnyEntry] /\ \A c \in Conns : conns[c].tries \in 0..MaxTries
      BY DEF RoomInv, Typed, Books, Entries
    <3>2. \A c \in Conns : conns[c] \in Entry
      BY <3>1 DEF AnyEntry, Entry
    <3>. QED  BY <3>1, <3>2
  <2>2. watch \in [entry : Conns \cup {None}, sock : 0..accepted]
    BY DEF RoomInv, Typed, Books, Entries
  <2>. QED  BY <2>1, <2>2 DEF TypeOK, RoomInv, Typed, Books, Entries, Field, Accounts
<1>. QED  BY <1>1, BooksAlways, PTL

(* Every round that ends adds one win to the accounts, unless the winner's *)
(* name is a comment in the file, and nothing else does: a kill and a      *)
(* departure never both decide a round, a restart loses no win             *)
(* (checkGameOverLocked, saveStatsLocked), for any players and accounts.   *)
THEOREM RoundsWonOnceAlways == Spec => RoundsWonOnce
<1>1. RoomInv /\ RoomInv' /\ Books /\ [Next]_vars
        => [Wins' = Wins + (IF WonByName THEN 1 ELSE 0)]_vars
  BY AccountsStep DEF Books, WonOnce
<1>. QED  BY <1>1, BooksAlways, PTL DEF Spec, RoundsWonOnce

(* Whatever handler, worker or cleanup changed the room, everybody in it   *)
(* has been told it as it is.                                              *)
THEOREM RoomInformedAlways == Spec => []RoomInformed
BY RoomInvAlways, PTL DEF RoomInv

(* The kills and the death that will be saved for who fights a round are   *)
(* those of that round, whoever has come and gone in between.              *)
THEOREM LedgerOfFightersAlways == Spec => []LedgerOfFighters
BY RoomInvAlways, PTL DEF RoomInv

(* heartbeatWatcher, which closes a socket after it has let go of connMu,  *)
(* has closed only connections that were late.                             *)
THEOREM KickedWasLateAlways == Spec => []KickedWasLate
BY RoomInvAlways, PTL DEF RoomInv, Lateness

-----------------------------------------------------------------------------
(* The refinement.  Seats are unique, so that the number of people in the  *)
(* room is the number of seats taken.                                      *)
LEMMA SameNumber ==
  ASSUME NEW S, IsFiniteSet(S), NEW f, \A x, y \in S : f[x] = f[y] => x = y
  PROVE  Cardinality({f[x] : x \in S}) = Cardinality(S)
<1>. DEFINE T == {f[x] : x \in S}
            b == [x \in S |-> f[x]]
<1>1. b \in Bijection(S, T)
  BY DEF Bijection, Injection, Surjection, IsInjective
<1>2. ExistsBijection(S, T)
  BY <1>1 DEF ExistsBijection
<1>. QED  BY <1>2, FS_Bijection

\* SharedRound counts as Warzone does.
LEMMA RoomCardinality == \A S : Room!Cardinality(S) = Cardinality(S)
BY DEF Room!Cardinality, Cardinality

\* Steps that change nothing of what the room promises.
LEMMA StillRoom ==
  ASSUME UNCHANGED <<slotConn, started, over, winner>>, Alive' = Alive, AllReady' = AllReady
  PROVE  UNCHANGED Room!vars
<1>1. Online' = Online
  BY DEF Online
<1>2. \A S : Seat(S)' = Seat(S)
  BY DEF Seat
<1>. QED  BY <1>1, <1>2 DEF Room!vars, Seat

LEMMA StillPlayers ==
  ASSUME UNCHANGED <<slotConn, players, started, over, winner>>
  PROVE  UNCHANGED Room!vars
BY StillRoom DEF Alive, AllReady, Online

LEMMA JoinIsEnter ==
  ASSUME RoomInv, NEW c \in Conns, Join(c)
  PROVE  Room!Enter(c)
<1>1. PICK g \in Slots \ Online :
        /\ slotConn' = [slotConn EXCEPT ![g] = c]
        /\ UNCHANGED <<started, over, winner>>
        /\ \A h \in Online : slotConn[h] # c
        /\ Online' = Online \cup {g} /\ Alive' = Alive /\ AllReady' = AllReady
  BY JoinFacts
<1>2. /\ slotConn'[g] = c /\ \A h \in Online : slotConn'[h] = slotConn[h]
      /\ Alive \subseteq Online /\ AllReady \subseteq Online
  BY <1>1 DEF RoomInv, Typed, Online, Alive, AllReady
<1>3. /\ c \notin Seat(Online) /\ Seat(Online)' = Seat(Online) \cup {c}
      /\ Seat(Alive)' = Seat(Alive) /\ Seat(AllReady)' = Seat(AllReady)
  BY <1>1, <1>2 DEF Seat
<1>. QED  BY <1>1, <1>3 DEF Room!Enter

\* A fighter fewer.
LEMMA OutOfFight ==
  ASSUME RoomInv', UNCHANGED started, started, ~over, NEW c, NEW l, CheckGameOver(l),
         Seat(Alive)' = Seat(Alive) \ {c}
  PROVE  Room!Out(c)
<1>1. Alive' \subseteq Online' /\ Alive' \subseteq Slots
  BY DEF Alive, Online
<1>2. IsFiniteSet(Alive') /\ \A g, h \in Alive' : slotConn'[g] = slotConn'[h] => g = h
  BY <1>1, SlotsFinite DEF RoomInv, Seating
<1>3. Cardinality(Seat(Alive)') = Cardinality(Alive')
  <2>. DEFINE A == Alive'
              f == slotConn'
  <2>1. IsFiniteSet(A) /\ \A g, h \in A : f[g] = f[h] => g = h
    BY <1>2
  <2>2. Seat(Alive)' = {f[g] : g \in A}
    BY DEF Seat
  <2>. HIDE DEF A, f
  <2>3. Cardinality({f[g] : g \in A}) = Cardinality(A)
    BY <2>1, SameNumber
  <2>. QED  BY <2>2, <2>3 DEF A
<1>4. \/ Cardinality(Alive') = 1 /\ over' = TRUE /\ \E g \in Alive' : winner' = slotConn'[g]
      \/ Cardinality(Alive') > 1 /\ UNCHANGED <<over, winner>>
  <2>1. \/ Cardinality(Alive') = 1 /\ over' = TRUE /\ \E g \in Alive' : winner' = slotConn'[g]
        \/ Cardinality(Alive') > 1 /\ UNCHANGED <<over, winner, stats>>
    BY Zenon DEF CheckGameOver
  <2>. QED  BY <2>1
<1>5. CASE Cardinality(Alive') = 1 /\ over' = TRUE /\ \E g \in Alive' : winner' = slotConn'[g]
  BY <1>3, <1>5, RoomCardinality DEF Room!Out, Seat
<1>6. CASE Cardinality(Alive') > 1 /\ UNCHANGED <<over, winner>>
  BY <1>3, <1>6, RoomCardinality DEF Room!Out
<1>. QED  BY <1>4, <1>5, <1>6

LEMMA KillIsFall ==
  ASSUME RoomInv, NEW c \in Conns, Kill(c)
  PROVE  \E p \in Conns : Room!Fall(p)
<1>1. PICK g \in Slots, t \in Alive : Fatal(c, g, t)
  BY KillFacts
<1>2. PICK l : CheckGameOver(l)
  BY <1>1, Zenon DEF Fatal
<1>3. /\ started /\ ~over /\ UNCHANGED <<slotConn, started>>
      /\ ~players'[t].alive
      /\ \A h \in Slots \ {t} : players'[h].alive = players[h].alive
      /\ \A h \in Slots : players'[h].ready = players[h].ready
  BY <1>1, Zenon DEF Fatal
<1>4. slotConn[t] \in Conns /\ t \in Online
  BY DEF RoomInv, Typed, Online, Alive
<1>5. Online' = Online /\ AllReady' = AllReady /\ Alive' = Alive \ {t}
  BY <1>3, <1>4 DEF Online, AllReady, Alive
<1>6. \A h \in Alive : slotConn[h] = slotConn[t] => h = t
  BY <1>4 DEF RoomInv, Seating, Alive
<1>7. /\ Seat(Online)' = Seat(Online) /\ Seat(AllReady)' = Seat(AllReady)
      /\ Seat(Alive)' = Seat(Alive) \ {slotConn[t]} /\ slotConn[t] \in Seat(Alive)
  BY <1>3, <1>5, <1>6 DEF Seat
<1>8. Room!Out(slotConn[t])
  BY <1>2, <1>3, <1>7, KillStep, OutOfFight
<1>9. Room!Fall(slotConn[t])
  BY <1>3, <1>7, <1>8 DEF Room!Fall
<1>. QED  BY <1>4, <1>9

\* Somebody with a seat leaves: everybody else keeps his.
LEMMA LeaveSeats ==
  ASSUME RoomInv, NEW c \in Conns, LeaveRoom(c), Seated(c)
  PROVE  /\ c \in Seat(Online)
         /\ Seat(Online)' = Seat(Online) \ {c}
         /\ Seat(AllReady)' = Seat(AllReady) \ {c}
         /\ Seat(Alive)' = Seat(Alive) \ {c}
<1>1. PICK g \in Slots : slotConn[g] = c
  BY DEF Seated, connToGameSlot
<1>2. c \in Seat(Online)
  BY <1>1, SlotsFinite DEF Seat, Online
<1>3. /\ Online' = {h \in Online : slotConn[h] # c}
      /\ Alive' = {h \in Alive : slotConn[h] # c}
      /\ AllReady' = {h \in AllReady : slotConn[h] # c}
      /\ \A h \in Online' : slotConn'[h] = slotConn[h]
  BY LeaveFacts
<1>4. Alive' \subseteq Online' /\ AllReady' \subseteq Online'
  BY DEF Alive, AllReady
<1>. QED  BY <1>2, <1>3, <1>4 DEF Seat

LEMMA DepartIsLeave ==
  ASSUME RoomInv, NEW c \in Conns, DepartFight(c) \/ DepartRoom(c)
  PROVE  Room!Leave(c)
<1>1. LeaveRoom(c) /\ Seated(c)
  BY DEF DepartFight, DepartRoom
<1>2. /\ c \in Seat(Online) /\ Seat(Online)' = Seat(Online) \ {c}
      /\ Seat(AllReady)' = Seat(AllReady) \ {c} /\ Seat(Alive)' = Seat(Alive) \ {c}
  BY <1>1, LeaveSeats
<1>3. CASE DepartFight(c)
  <2>1. started /\ ~over /\ UNCHANGED started /\ CheckGameOver(Forget(c))
    BY <1>3 DEF DepartFight
  <2>2. RoomInv'
    BY <1>3, CleanupStep DEF Cleanup
  <2>3. Room!Out(c)
    BY <1>2, <2>1, <2>2, OutOfFight
  <2>. QED  BY <1>2, <2>1, <2>3 DEF Room!Leave
<1>4. CASE DepartRoom(c)
  <2>1. /\ ~(started /\ ~over) /\ UNCHANGED winner
        /\ started' = (started /\ Online' # {}) /\ over' = (over /\ Online' # {})
    BY <1>4 DEF DepartRoom
  <2>2. Seat(Online)' = {} <=> Online' = {}
    BY DEF Seat
  <2>. QED  BY <1>2, <2>1, <2>2 DEF Room!Leave, RoomInv, Typed
<1>. QED  BY <1>3, <1>4

LEMMA ReadyIsPromised ==
  ASSUME RoomInv, NEW c \in Conns, Ready(c)
  PROVE  Room!GetReady(c) \/ Room!Start(c)
<1>1. PICK g \in Slots : slotConn[g] = c
  BY DEF Ready, Seated, connToGameSlot
<1>2. g \in Online /\ Lowest(connToGameSlot(c)) = g
  BY <1>1, OneSeat DEF RoomInv
<1>. DEFINE ready == AllReady \cup {g}
<1>3. /\ ~started /\ UNCHANGED <<slotConn, conns, accepted, watch>> /\ BroadcastState
      /\ \/ ready = Online /\ Cardinality(Online) >= 2 /\ ResetGame
         \/ /\ ~(ready = Online /\ Cardinality(Online) >= 2)
            /\ players' = [players EXCEPT ![g].ready = TRUE]
            /\ UNCHANGED <<started, over, winner>>
  BY <1>2 DEF Ready, connLayer
<1>4. Online' = Online /\ Seat(Online)' = Seat(Online) /\ c \in Seat(Online)
  BY <1>1, <1>2, <1>3 DEF Online, Seat
<1>5. Seat(ready) = Seat(AllReady) \cup {c}
  BY <1>1 DEF Seat
<1>6. Cardinality(Seat(Online)) = Cardinality(Online)
  <2>. DEFINE A == Online
              f == slotConn
  <2>1. IsFiniteSet(A) /\ \A h, i \in A : f[h] = f[i] => h = i
    BY SlotsFinite DEF RoomInv, Seating, Online
  <2>2. Seat(Online) = {f[h] : h \in A}
    BY DEF Seat
  <2>. HIDE DEF A, f
  <2>3. Cardinality({f[h] : h \in A}) = Cardinality(A)
    BY <2>1, SameNumber
  <2>. QED  BY <2>2, <2>3 DEF A
<1>7. Seat(ready) = Seat(Online) <=> ready = Online
  <2>1. ready \subseteq Online
    BY <1>2 DEF AllReady
  <2>2. \A h, i \in Online : slotConn[h] = slotConn[i] => h = i
    BY DEF RoomInv, Seating
  <2>. HIDE DEF ready
  <2>. QED  BY <2>1, <2>2 DEF Seat
<1>8. Room!AllReady(Seat(AllReady) \cup {c}) <=> (ready = Online /\ Cardinality(Online) >= 2)
  BY <1>5, <1>6, <1>7, RoomCardinality DEF Room!AllReady
<1>. HIDE DEF ready
<1>9. CASE ready = Online /\ Cardinality(Online) >= 2 /\ ResetGame
  <2>1. Alive' = Online /\ AllReady' = {}
    BY <1>3, <1>9, ResetStep
  <2>2. started' = TRUE /\ over' = FALSE /\ winner' = None
    BY <1>9 DEF ResetGame
  <2>3. Seat(Alive)' = Seat(Online) /\ Seat(AllReady)' = {}
    BY <1>3, <2>1 DEF Seat
  <2>. QED  BY <1>3, <1>4, <1>8, <1>9, <2>2, <2>3 DEF Room!Start
<1>10. CASE /\ ~(ready = Online /\ Cardinality(Online) >= 2)
            /\ players' = [players EXCEPT ![g].ready = TRUE]
            /\ UNCHANGED <<started, over, winner>>
  <2>1. Alive' = Alive /\ AllReady' = ready
    BY <1>2, <1>3, <1>4, <1>10 DEF Alive, AllReady, ready, RoomInv, Typed, PlayerState
  <2>2. Seat(Alive)' = Seat(Alive) /\ Seat(AllReady)' = Seat(ready)
    BY <1>3, <2>1 DEF Seat
  <2>. QED  BY <1>3, <1>4, <1>5, <1>8, <1>10, <2>2 DEF Room!GetReady
<1>. QED  BY <1>3, <1>9, <1>10

(* The packets, the leavers, the worker and the watcher implement one room *)
(* with its rounds, which reopens when it is empty or the server is        *)
(* restarted.                                                              *)
THEOREM ImplementsSharedRound == Spec => ImplementsRound
<1>1. Init => Room!Init
  <2>. SUFFICES ASSUME Init PROVE Room!Init
    OBVIOUS
  <2>1. Online = {} /\ Alive = {} /\ AllReady = {}
    BY SlotsFinite DEF Init, Online, Alive, AllReady
  <2>. QED  BY <2>1 DEF Init, Room!Init, Seat
<1>2. RoomInv /\ [Next]_vars => [Room!Next \/ Room!Reboot]_(Room!vars)
  <2>. SUFFICES ASSUME RoomInv, [Next]_vars PROVE [Room!Next \/ Room!Reboot]_(Room!vars)
    OBVIOUS
  <2>1. CASE Accept \/ Kick \/ UNCHANGED vars
    BY <2>1, StillPlayers DEF Accept, Kick, Closes, vars, game, round
  <2>2. CASE SpawnWeapon
    BY <2>2, StillPlayers DEF SpawnWeapon, round
  <2>3. ASSUME NEW c \in Conns, HangUp(c) \/ touchHB(c) \/ AuthFails(c) \/ JoinFull(c)
        PROVE  UNCHANGED Room!vars
    BY <2>3, StillPlayers DEF HangUp, touchHB, AuthFails, JoinFull, game, round
  <2>4. ASSUME NEW c \in Conns, NEW u \in User, Register(c, u) \/ Login(c, u)
        PROVE  UNCHANGED Room!vars
    BY <2>4, StillPlayers DEF Register, Login, game, round
  <2>5. ASSUME NEW c \in Conns, GoSilent(c) \/ Watch(c) \/ Release(c)
        PROVE  UNCHANGED Room!vars
    BY <2>5, StillPlayers DEF GoSilent, Watch, Release, game, round
  <2>6. ASSUME NEW c \in Conns, Move(c) \/ Wound(c)
        PROVE  UNCHANGED Room!vars
    BY <2>6, StillRoom, MoveStep, WoundStep DEF Move, Wound, round
  <2>7. ASSUME NEW c \in Conns, Depart(c)
        PROVE  UNCHANGED Room!vars
    <3>1. /\ slotConn \in [Slots -> Conns \cup {None}] /\ players \in [Slots -> PlayerState]
          /\ \A g \in Slots : slotConn[g] # c
      BY <2>7 DEF RoomInv, Typed, Depart, Seated, connToGameSlot
    <3>2. UNCHANGED <<slotConn, players, started, over, winner>>
      BY <2>7, <3>1 DEF Depart, LeaveRoom
    <3>. QED  BY <3>2, StillPlayers
  <2>8. ASSUME NEW c \in Conns, Join(c) \/ Ready(c) \/ Kill(c) \/ DepartFight(c) \/ DepartRoom(c)
        PROVE  Room!Next
    BY <2>8, JoinIsEnter, ReadyIsPromised, KillIsFall, DepartIsLeave DEF Room!Next
  <2>9. ASSUME NEW c \in Conns, Packet(c) \/ Cleanup(c) \/ GoSilent(c) \/ Watch(c)
        PROVE  [Room!Next]_(Room!vars)
    BY <2>9, <2>3, <2>4, <2>5, <2>6, <2>7, <2>8 DEF Packet, Keys, Cleanup
  <2>10. CASE Restart
    <3>1. Online' = {} /\ Alive' = {} /\ AllReady' = {}
      BY <2>10, SlotsFinite DEF Restart, Online, Alive, AllReady
    <3>. QED  BY <2>10, <3>1 DEF Restart, Room!Reboot, Seat
  <2>. QED  BY <2>1, <2>2, <2>9, <2>10 DEF Next
<1>. QED  BY <1>1, <1>2, RoomInvAlways, PTL DEF Spec, ImplementsRound, Room!SpecWithRestarts
=============================================================================
