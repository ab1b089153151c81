--------------------------- MODULE Sessions_proofs ---------------------------
(***************************************************************************)
(* What holds of the sessions for any number of users, connections, maps,  *)
(* nodes and failovers.  The invariant is SessionInv: goroutines at work   *)
(* serve somebody, a Session object belongs to one user wherever a pointer *)
(* to it is kept, and what a login or a switch has read of the routing     *)
(* still holds unless its user raced.                                      *)
(***************************************************************************)
EXTENDS Sessions, TLAPS

\* Where a goroutine has a Session object in hand.
HasObject == {"view", "take", "put", "reroute"}

\* A goroutine at work serves a user, and Logout runs beside a connection.
Working ==
  /\ \A t \in Task : pc[t] # "idle" => user[t] \in User
  /\ \A c \in Conn : stop[c] # "off" => Served(c)
  /\ \A c \in Conn : stop[c] = "remove" => stopObj[c] \in Object
  /\ pc[Flusher] \in {"idle", "persist", "profile", "cold", "hot"}
  /\ pc[Rival] \in {"idle", "victim", "award", "keep", "persist", "profile", "cold", "hot"}
  /\ then[Flusher] = "idle" /\ then[Rival] = "idle"

\* A Session object belongs to one user, in the table and in every hand.
Objects ==
  /\ \A t \in Task : obj[t] # None <=> pc[t] \in HasObject
  /\ \A u, v \in User : session[u] # None /\ session[u] = session[v] => u = v
  /\ \A t \in Task, u \in User : obj[t] # None /\ session[u] = obj[t] => user[t] = u
  /\ \A t, s \in Task : obj[t] # None /\ obj[t] = obj[s] => user[t] = user[s]

\* What a login or a switch has read of the routing still holds.
Routes ==
  \A c \in Conn : user[c] \notin raced =>
    /\ pc[c] \in {"add", "insert"} => at[c] = owner[mp[c]]
    /\ pc[c] \in {"take", "put", "reroute"} => to[c] = owner[mp[c]]
    /\ pc[c] = "view" => at[c] = owner[sMap[obj[c]]]

SessionInv == TypeOK /\ Working /\ Objects /\ Routes /\ RoutedUnlessRaced /\ SessionServed

-----------------------------------------------------------------------------
\* The type of what goroutines keep.
Place == {"idle", "check", "add", "insert", "persist", "profile", "cold", "hot", "snapshot",
          "view", "receive", "act", "keep", "take", "put", "reroute", "leave", "victim", "award"}

LocalTyped ==
  /\ pc \in [Task -> Place]
  /\ user \in [Task -> User \cup {None}] /\ obj \in [Task -> Object \cup {None}]
  /\ at \in [Task -> Node] /\ to \in [Task -> Node] /\ mp \in [Task -> Map]
  /\ prof \in [Task -> Content] /\ then \in [Task -> {"idle", "receive", "snapshot"}]

SharedTyped ==
  /\ owner \in [Map -> Node]
  /\ player \in [Map -> [User -> MaybePlayer]]
  /\ backup \in [Map -> [User -> MaybePlayer] \cup {None}]
  /\ session \in [User -> Object \cup {None}]
  /\ sMap \in [Object -> Map] /\ sNode \in [Object -> Node]
  /\ saved \in [User -> Content \cup {None}] /\ savedMap \in [User -> Map]
  /\ hot \subseteq User /\ raced \subseteq User
  /\ done \in [User -> Content]
  /\ stop \in [Conn -> {"off", "remove", "record", "cool", "end"}]
  /\ stopObj \in [Conn -> Object \cup {None}]
  /\ stopProf \in [Conn -> Content] /\ stopMap \in [Conn -> Map]

LEMMA TwoTypes == TypeOK <=> LocalTyped /\ SharedTyped
BY DEF TypeOK, LocalTyped, SharedTyped, Place

LEMMA TwoTypesNext == TypeOK' <=> LocalTyped' /\ SharedTyped'
BY DEF TypeOK, LocalTyped, SharedTyped, Place

\* A goroutine that is done with an operation leaves nothing of it.
LEMMA FinishTyped ==
  ASSUME LocalTyped, NEW t \in Task, NEW l \in {"idle", "receive", "leave", "snapshot"},
         Finish(t, l)
  PROVE  LocalTyped'
BY RouteAssumption DEF LocalTyped, Finish, Forget, Goto, Content, Place

\* What a deed does to the worlds.
LEMMA BefallTyped ==
  ASSUME SharedTyped, NEW m \in Map, NEW u \in User, NEW D \in SUBSET Deed,
         player[m][u] # None, Befall(m, u, D)
  PROVE  /\ player' \in [Map -> [User -> MaybePlayer]] /\ done' \in [User -> Content]
         /\ player[m][u] \in Content
<1>1. player[m][u] \in Content
  BY DEF SharedTyped, MaybePlayer
<1>2. player[m][u] \cup D \in MaybePlayer
  BY <1>1 DEF Content, MaybePlayer
<1>3. player' = [player EXCEPT ![m] = [player[m] EXCEPT ![u] = player[m][u] \cup D]]
  BY DEF Befall, SharedTyped
<1>4. player' \in [Map -> [User -> MaybePlayer]]
  BY <1>2, <1>3 DEF SharedTyped
<1>5. done' \in [User -> Content]
  BY DEF Befall, SharedTyped, Content
<1>. QED  BY <1>1, <1>4, <1>5

LEMMA SharedSame ==
  ASSUME SharedTyped, UNCHANGED <<cluster, table, files, done, raced, stopping>>
  PROVE  SharedTyped'
BY DEF SharedTyped, cluster, table, files, stopping

LEMMA LocalSame == LocalTyped /\ UNCHANGED <<pc, local>> => LocalTyped'
BY DEF LocalTyped, local

LEMMA Places ==
  /\ {"idle", "check", "add", "insert", "persist", "profile", "cold", "hot", "snapshot"} \subseteq Place
  /\ {"view", "receive", "act", "keep", "take", "put", "reroute", "leave"} \subseteq Place
  /\ {"victim", "award"} \subseteq Place
BY DEF Place

LEMMA Tasks == Conn \subseteq Task /\ Flusher \in Task /\ Rival \in Task
BY DEF Task

\* The steps of a login, and what a client asks for next.
LEMMA LoginTyped ==
  ASSUME LocalTyped, SharedTyped, Working, NEW c \in Conn,
         Login(c) \/ CommandRoute(c) \/ Leave(c) \/ (\E u \in User : LoginAuth(c, u))
  PROVE  LocalTyped' /\ SharedTyped'
<1>. USE Tasks, Places, NoneAssumption, RouteAssumption DEF Goto, local
<1>1. user[c] \in User \cup {None} /\ pc \in [Task -> Place]
  BY DEF LocalTyped
<1>2. ASSUME NEW u \in User, LoginAuth(c, u) PROVE LocalTyped' /\ SharedTyped'
  <2>1. SharedTyped'
    BY <1>2, SharedSame DEF LoginAuth
  <2>2. saved[u] \in Content /\ savedMap[u] \in Map
    BY <1>2 DEF LoginAuth, SharedTyped
  <2>. QED  BY <1>2, <2>1, <2>2 DEF LoginAuth, LocalTyped
<1>3. CASE LoginCheck(c)
  <2>1. SharedTyped'
    BY <1>3, SharedSame DEF LoginCheck
  <2>2. owner[mp[c]] \in Node
    BY DEF LocalTyped, SharedTyped
  <2>3. LocalTyped'
    <3>1. CASE Finish(c, "idle")
      BY <3>1, FinishTyped
    <3>2. CASE Goto(c, "add") /\ at' = [at EXCEPT ![c] = owner[mp[c]]]
               /\ UNCHANGED <<mp, prof, to, obj, then, user>>
      BY <2>2, <3>2 DEF LocalTyped
    <3>. QED  BY <1>3, <3>1, <3>2 DEF LoginCheck
  <2>. QED  BY <2>1, <2>3
<1>4. CASE LoginAdd(c)
  <2>1. LocalTyped'
    BY <1>4 DEF LoginAdd, LocalTyped
  <2>2. prof[c] \in Content /\ user[c] \in User /\ mp[c] \in Map
    BY <1>4 DEF LoginAdd, Working, LocalTyped
  <2>3. player' \in [Map -> [User -> MaybePlayer]]
    BY <1>4, <2>2 DEF LoginAdd, AddPlayer, SharedTyped, MaybePlayer
  <2>. QED  BY <1>4, <2>1, <2>3 DEF LoginAdd, SharedTyped, table, files, stopping
<1>5. CASE LoginInsert(c)
  <2>1. LocalTyped'
    BY <1>5 DEF LoginInsert, LocalTyped
  <2>2. user[c] \in User /\ mp[c] \in Map /\ at[c] \in Node
    BY <1>5 DEF LoginInsert, Working, LocalTyped
  <2>3. /\ session' \in [User -> Object \cup {None}]
        /\ sMap' \in [Object -> Map] /\ sNode' \in [Object -> Node]
    BY <1>5, <2>2 DEF LoginInsert, SharedTyped
  <2>. QED  BY <1>5, <2>1, <2>3 DEF LoginInsert, SharedTyped, cluster, files, stopping
<1>6. CASE SnapshotRoute(c)
  <2>1. SharedTyped'
    BY <1>6, SharedSame DEF SnapshotRoute
  <2>2. user[c] \in User
    BY <1>6 DEF SnapshotRoute, Working
  <2>3. LocalTyped'
    <3>1. CASE Finish(c, "idle")
      BY <3>1, FinishTyped
    <3>2. CASE /\ session[user[c]] # None /\ Goto(c, "view")
               /\ obj' = [obj EXCEPT ![c] = session[user[c]]]
               /\ at'  = [at EXCEPT ![c] = sNode[session[user[c]]]]
               /\ UNCHANGED <<user, mp, to, prof, then>>
      <4>1. session[user[c]] \in Object /\ sNode[session[user[c]]] \in Node
        BY <2>2, <3>2 DEF SharedTyped
      <4>. QED  BY <3>2, <4>1 DEF LocalTyped
    <3>. QED  BY <1>6, <3>1, <3>2 DEF SnapshotRoute
  <2>. QED  BY <2>1, <2>3
<1>7. CASE SnapshotView(c)
  <2>1. Finish(c, "receive") \/ Finish(c, "idle")
    BY <1>7 DEF SnapshotView
  <2>. QED  BY <1>7, <2>1, FinishTyped, SharedSame DEF SnapshotView
<1>8. CASE CommandRoute(c)
  <2>1. SharedTyped'
    BY <1>8, SharedSame DEF CommandRoute
  <2>2. user[c] \in User /\ session[user[c]] # None
    BY <1>8 DEF CommandRoute, Working
  <2>3. sMap[session[user[c]]] \in Map /\ sNode[session[user[c]]] \in Node
    BY <2>2 DEF SharedTyped
  <2>. QED  BY <1>8, <2>1, <2>3 DEF CommandRoute, LocalTyped
<1>9. CASE Leave(c)
  BY <1>9, SharedSame DEF Leave, LocalTyped
<1>. QED  BY <1>2, <1>3, <1>4, <1>5, <1>6, <1>7, <1>8, <1>9 DEF Login

\* Commands, and what every goroutine saves.
LEMMA CommandTyped ==
  ASSUME LocalTyped, SharedTyped, Working, NEW c \in Conn, Command(c)
  PROVE  LocalTyped' /\ SharedTyped'
<1>. USE Tasks, Places, NoneAssumption, RouteAssumption DEF Goto, local
<1>1. CASE CommandRefused(c)
  <2>1. Finish(c, "receive") \/ Finish(c, "leave")
    BY <1>1 DEF CommandRefused, NextCommand
  <2>. QED  BY <1>1, <2>1, FinishTyped, SharedSame DEF CommandRefused
<1>2. CASE CommandAct(c)
  <2>1. PICK D \in SUBSET Deed :
          Befall(mp[c], user[c], D) /\ prof' = [prof EXCEPT ![c] = player[mp[c]][user[c]] \cup D]
    <3>1. \A d \in Deed : {d} \in SUBSET Deed
      OBVIOUS
    <3>. QED  BY <1>2, <3>1 DEF CommandAct
  <2>2. mp[c] \in Map /\ user[c] \in User /\ player[mp[c]][user[c]] # None
    BY <1>2 DEF CommandAct, Present, Working, LocalTyped
  <2>3. /\ player' \in [Map -> [User -> MaybePlayer]] /\ done' \in [User -> Content]
        /\ player[mp[c]][user[c]] \cup D \in Content
    BY <2>1, <2>2, BefallTyped DEF Content
  <2>4. LocalTyped'
    BY <1>2, <2>1, <2>3 DEF CommandAct, LocalTyped
  <2>. QED  BY <1>2, <2>3, <2>4 DEF CommandAct, SharedTyped, table, files, stopping
<1>3. CASE BossAct(c)
  BY <1>3, SharedSame DEF BossAct, LocalTyped
<1>. QED  BY <1>1, <1>2, <1>3 DEF Command

LEMMA SaveTyped ==
  ASSUME LocalTyped, SharedTyped, Working, NEW t \in Task, Keep(t) \/ Persist(t)
  PROVE  LocalTyped' /\ SharedTyped'
<1>. USE Tasks, Places, NoneAssumption, RouteAssumption DEF Goto, local
<1>1. pc[t] # "idle"
  BY DEF Keep, Persist, PersistRoute, PersistProfile, PersistCold, PersistHot
<1>2. user[t] \in User /\ mp[t] \in Map /\ prof[t] \in Content
  BY <1>1 DEF Working, LocalTyped
<1>3. ASSUME Record(user[t], prof[t], mp[t])
      PROVE  saved' \in [User -> Content \cup {None}] /\ savedMap' \in [User -> Map]
  BY <1>2, <1>3 DEF Record, SharedTyped
<1>4. AfterPersist(t) \in {"idle", "receive", "leave", "snapshot"}
  BY DEF AfterPersist, NextCommand, LocalTyped
<1>5. Finish(t, AfterPersist(t)) => LocalTyped'
  BY <1>4, FinishTyped
<1>6. CASE Keep(t)
  <2>1. LocalTyped'
    BY <1>6 DEF Keep, LocalTyped
  <2>. QED  BY <1>3, <1>6, <2>1 DEF Keep, SharedTyped, cluster, table, stopping
<1>7. CASE PersistRoute(t)
  <2>1. SharedTyped'
    BY <1>7, SharedSame DEF PersistRoute
  <2>2. CASE /\ session[user[t]] # None /\ Goto(t, "profile")
             /\ mp' = [mp EXCEPT ![t] = sMap[session[user[t]]]]
             /\ at' = [at EXCEPT ![t] = sNode[session[user[t]]]]
             /\ UNCHANGED <<user, obj, to, prof, then>>
    <3>1. sMap[session[user[t]]] \in Map /\ sNode[session[user[t]]] \in Node
      BY <1>2, <2>2 DEF SharedTyped
    <3>. QED  BY <2>1, <2>2, <3>1 DEF LocalTyped
  <2>. QED  BY <1>5, <1>7, <2>1, <2>2 DEF PersistRoute
<1>8. CASE PersistProfile(t)
  <2>1. SharedTyped'
    BY <1>8, SharedSame DEF PersistProfile
  <2>2. CASE /\ Present(at[t], mp[t], user[t]) /\ Goto(t, "cold")
             /\ prof' = [prof EXCEPT ![t] = player[mp[t]][user[t]]]
             /\ UNCHANGED <<user, obj, at, mp, to, then>>
    <3>1. player[mp[t]][user[t]] \in Content
      BY <1>2, <2>2 DEF Present, SharedTyped, MaybePlayer
    <3>. QED  BY <2>1, <2>2, <3>1 DEF LocalTyped
  <2>. QED  BY <1>5, <1>8, <2>1, <2>2 DEF PersistProfile
<1>9. CASE PersistCold(t)
  <2>1. LocalTyped'
    BY <1>9 DEF PersistCold, LocalTyped
  <2>. QED  BY <1>3, <1>9, <2>1 DEF PersistCold, SharedTyped, cluster, table, stopping
<1>10. CASE PersistHot(t)
  <2>1. LocalTyped'
    BY <1>5, <1>10 DEF PersistHot
  <2>. QED  BY <1>2, <1>10, <2>1 DEF PersistHot, SharedTyped, cluster, table, stopping
<1>. QED  BY <1>6, <1>7, <1>8, <1>9, <1>10 DEF Persist

\* A switch of map.
LEMMA SwitchTyped ==
  ASSUME LocalTyped, SharedTyped, Working, Objects, NEW c \in Conn,
         SwitchMap(c) \/ (\E m \in Map : SwitchRoute(c, m))
  PROVE  LocalTyped' /\ SharedTyped'
<1>. USE Tasks, Places, NoneAssumption, RouteAssumption DEF Goto, local
<1>1. /\ pc[c] # "idle" /\ (pc[c] \in HasObject => obj[c] \in Object)
      /\ user[c] \in User /\ mp[c] \in Map /\ to[c] \in Node /\ prof[c] \in Content
  BY DEF SwitchMap, SwitchRoute, SwitchTake, SwitchPut, SwitchReroute, Working, Objects, LocalTyped
<1>2. ASSUME NEW m \in Map, SwitchRoute(c, m) PROVE LocalTyped' /\ SharedTyped'
  <2>1. SharedTyped'
    BY <1>2, SharedSame DEF SwitchRoute
  <2>2. session[user[c]] \in Object /\ sNode[session[user[c]]] \in Node /\ owner[m] \in Node
    BY <1>1, <1>2 DEF SwitchRoute, SharedTyped
  <2>. QED  BY <1>2, <2>1, <2>2 DEF SwitchRoute, LocalTyped
<1>3. CASE SwitchTake(c)
  <2>1. sMap[obj[c]] \in Map
    BY <1>1, <1>3 DEF SwitchTake, HasObject, SharedTyped
  <2>2. CASE Finish(c, NextCommand(c)) /\ UNCHANGED player
    <3>1. Finish(c, "receive") \/ Finish(c, "leave")
      BY <2>2 DEF NextCommand
    <3>2. LocalTyped'
      BY <3>1, FinishTyped
    <3>. QED  BY <1>3, <2>2, <3>2, SharedSame DEF SwitchTake, cluster
  <2>3. CASE /\ Present(at[c], sMap[obj[c]], user[c])
             /\ prof'   = [prof EXCEPT ![c] = player[sMap[obj[c]]][user[c]]]
             /\ player' = [player EXCEPT ![sMap[obj[c]]][user[c]] = None]
             /\ Goto(c, "put")
             /\ UNCHANGED <<user, obj, at, mp, to, then>>
    <3>1. player[sMap[obj[c]]][user[c]] \in Content
      BY <1>1, <2>1, <2>3 DEF Present, SharedTyped, MaybePlayer
    <3>2. player' \in [Map -> [User -> MaybePlayer]]
      BY <1>1, <2>1, <2>3 DEF SharedTyped, MaybePlayer
    <3>3. LocalTyped'
      BY <2>3, <3>1 DEF LocalTyped
    <3>. QED  BY <1>3, <3>2, <3>3 DEF SwitchTake, SharedTyped, table, files, stopping
  <2>. QED  BY <1>3, <2>2, <2>3 DEF SwitchTake
<1>4. CASE SwitchPut(c)
  <2>1. LocalTyped'
    BY <1>4 DEF SwitchPut, LocalTyped
  <2>2. player' \in [Map -> [User -> MaybePlayer]]
    BY <1>1, <1>4 DEF SwitchPut, AddPlayer, SharedTyped, MaybePlayer
  <2>. QED  BY <1>4, <2>1, <2>2 DEF SwitchPut, SharedTyped, table, files, stopping
<1>5. CASE SwitchReroute(c)
  <2>1. LocalTyped'
    BY <1>5 DEF SwitchReroute, LocalTyped
  <2>2. obj[c] \in Object
    BY <1>1, <1>5 DEF SwitchReroute, HasObject
  <2>3. /\ sMap' \in [Object -> Map] /\ sNode' \in [Object -> Node] /\ raced' \subseteq User
    BY <1>1, <1>5, <2>2 DEF SwitchReroute, SharedTyped
  <2>. QED  BY <1>5, <2>1, <2>3 DEF SwitchReroute, SharedTyped, cluster, files, stopping
<1>. QED  BY <1>2, <1>3, <1>4, <1>5 DEF SwitchMap

\* A logout, beside whatever the main goroutine does.
LEMMA LogoutTyped ==
  ASSUME LocalTyped, SharedTyped, Working, NEW c \in Conn, Logout(c) \/ Close(c)
  PROVE  LocalTyped' /\ SharedTyped'
<1>. USE Tasks, Places, NoneAssumption, RouteAssumption
<1>1. user[c] \in User
  <2>1. pc[c] # "idle"
    BY DEF Logout, LogoutDelete, LogoutRemove, LogoutRecord, LogoutCool, Close, Working, Served
  <2>. QED  BY <2>1 DEF Working
<1>2. CASE LogoutDelete(c)
  <2>1. LocalTyped'
    BY <1>2, LocalSame DEF LogoutDelete
  <2>2. /\ session' \in [User -> Object \cup {None}] /\ stopObj' \in [Conn -> Object \cup {None}]
        /\ stop' \in [Conn -> {"off", "remove", "record", "cool", "end"}]
    BY <1>1, <1>2 DEF LogoutDelete, SharedTyped
  <2>. QED  BY <1>2, <2>1, <2>2 DEF LogoutDelete, SharedTyped, cluster, files
<1>3. CASE LogoutRemove(c)
  <2>1. LocalTyped'
    BY <1>3, LocalSame DEF LogoutRemove
  <2>2. sMap[stopObj[c]] \in Map /\ None \in Object \cup {None}
    BY <1>3 DEF LogoutRemove, Working, SharedTyped
  <2>3. stopObj' \in [Conn -> Object \cup {None}]
    BY <1>3, <2>2 DEF LogoutRemove, SharedTyped
  <2>. DEFINE m == sMap[stopObj[c]]
  <2>4. CASE ~Present(sNode[stopObj[c]], m, user[c])
    BY <1>3, <2>1, <2>3, <2>4 DEF LogoutRemove, SharedTyped, table, files
  <2>5. CASE Present(sNode[stopObj[c]], m, user[c])
    <3>1. /\ player' = [player EXCEPT ![m][user[c]] = None]
          /\ stop' = [stop EXCEPT ![c] = "record"]
          /\ stopProf' = [stopProf EXCEPT ![c] = player[m][user[c]]]
          /\ stopMap'  = [stopMap EXCEPT ![c] = m]
          /\ UNCHANGED <<owner, backup, table, files, done, raced>>
      BY <1>3, <2>5 DEF LogoutRemove
    <3>2. player[m][user[c]] \in Content
      BY <1>1, <2>2, <2>5 DEF Present, SharedTyped, MaybePlayer
    <3>3. player' \in [Map -> [User -> MaybePlayer]]
      BY <1>1, <2>2, <3>1 DEF SharedTyped, MaybePlayer
    <3>. QED  BY <2>1, <2>2, <2>3, <3>1, <3>2, <3>3 DEF SharedTyped, table, files
  <2>. QED  BY <2>4, <2>5
<1>4. CASE LogoutRecord(c)
  <2>1. LocalTyped'
    BY <1>4, LocalSame DEF LogoutRecord
  <2>2. saved' \in [User -> Content \cup {None}] /\ savedMap' \in [User -> Map]
    BY <1>1, <1>4 DEF LogoutRecord, Record, SharedTyped
  <2>. QED  BY <1>4, <2>1, <2>2 DEF LogoutRecord, SharedTyped, cluster, table, Content
<1>5. CASE LogoutCool(c)
  BY <1>5, LocalSame DEF LogoutCool, SharedTyped, cluster, table
<1>6. CASE Close(c)
  <2>1. LocalTyped'
    BY <1>6, FinishTyped DEF Close
  <2>. QED  BY <1>6, <2>1 DEF Close, SharedTyped, cluster, table, files
<1>. QED  BY <1>2, <1>3, <1>4, <1>5, <1>6 DEF Logout

\* The loops of the server, other players and a failover.
LEMMA OthersTyped ==
  ASSUME LocalTyped, SharedTyped, Working,
         \/ Background \/ VictimProfile \/ Award \/ Failure \/ Restart
         \/ \E u \in User : Register(u)
  PROVE  LocalTyped' /\ SharedTyped'
<1>. USE Tasks, Places, NoneAssumption, RouteAssumption
<1>1. ASSUME NEW u \in User, FlushTick(u) PROVE LocalTyped' /\ SharedTyped'
  BY <1>1, SharedSame DEF FlushTick, LocalTyped, Goto
<1>2. ASSUME NEW m \in Map, NEW u \in User, NEW d \in Deed, Affect(m, u, d)
      PROVE  LocalTyped' /\ SharedTyped'
  <2>1. player' \in [Map -> [User -> MaybePlayer]] /\ done' \in [User -> Content]
    BY <1>2, BefallTyped DEF Affect
  <2>. QED  BY <1>2, <2>1, LocalSame DEF Affect, SharedTyped, table, files, stopping
<1>3. ASSUME NEW m \in Map, NEW u \in User, NEW d \in Deed, NEW l \in {"victim", "award"},
             Strike(m, u, d, l)
      PROVE  LocalTyped' /\ SharedTyped'
  <2>1. /\ player' \in [Map -> [User -> MaybePlayer]] /\ done' \in [User -> Content]
        /\ player[m][u] \in Content
    BY <1>3, BefallTyped DEF Strike
  <2>. DEFINE p == IF l = "award" THEN player[m][u] \cup {d} ELSE {}
  <2>2. p \in Content /\ owner[m] \in Node
    BY <2>1 DEF Content, SharedTyped
  <2>3. prof' = [prof EXCEPT ![Rival] = p]
    BY <1>3 DEF Strike
  <2>. HIDE DEF p
  <2>4. LocalTyped'
    BY <1>3, <2>2, <2>3 DEF Strike, LocalTyped, Goto
  <2>. QED  BY <1>3, <2>1, <2>4 DEF Strike, SharedTyped, table, files, stopping
<1>4. ASSUME NEW m \in Map, Checkpoint(m) PROVE LocalTyped' /\ SharedTyped'
  BY <1>4, LocalSame DEF Checkpoint, SharedTyped, table, files, stopping
<1>5. CASE VictimProfile
  <2>1. SharedTyped'
    BY <1>5, SharedSame DEF VictimProfile
  <2>2. CASE Finish(Rival, "idle")
    BY <2>1, <2>2, FinishTyped
  <2>3. CASE /\ Present(at[Rival], mp[Rival], user[Rival]) /\ Goto(Rival, "keep")
             /\ prof' = [prof EXCEPT ![Rival] = player[mp[Rival]][user[Rival]]]
             /\ UNCHANGED <<user, obj, at, mp, to, then>>
    <3>1. player[mp[Rival]][user[Rival]] \in Content
      BY <1>5, <2>3 DEF Present, SharedTyped, LocalTyped, MaybePlayer, VictimProfile, Working
    <3>. QED  BY <2>1, <2>3, <3>1 DEF LocalTyped, Goto
  <2>. QED  BY <1>5, <2>2, <2>3 DEF VictimProfile
<1>6. CASE Award
  <2>1. user[Rival] \in User /\ mp[Rival] \in Map /\ prof[Rival] \in Content
    BY <1>6 DEF Award, Working, LocalTyped
  <2>2. saved' \in [User -> Content \cup {None}] /\ savedMap' \in [User -> Map]
    BY <1>6, <2>1 DEF Award, Record, SharedTyped
  <2>. QED  BY <1>6, <2>2, FinishTyped DEF Award, SharedTyped, cluster, table, stopping
<1>7. ASSUME NEW n \in Node, NEW r \in [Map -> Node \ {n}], NEW S \in SUBSET Map, Failover(n, r, S)
      PROVE  LocalTyped' /\ SharedTyped'
  <2>1. LocalTyped'
    BY <1>7, LocalSame DEF Failover
  <2>2. owner' \in [Map -> Node] /\ sNode' \in [Object -> Node]
    BY <1>7 DEF Failover, SharedTyped
  <2>3. player' \in [Map -> [User -> MaybePlayer]]
    BY <1>7 DEF Failover, Moved, SharedTyped
  <2>4. raced' \subseteq User
    BY <1>7 DEF Failover, RoutesInFlight, InFlight, Working, SharedTyped
  <2>. QED  BY <1>7, <2>1, <2>2, <2>3, <2>4 DEF Failover, SharedTyped, files, stopping
<1>8. ASSUME NEW u \in User, Register(u) PROVE LocalTyped' /\ SharedTyped'
  <2>1. saved' \in [User -> Content \cup {None}] /\ savedMap' \in [User -> Map]
    BY <1>8 DEF Register, SharedTyped, Content
  <2>. QED  BY <1>8, <2>1, LocalSame DEF Register, SharedTyped, cluster, table, stopping
<1>9. CASE Restart
  <2>1. LocalTyped'
    BY <1>9 DEF Restart, LocalTyped, Content
  <2>2. player' \in [Map -> [User -> MaybePlayer]]
    BY <1>9 DEF Restart, SharedTyped, MaybePlayer
  <2>. QED  BY <1>9, <2>1, <2>2 DEF Restart, SharedTyped, Content, files
<1>. QED  BY <1>1, <1>2, <1>3, <1>4, <1>5, <1>6, <1>7, <1>8, <1>9 DEF Background, Failure

LEMMA TypeStep ==
  ASSUME TypeOK, Working, Objects, [Next]_vars
  PROVE  TypeOK'
<1>1. LocalTyped /\ SharedTyped
  BY TwoTypes
<1>2. LocalTyped' /\ SharedTyped'
  <2>1. CASE UNCHANGED vars
    BY <1>1, <2>1, LocalSame, SharedSame DEF vars
  <2>2. CASE Next
    BY <1>1, <2>2, LoginTyped, CommandTyped, SaveTyped, SwitchTyped, LogoutTyped, OthersTyped
       DEF Next, ClientRequest, Work
  <2>. QED  BY <2>1, <2>2
<1>. QED  BY <1>2, TwoTypesNext

-----------------------------------------------------------------------------
\* Goroutines at work serve somebody, and a logout leaves its connection in place.
LEMMA WorkingStep ==
  ASSUME TypeOK, Working, [Next]_vars
  PROVE  Working'
<1>1. /\ pc \in [Task -> Place] /\ user \in [Task -> User \cup {None}]
      /\ then \in [Task -> {"idle", "receive", "snapshot"}]
      /\ stop \in [Conn -> {"off", "remove", "record", "cool", "end"}]
      /\ stopObj \in [Conn -> Object \cup {None}] /\ session \in [User -> Object \cup {None}]
  BY TwoTypes DEF LocalTyped, SharedTyped
<1>. USE <1>1, Tasks, TaskAssumption DEF Working, Served, local, stopping, table
<1>2. ASSUME NEW c \in Conn,
             Login(c) \/ CommandRoute(c) \/ Leave(c) \/ (\E u \in User : LoginAuth(c, u))
      PROVE  Working'
  BY <1>2 DEF Login, LoginAuth, LoginCheck, LoginAdd, LoginInsert, SnapshotRoute, SnapshotView,
              CommandRoute, Leave, Goto, Finish, Forget
<1>3. ASSUME NEW c \in Conn, Command(c) PROVE Working'
  BY <1>3 DEF Command, CommandRefused, CommandAct, BossAct, NextCommand, Goto, Finish, Forget
<1>4. ASSUME NEW t \in Task, Keep(t) \/ Persist(t) PROVE Working'
  BY <1>4 DEF Keep, Persist, PersistRoute, PersistProfile, PersistCold, PersistHot, AfterPersist,
              NextCommand, Goto, Finish, Forget
<1>5. ASSUME NEW c \in Conn, SwitchMap(c) \/ (\E m \in Map : SwitchRoute(c, m)) PROVE Working'
  BY <1>5 DEF SwitchMap, SwitchRoute, SwitchTake, SwitchPut, SwitchReroute, NextCommand, Goto,
              Finish, Forget
<1>6. ASSUME NEW c \in Conn, Logout(c) \/ Close(c) PROVE Working'
  BY <1>6 DEF Logout, LogoutDelete, LogoutRemove, LogoutRecord, LogoutCool, Close, Goto, Finish,
              Forget
<1>7. CASE Background \/ VictimProfile \/ Award
  <2>1. ASSUME NEW u \in User, FlushTick(u) PROVE Working'
    BY <2>1 DEF FlushTick, Goto
  <2>2. ASSUME NEW m \in Map, NEW u \in User, NEW d \in Deed, NEW l \in {"victim", "award"},
               Strike(m, u, d, l)
        PROVE  Working'
    BY <2>2 DEF Strike, Goto
  <2>3. ASSUME NEW m \in Map, Checkpoint(m) \/ \E u \in User, d \in Deed : Affect(m, u, d)
        PROVE  Working'
    BY <2>3 DEF Checkpoint, Affect
  <2>4. CASE VictimProfile \/ Award
    BY <2>4 DEF VictimProfile, Award, Goto, Finish, Forget
  <2>. QED  BY <1>7, <2>1, <2>2, <2>3, <2>4 DEF Background
<1>8. CASE Failure \/ \E u \in User : Register(u)
  BY <1>8 DEF Failure, Failover, Register
<1>9. CASE UNCHANGED vars
  BY <1>9 DEF vars
<1>10. CASE Restart
  BY <1>10 DEF Restart
<1>. QED
  BY <1>2, <1>3, <1>4, <1>5, <1>6, <1>7, <1>8, <1>9, <1>10 DEF Next, ClientRequest, Work

\* No two users, and no goroutines of two users, have one Session object.
LEMMA ObjectsStep ==
  ASSUME TypeOK, Working, Objects, [Next]_vars
  PROVE  Objects'
<1>1. /\ pc \in [Task -> Place] /\ user \in [Task -> User \cup {None}]
      /\ obj \in [Task -> Object \cup {None}] /\ session \in [User -> Object \cup {None}]
  BY TwoTypes DEF LocalTyped, SharedTyped
<1>. USE <1>1, Tasks, TaskAssumption, NoneAssumption DEF Objects, HasObject, local, table
<1>2. ASSUME NEW c \in Conn,
             Login(c) \/ CommandRoute(c) \/ Leave(c) \/ (\E u \in User : LoginAuth(c, u))
      PROVE  Objects'
  BY <1>2 DEF Login, LoginAuth, LoginCheck, LoginAdd, LoginInsert, SnapshotRoute, SnapshotView,
              CommandRoute, Leave, Goto, Finish, Forget, Working
<1>3. ASSUME NEW c \in Conn, Command(c) PROVE Objects'
  BY <1>3 DEF Command, CommandRefused, CommandAct, BossAct, NextCommand, Goto, Finish, Forget
<1>4. ASSUME NEW t \in Task, Keep(t) \/ Persist(t) PROVE Objects'
  <2>1. CASE Finish(t, AfterPersist(t)) /\ UNCHANGED session
    <3>1. then[t] \in {"idle", "receive", "snapshot"}
      BY TwoTypes DEF LocalTyped
    <3>2. AfterPersist(t) \in {"idle", "receive", "leave", "snapshot"}
      BY <3>1 DEF AfterPersist, NextCommand
    <3>. QED  BY <2>1, <3>2 DEF Goto, Finish, Forget
  <2>2. CASE ~Finish(t, AfterPersist(t))
    BY <1>4, <2>2 DEF Keep, Persist, PersistRoute, PersistProfile, PersistCold, PersistHot, Goto
  <2>. QED  BY <1>4, <2>1, <2>2
            DEF Keep, Persist, PersistRoute, PersistProfile, PersistCold, PersistHot
<1>5. ASSUME NEW c \in Conn, SwitchMap(c) \/ (\E m \in Map : SwitchRoute(c, m)) PROVE Objects'
  BY <1>5 DEF SwitchMap, SwitchRoute, SwitchTake, SwitchPut, SwitchReroute, NextCommand, Goto,
              Finish, Forget, Working
<1>6. ASSUME NEW c \in Conn, Logout(c) \/ Close(c) PROVE Objects'
  BY <1>6 DEF Logout, LogoutDelete, LogoutRemove, LogoutRecord, LogoutCool, Close, Goto, Finish,
              Forget
<1>7. CASE Background \/ VictimProfile \/ Award
  <2>1. ASSUME NEW u \in User, FlushTick(u) PROVE Objects'
    BY <2>1 DEF FlushTick, Goto
  <2>2. ASSUME NEW m \in Map, NEW u \in User, NEW d \in Deed, NEW l \in {"victim", "award"},
               Strike(m, u, d, l)
        PROVE  Objects'
    BY <2>2 DEF Strike, Goto
  <2>3. ASSUME NEW m \in Map, Checkpoint(m) \/ \E u \in User, d \in Deed : Affect(m, u, d)
        PROVE  Objects'
    <3>. UNCHANGED <<pc, user, obj, session>>
      BY <2>3 DEF Checkpoint, Affect
    <3>. QED  OBVIOUS
  <2>4. CASE VictimProfile \/ Award
    BY <2>4 DEF VictimProfile, Award, Goto, Finish, Forget
  <2>. QED  BY <1>7, <2>1, <2>2, <2>3, <2>4 DEF Background
<1>8. CASE Failure \/ \E u \in User : Register(u)
  BY <1>8 DEF Failure, Failover, Register
<1>9. CASE UNCHANGED vars
  BY <1>9 DEF vars
<1>10. CASE Restart
  BY <1>10 DEF Restart
<1>. QED
  BY <1>2, <1>3, <1>4, <1>5, <1>6, <1>7, <1>8, <1>9, <1>10 DEF Next, ClientRequest, Work

-----------------------------------------------------------------------------
\* Steps after which the routing and what is read of it are as before.
LEMMA SameRoutes ==
  ASSUME Routes, RoutedUnlessRaced, UNCHANGED <<owner, raced, session, sMap, sNode>>,
         \A c \in Conn : \/ UNCHANGED <<user[c], pc[c], at[c], mp[c], to[c], obj[c]>>
                         \/ pc'[c] \notin {"add", "insert", "take", "put", "reroute", "view"}
  PROVE  Routes' /\ RoutedUnlessRaced'
<1>1. RoutedUnlessRaced'
  BY DEF RoutedUnlessRaced
<1>2. Routes'
  <2>. SUFFICES ASSUME NEW c \in Conn, user'[c] \notin raced'
                PROVE  /\ pc'[c] \in {"add", "insert"} => at'[c] = owner'[mp'[c]]
                       /\ pc'[c] \in {"take", "put", "reroute"} => to'[c] = owner'[mp'[c]]
                       /\ pc'[c] = "view" => at'[c] = owner'[sMap'[obj'[c]]]
    BY DEF Routes
  <2>1. CASE UNCHANGED <<user[c], pc[c], at[c], mp[c], to[c], obj[c]>>
    BY <2>1 DEF Routes
  <2>2. CASE pc'[c] \notin {"add", "insert", "take", "put", "reroute", "view"}
    BY <2>2
  <2>. QED  BY <2>1, <2>2
<1>. QED  BY <1>1, <1>2

(* Only a login or a switch that is in flight can hold a route that a      *)
(* failover, or another switch of the same user, has made stale.           *)
LEMMA RoutesStep ==
  ASSUME TypeOK, Working, Objects, Routes, RoutedUnlessRaced, [Next]_vars
  PROVE  Routes' /\ RoutedUnlessRaced'
<1>. DEFINE Good == Routes /\ RoutedUnlessRaced
<1>1. /\ pc \in [Task -> Place] /\ user \in [Task -> User \cup {None}]
      /\ then \in [Task -> {"idle", "receive", "snapshot"}]
      /\ obj \in [Task -> Object \cup {None}] /\ session \in [User -> Object \cup {None}]
      /\ at \in [Task -> Node] /\ to \in [Task -> Node] /\ mp \in [Task -> Map]
      /\ sMap \in [Object -> Map] /\ sNode \in [Object -> Node] /\ owner \in [Map -> Node]
  BY TwoTypes DEF LocalTyped, SharedTyped
<1>. USE <1>1, Tasks, TaskAssumption, NoneAssumption
<1>2. ASSUME NEW c \in Conn,
             \/ Command(c) \/ CommandRoute(c) \/ Leave(c) \/ Close(c)
             \/ SnapshotView(c) \/ (\E u \in User : LoginAuth(c, u))
      PROVE  Good'
  <2>1. /\ UNCHANGED <<owner, raced, session, sMap, sNode>>
        /\ \A d \in Conn \ {c} : UNCHANGED <<user[d], pc[d], at[d], mp[d], to[d], obj[d]>>
        /\ pc'[c] \notin {"add", "insert", "take", "put", "reroute", "view"}
    BY <1>2 DEF Command, CommandRefused, CommandAct, BossAct, CommandRoute, Leave, Close,
                SnapshotView, LoginAuth, NextCommand, Goto, Finish, Forget, cluster, table, local
  <2>. QED  BY <2>1, SameRoutes
<1>3. ASSUME NEW t \in Task, Keep(t) \/ Persist(t) PROVE Good'
  <2>1. AfterPersist(t) \in {"idle", "receive", "leave", "snapshot"}
    BY DEF AfterPersist, NextCommand
  <2>2. /\ UNCHANGED <<owner, raced, session, sMap, sNode>>
        /\ \A d \in Task \ {t} : UNCHANGED <<user[d], pc[d], at[d], mp[d], to[d], obj[d]>>
        /\ pc'[t] \notin {"add", "insert", "take", "put", "reroute", "view"}
    BY <1>3, <2>1 DEF Keep, Persist, PersistRoute, PersistProfile, PersistCold, PersistHot, Goto,
                      Finish, Forget, cluster, table, local
  <2>3. \A c \in Conn : \/ UNCHANGED <<user[c], pc[c], at[c], mp[c], to[c], obj[c]>>
                        \/ pc'[c] \notin {"add", "insert", "take", "put", "reroute", "view"}
    BY <2>2
  <2>. QED  BY <2>2, <2>3, SameRoutes
<1>4. ASSUME Background \/ VictimProfile \/ Award \/ UNCHANGED vars PROVE Good'
  <2>1. UNCHANGED <<owner, raced, session, sMap, sNode>>
    BY <1>4 DEF Background, FlushTick, Affect, Strike, Checkpoint, VictimProfile, Award,
                cluster, table, vars
  <2>2. \A d \in Conn : UNCHANGED <<user[d], pc[d], at[d], mp[d], to[d], obj[d]>>
    <3>1. CASE (\E m \in Map : Checkpoint(m) \/ \E u \in User, d \in Deed : Affect(m, u, d))
               \/ UNCHANGED vars
      BY <3>1 DEF Affect, Checkpoint, local, vars
    <3>2. CASE \E u \in User : FlushTick(u)
      BY <3>2 DEF FlushTick, Goto
    <3>3. ASSUME NEW m \in Map, NEW u \in User, NEW d \in Deed, NEW l \in {"victim", "award"},
                 Strike(m, u, d, l)
          PROVE  \A c \in Conn : UNCHANGED <<user[c], pc[c], at[c], mp[c], to[c], obj[c]>>
      BY <3>3 DEF Strike, Goto
    <3>4. CASE VictimProfile \/ Award
      BY <3>4 DEF VictimProfile, Award, Goto, Finish, Forget
    <3>. QED  BY <1>4, <3>1, <3>2, <3>3, <3>4 DEF Background
  <2>. QED  BY <2>1, <2>2, SameRoutes
<1>5. ASSUME NEW c \in Conn, Logout(c) PROVE Good'
  <2>1. /\ UNCHANGED <<owner, raced, sMap, sNode, pc, local>>
        /\ \A u \in User : session'[u] # None => session'[u] = session[u]
    BY <1>5 DEF Logout, LogoutDelete, LogoutRemove, LogoutRecord, LogoutCool, cluster, table
  <2>. QED  BY <2>1 DEF Routes, RoutedUnlessRaced, local
<1>6. ASSUME NEW c \in Conn, LoginCheck(c) PROVE Good'
  BY <1>6 DEF LoginCheck, Routes, RoutedUnlessRaced, Goto, Finish, Forget, cluster, table
<1>7. ASSUME NEW c \in Conn, LoginAdd(c) PROVE Good'
  BY <1>7 DEF LoginAdd, Routes, RoutedUnlessRaced, Goto, table, local
<1>8. ASSUME NEW c \in Conn, LoginInsert(c) PROVE Good'
  BY <1>8 DEF LoginInsert, Routes, RoutedUnlessRaced, Goto, cluster, Working, Objects, HasObject
<1>9. ASSUME NEW c \in Conn, SnapshotRoute(c) PROVE Good'
  BY <1>9 DEF SnapshotRoute, Routes, RoutedUnlessRaced, Goto, Finish, Forget, cluster, table, Working
<1>10. ASSUME NEW c \in Conn, NEW m \in Map, SwitchRoute(c, m) PROVE Good'
  BY <1>10 DEF SwitchRoute, Routes, RoutedUnlessRaced, Goto, cluster, table
<1>11. ASSUME NEW c \in Conn, SwitchTake(c) \/ SwitchPut(c) PROVE Good'
  BY <1>11 DEF SwitchTake, SwitchPut, NextCommand, Routes, RoutedUnlessRaced, Goto, Finish,
               Forget, table, local
<1>12. ASSUME NEW c \in Conn, SwitchReroute(c) PROVE Good'
  <2>1. obj[c] \in Object /\ user[c] \in User
    BY <1>12 DEF SwitchReroute, Objects, HasObject, Working
  <2>2. /\ raced \subseteq raced'
        /\ \A d \in Conn \ {c} : InFlight(d) /\ user[d] = user[c] => user[d] \in raced'
    BY <1>12 DEF SwitchReroute, RoutesInFlight
  <2>3. RoutedUnlessRaced'
    BY <1>12, <2>1, <2>2 DEF SwitchReroute, RoutedUnlessRaced, Routes, Objects, cluster
  <2>4. Routes'
    <3>1. /\ UNCHANGED <<owner, user, at, mp, to>> /\ pc'[c] = "keep"
          /\ \A d \in Conn \ {c} : pc'[d] = pc[d] /\ obj'[d] = obj[d]
          /\ \A o \in Object \ {obj[c]} : sMap'[o] = sMap[o]
      BY <1>12, <2>1 DEF SwitchReroute, cluster, Goto
    <3>2. ASSUME NEW d \in Conn \ {c}, pc[d] = "view", user[d] \notin raced'
          PROVE  obj[d] \in Object \ {obj[c]}
      <4>1. obj[d] \in Object
        BY <3>2 DEF Objects, HasObject
      <4>2. user[d] # user[c]
        BY <2>2, <3>2 DEF InFlight
      <4>. QED  BY <2>1, <4>1, <4>2 DEF Objects
    <3>. QED  BY <2>2, <3>1, <3>2 DEF Routes
  <2>. QED  BY <2>3, <2>4
<1>13. ASSUME NEW n \in Node, NEW r \in [Map -> Node \ {n}], NEW S \in SUBSET Map,
              Failover(n, r, S)
       PROVE  Good'
  <2>1. /\ raced \subseteq raced'
        /\ \A d \in Conn : InFlight(d) => user[d] \in raced'
    BY <1>13 DEF Failover, RoutesInFlight
  <2>2. RoutedUnlessRaced'
    BY <1>13, <2>1 DEF Failover, RoutedUnlessRaced
  <2>3. Routes'
    BY <1>13, <2>1 DEF Failover, Routes, InFlight, local
  <2>. QED  BY <2>2, <2>3
<1>14. ASSUME NEW u \in User, Register(u) PROVE Good'
  BY <1>14 DEF Register, Routes, RoutedUnlessRaced, cluster, table, local
<1>15. ASSUME Restart PROVE Good'
  BY <1>15 DEF Restart, Routes, RoutedUnlessRaced
<1>. HIDE DEF Good
<1>16. Good'
  <2>1. ASSUME NEW c \in Conn, Login(c) PROVE Good'
    BY <1>2, <1>6, <1>7, <1>8, <1>9, <2>1 DEF Login
  <2>2. ASSUME NEW c \in Conn, SwitchMap(c) PROVE Good'
    BY <1>11, <1>12, <2>2 DEF SwitchMap
  <2>3. CASE ClientRequest
    BY <1>2, <1>10, <2>3 DEF ClientRequest
  <2>4. CASE Work
    BY <1>2, <1>3, <1>4, <1>5, <2>1, <2>2, <2>4 DEF Work
  <2>5. CASE Failure
    BY <1>13, <2>5 DEF Failure
  <2>. QED  BY <1>4, <1>14, <1>15, <2>3, <2>4, <2>5 DEF Next
<1>. QED  BY <1>16 DEF Good

-----------------------------------------------------------------------------
\* Steps of a connection that leave its session as it was, and of the others.
LEMMA SameService ==
  ASSUME SessionServed, UNCHANGED <<raced, session>>,
         \A c \in Conn : Accountable(c) => Accountable(c)' /\ user'[c] = user[c]
  PROVE  SessionServed'
BY DEF SessionServed

LEMMA ServiceStep ==
  ASSUME TypeOK, Working, Objects, Routes, SessionServed, [Next]_vars
  PROVE  SessionServed'
<1>1. /\ pc \in [Task -> Place] /\ user \in [Task -> User \cup {None}]
      /\ then \in [Task -> {"idle", "receive", "snapshot"}]
      /\ stop \in [Conn -> {"off", "remove", "record", "cool", "end"}]
      /\ session \in [User -> Object \cup {None}]
  BY TwoTypes DEF LocalTyped, SharedTyped
<1>. USE <1>1, Tasks, TaskAssumption, NoneAssumption
<1>2. ASSUME NEW c \in Conn,
             \/ Command(c) \/ CommandRoute(c) \/ Leave(c) \/ Close(c) \/ LoginAdd(c)
             \/ LoginCheck(c) \/ SwitchTake(c) \/ SwitchPut(c)
             \/ (\E m \in Map : SwitchRoute(c, m)) \/ (\E u \in User : LoginAuth(c, u))
      PROVE  SessionServed'
  <2>1. /\ UNCHANGED <<raced, session>>
        /\ \A d \in Conn \ {c} : UNCHANGED <<user[d], pc[d], then[d], stop[d]>>
    BY <1>2 DEF Command, CommandRefused, CommandAct, BossAct, CommandRoute, Leave, Close, LoginAdd,
                LoginCheck, SwitchTake, SwitchPut, SwitchRoute, LoginAuth, Goto, Finish, Forget,
                table, local, stopping
  <2>2. Accountable(c) => Accountable(c)' /\ user'[c] = user[c]
    BY <1>2 DEF Command, CommandRefused, CommandAct, BossAct, CommandRoute, Leave, Close, LoginAdd,
                LoginCheck, SwitchTake, SwitchPut, SwitchRoute, LoginAuth, Goto, Finish, Forget,
                NextCommand, local, stopping, Accountable, Served, InFlight
  <2>3. \A d \in Conn \ {c} : Accountable(d) => Accountable(d)' /\ user'[d] = user[d]
    BY <2>1 DEF Accountable, Served, InFlight
  <2>. QED  BY <2>1, <2>2, <2>3, SameService
<1>3. ASSUME NEW t \in Task, Keep(t) \/ Persist(t) PROVE SessionServed'
  <2>1. AfterPersist(t) \in {"idle", "receive", "leave", "snapshot"}
    BY DEF AfterPersist, NextCommand
  <2>2. /\ UNCHANGED <<raced, session, stop>>
        /\ \A d \in Task \ {t} : UNCHANGED <<user[d], pc[d], then[d]>>
    BY <1>3, <2>1 DEF Keep, Persist, PersistRoute, PersistProfile, PersistCold, PersistHot, Goto,
                      Finish, Forget, table, local, stopping
  <2>3. ASSUME t \in Conn, Accountable(t) PROVE Accountable(t)' /\ user'[t] = user[t]
    BY <1>3, <2>2, <2>3 DEF Keep, Persist, PersistRoute, PersistProfile, PersistCold, PersistHot,
        Goto, Finish, Forget, AfterPersist, NextCommand, local, Accountable, Served, InFlight
  <2>4. \A c \in Conn : Accountable(c) => Accountable(c)' /\ user'[c] = user[c]
    BY <2>2, <2>3 DEF Accountable, Served, InFlight
  <2>. QED  BY <2>2, <2>4, SameService
<1>4. ASSUME Background \/ VictimProfile \/ Award \/ UNCHANGED vars PROVE SessionServed'
  <2>1. UNCHANGED <<raced, session, stop>>
    BY <1>4 DEF Background, FlushTick, Affect, Strike, Checkpoint, VictimProfile, Award,
                table, stopping, vars
  <2>2. \A d \in Conn : UNCHANGED <<user[d], pc[d], then[d]>>
    <3>1. CASE (\E m \in Map : Checkpoint(m) \/ \E u \in User, d \in Deed : Affect(m, u, d))
               \/ UNCHANGED vars
      BY <3>1 DEF Affect, Checkpoint, local, vars
    <3>2. CASE \E u \in User : FlushTick(u)
      BY <3>2 DEF FlushTick, Goto
    <3>3. ASSUME NEW m \in Map, NEW u \in User, NEW d \in Deed, NEW l \in {"victim", "award"},
                 Strike(m, u, d, l)
          PROVE  \A c \in Conn : UNCHANGED <<user[c], pc[c], then[c]>>
      BY <3>3 DEF Strike, Goto
    <3>4. CASE VictimProfile \/ Award
      BY <3>4 DEF VictimProfile, Award, Goto, Finish, Forget
    <3>. QED  BY <1>4, <3>1, <3>2, <3>3, <3>4 DEF Background
  <2>. QED  BY <2>1, <2>2, SameService DEF Accountable, Served, InFlight
<1>5. ASSUME NEW c \in Conn, LogoutDelete(c) PROVE SessionServed'
  <2>1. /\ session'[user[c]] = None
        /\ \A u \in User \ {user[c]} : session'[u] = session[u]
        /\ UNCHANGED <<raced, user, pc, then>> /\ \A d \in Conn \ {c} : stop'[d] = stop[d]
    BY <1>5 DEF LogoutDelete, Working, Served, local
  <2>. QED  BY <2>1 DEF SessionServed, Accountable, Served, InFlight
<1>6. ASSUME NEW c \in Conn, LogoutRemove(c) \/ LogoutRecord(c) \/ LogoutCool(c)
      PROVE  SessionServed'
  <2>1. /\ UNCHANGED <<raced, session, user, pc, then>> /\ stop[c] # "off"
        /\ \A d \in Conn \ {c} : stop'[d] = stop[d]
    BY <1>6 DEF LogoutRemove, LogoutRecord, LogoutCool, table, local
  <2>. QED  BY <2>1, SameService DEF Accountable, Served, InFlight
<1>7. ASSUME NEW c \in Conn, LoginInsert(c) PROVE SessionServed'
  <2>1. /\ \A u \in User \ {user[c]} : session'[u] = session[u]
        /\ UNCHANGED <<raced, user, stop>> /\ pc[c] = "insert"
        /\ pc'[c] = "persist" /\ then'[c] = "snapshot"
        /\ \A d \in Conn \ {c} : pc'[d] = pc[d] /\ then'[d] = then[d]
    BY <1>7 DEF LoginInsert, stopping, Goto
  <2>2. stop[c] = "off"
    BY <2>1 DEF Working, Served
  <2>. QED  BY <2>1, <2>2 DEF SessionServed, Accountable, Served, InFlight
<1>8. ASSUME NEW c \in Conn, SnapshotRoute(c) PROVE SessionServed'
  <2>1. /\ UNCHANGED <<raced, session, stop>>
        /\ \A d \in Conn \ {c} : UNCHANGED <<user[d], pc[d], then[d]>>
        /\ session[user[c]] # None => pc'[c] = "view" /\ user'[c] = user[c]
    BY <1>8 DEF SnapshotRoute, table, stopping, Goto, Finish, Forget
  <2>. QED  BY <2>1 DEF SessionServed, Accountable, Served, InFlight
<1>9. ASSUME NEW c \in Conn, SnapshotView(c) PROVE SessionServed'
  <2>1. /\ UNCHANGED <<raced, session, stop>>
        /\ \A d \in Conn \ {c} : UNCHANGED <<user[d], pc[d], then[d]>>
    BY <1>9 DEF SnapshotView, table, stopping, Goto, Finish, Forget
  <2>2. user[c] \notin raced => pc'[c] = "receive" /\ user'[c] = user[c]
    BY <1>9 DEF SnapshotView, Routes, Hosts, Finish, Goto
  <2>. QED  BY <2>1, <2>2 DEF SessionServed, Accountable, Served, InFlight
<1>10. ASSUME NEW c \in Conn, SwitchReroute(c) PROVE SessionServed'
  <2>1. /\ raced \subseteq raced' /\ UNCHANGED <<session, user, stop, then>>
        /\ \A d \in Conn \ {c} : pc'[d] = pc[d]
        /\ pc[c] = "reroute" /\ pc'[c] = "keep"
    BY <1>10 DEF SwitchReroute, stopping, Goto
  <2>. QED  BY <2>1 DEF SessionServed, Accountable, Served, InFlight
<1>11. CASE Failure \/ \E u \in User : Register(u)
  <2>1. /\ raced \subseteq raced' /\ UNCHANGED <<session, user, pc, then, stop>>
    BY <1>11 DEF Failure, Failover, Register, table, local, stopping
  <2>. QED  BY <2>1 DEF SessionServed, Accountable, Served, InFlight
<1>. HIDE DEF SessionServed
<1>12. ASSUME NEW c \in Conn, Login(c) PROVE SessionServed'
  BY <1>2, <1>7, <1>8, <1>9, <1>12 DEF Login
<1>13. CASE ClientRequest
  BY <1>2, <1>13 DEF ClientRequest
<1>14. CASE Work
  BY <1>2, <1>3, <1>4, <1>5, <1>6, <1>10, <1>12, <1>14 DEF Work, SwitchMap, Logout
<1>15. CASE Restart
  BY <1>15 DEF Restart, SessionServed
<1>. QED  BY <1>4, <1>11, <1>13, <1>14, <1>15 DEF Next

-----------------------------------------------------------------------------
LEMMA SessionInvInit == Init => SessionInv
<1>. SUFFICES ASSUME Init PROVE SessionInv
  OBVIOUS
<1>. USE NoneAssumption, TaskAssumption, RouteAssumption, Tasks DEF Init
<1>1. LocalTyped
  BY Places DEF LocalTyped, Content
<1>2. SharedTyped
  BY DEF SharedTyped, Content, MaybePlayer
<1>3. Working /\ Objects /\ Routes
  BY DEF Working, Objects, HasObject, Routes
<1>4. RoutedUnlessRaced /\ SessionServed
  BY DEF RoutedUnlessRaced, SessionServed
<1>. QED  BY <1>1, <1>2, <1>3, <1>4, TwoTypes DEF SessionInv

LEMMA SessionInvAlways == Spec => []SessionInv
<1>1. SessionInv /\ [Next]_vars => SessionInv'
  BY TypeStep, WorkingStep, ObjectsStep, RoutesStep, ServiceStep DEF SessionInv
<1>. QED  BY <1>1, SessionInvInit, PTL DEF Spec

(* Whatever sections of logins, switches, commands, logouts, flushes,      *)
(* failovers and restarts come between each other, every variable keeps    *)
(* its type.                                                               *)
THEOREM SessionsTypeCorrect == Spec => []TypeOK
BY SessionInvAlways, PTL DEF SessionInv

(* A session leads to the owner of its map, unless a login or a switch of  *)
(* its user was in flight when the routes changed.                         *)
THEOREM RoutedUnlessRacedAlways == Spec => []RoutedUnlessRaced
BY SessionInvAlways, PTL DEF SessionInv

(* A session has a connection that will log it out, with the same          *)
(* exception: nobody is refused as online for ever.                        *)
THEOREM SessionServedAlways == Spec => []SessionServed
BY SessionInvAlways, PTL DEF SessionInv

-----------------------------------------------------------------------------
(* What is on record.  A goroutine has in hand what happened to the user   *)
(* it serves, and so has a Logout.                                         *)

Hands ==
  /\ \A t \in Task :
       \/ pc[t] = "idle" /\ prof[t] = {}
       \/ pc[t] # "idle" /\ saved[user[t]] # None /\ prof[t] \subseteq done[user[t]]
  /\ \A c \in Conn : \/ stop[c] # "record" /\ stopProf[c] = {}
                     \/ stop[c] = "record" /\ stopProf[c] \subseteq done[user[c]]

RecordInv == RecordsAreTrue /\ Hands

\* What a step may do to what is on record.
FilesStep ==
  \A u \in User : /\ done[u] \subseteq done'[u]
                  /\ saved'[u] = saved[u] \/ (saved'[u] # None /\ saved'[u] \subseteq done'[u])
                  /\ session'[u] \in {session[u], None} \/ saved[u] # None

WorldsStep ==
  \A m \in Map :
    /\ backup'[m] = backup[m] \/ backup'[m] = player[m]
    /\ \/ player'[m] = backup[m] /\ backup[m] # None
       \/ \A u \in User : \/ player'[m][u] \in {player[m][u], None}
                          \/ saved[u] # None /\ player'[m][u] \subseteq done'[u]

TaskHand(t) ==
  \/ pc'[t] = "idle" /\ prof'[t] = {}
  \/ /\ pc'[t] # "idle" /\ user'[t] \in User /\ saved[user'[t]] # None
     /\ prof'[t] \subseteq done'[user'[t]]
  \/ /\ pc[t] # "idle" /\ pc'[t] # "idle" /\ user'[t] = user[t] /\ user[t] \in User
     /\ prof'[t] \in {prof[t], {}}

LogoutHand(c) ==
  \/ stop'[c] # "record" /\ stopProf'[c] = {}
  \/ stop'[c] = "record" /\ user'[c] \in User /\ stopProf'[c] \subseteq done'[user'[c]]
  \/ /\ stop'[c] = stop[c] /\ stopProf'[c] = stopProf[c]
     /\ user'[c] = user[c] /\ (stop[c] = "record" => user[c] \in User)

HandsStep == (\A t \in Task : TaskHand(t)) /\ (\A c \in Conn : LogoutHand(c))

LEMMA RecordsStep ==
  ASSUME RecordInv, FilesStep, WorldsStep, HandsStep
  PROVE  RecordInv'
<1>1. \A u \in User : saved[u] # None => saved'[u] # None
  BY DEF FilesStep
<1>2. RecordsAreTrue'
  BY <1>1 DEF RecordInv, RecordsAreTrue, FilesStep, WorldsStep
<1>3. Hands'
  BY <1>1 DEF RecordInv, Hands, FilesStep, HandsStep, TaskHand, LogoutHand
<1>. QED  BY <1>2, <1>3 DEF RecordInv

LEMMA RecordTypes ==
  ASSUME SessionInv
  PROVE  /\ player \in [Map -> [User -> Content \cup {None}]]
         /\ backup \in [Map -> [User -> Content \cup {None}] \cup {None}]
         /\ session \in [User -> Object \cup {None}] /\ sMap \in [Object -> Map]
         /\ saved \in [User -> Content \cup {None}] /\ done \in [User -> Content]
         /\ pc \in [Task -> Place] /\ user \in [Task -> User \cup {None}]
         /\ prof \in [Task -> Content] /\ mp \in [Task -> Map]
         /\ then \in [Task -> {"idle", "receive", "snapshot"}]
         /\ stop \in [Conn -> {"off", "remove", "record", "cool", "end"}]
         /\ stopProf \in [Conn -> Content] /\ stopObj \in [Conn -> Object \cup {None}]
         /\ \A t \in Task : pc[t] # "idle" => user[t] \in User
         /\ \A c \in Conn : stop[c] # "off" => user[c] \in User
BY Tasks DEF SessionInv, TypeOK, MaybePlayer, Working, Served, Place

LEMMA CommandBefalls ==
  ASSUME NEW c \in Conn, CommandAct(c)
  PROVE  \E D \in SUBSET Deed : /\ Befall(mp[c], user[c], D)
                                /\ prof' = [prof EXCEPT ![c] = player[mp[c]][user[c]] \cup D]
<1>1. {{}} \cup {{d} : d \in Deed} \subseteq SUBSET Deed
  OBVIOUS
<1>. QED  BY <1>1 DEF CommandAct

\* The user file and the table: only what is in hand is saved.
LEMMA FilesFollow ==
  ASSUME SessionInv, RecordInv, [Next]_vars
  PROVE  FilesStep
<1>. USE RecordTypes, Tasks, NoneAssumption DEF RecordInv, Hands, FilesStep, table, files, cluster
<1>1. ASSUME NEW c \in Conn,
             \/ Login(c) \/ CommandRoute(c) \/ Leave(c) \/ (\E u \in User : LoginAuth(c, u))
             \/ SwitchMap(c) \/ (\E m \in Map : SwitchRoute(c, m))
      PROVE  FilesStep
  <2>1. UNCHANGED <<saved, done>>
    BY <1>1 DEF Login, LoginAuth, LoginCheck, LoginAdd, LoginInsert, SnapshotRoute, SnapshotView,
                CommandRoute, Leave, SwitchMap, SwitchRoute, SwitchTake, SwitchPut, SwitchReroute
  <2>2. CASE LoginInsert(c)
    <3>1. user[c] \in User /\ saved[user[c]] # None
      BY <2>2 DEF LoginInsert
    <3>2. PICK o \in Object : session' = [session EXCEPT ![user[c]] = o]
      BY <2>2 DEF LoginInsert
    <3>. QED  BY <2>1, <3>1, <3>2
  <2>3. CASE UNCHANGED session
    BY <2>1, <2>3
  <2>. QED
    BY <1>1, <2>2, <2>3
       DEF Login, LoginAuth, LoginCheck, LoginAdd, SnapshotRoute, SnapshotView, CommandRoute,
           Leave, SwitchMap, SwitchRoute, SwitchTake, SwitchPut, SwitchReroute
<1>2. ASSUME NEW m \in Map, NEW u \in User, NEW D \in SUBSET Deed, Befall(m, u, D),
             UNCHANGED <<saved, session>>
      PROVE  FilesStep
  BY <1>2 DEF Befall
<1>3. ASSUME NEW c \in Conn, Command(c) PROVE FilesStep
  <2>1. UNCHANGED <<saved, session>>
    BY <1>3 DEF Command, CommandRefused, CommandAct, BossAct
  <2>2. CASE CommandRefused(c) \/ BossAct(c)
    BY <2>1, <2>2 DEF CommandRefused, BossAct
  <2>3. CASE CommandAct(c)
    <3>1. PICK D \in SUBSET Deed : Befall(mp[c], user[c], D)
      BY <2>3, CommandBefalls
    <3>2. mp[c] \in Map /\ user[c] \in User
      BY <2>3 DEF CommandAct
    <3>. QED  BY <1>2, <2>1, <3>1, <3>2
  <2>. QED  BY <1>3, <2>2, <2>3 DEF Command
<1>4. ASSUME NEW t \in Task, Keep(t) \/ Persist(t) \/ (t = Rival /\ Award) PROVE FilesStep
  <2>1. UNCHANGED <<done, session>>
    BY <1>4 DEF Keep, Persist, PersistRoute, PersistProfile, PersistCold, PersistHot, Award
  <2>2. \/ UNCHANGED saved
        \/ pc[t] # "idle" /\ saved' = [saved EXCEPT ![user[t]] = prof[t]]
    BY <1>4 DEF Keep, Persist, PersistRoute, PersistProfile, PersistCold, PersistHot, Award, Record
  <2>3. prof[t] # None
    OBVIOUS
  <2>. QED  BY <2>1, <2>2, <2>3
<1>5. ASSUME NEW c \in Conn, Logout(c) \/ Close(c) PROVE FilesStep
  <2>1. UNCHANGED done /\ \A u \in User : session'[u] \in {session[u], None}
    BY <1>5 DEF Logout, LogoutDelete, LogoutRemove, LogoutRecord, LogoutCool, Close
  <2>2. \/ UNCHANGED saved
        \/ stop[c] = "record" /\ saved' = [saved EXCEPT ![user[c]] = stopProf[c]]
    BY <1>5 DEF Logout, LogoutDelete, LogoutRemove, LogoutRecord, LogoutCool, Close, Record
  <2>3. stopProf[c] # None
    OBVIOUS
  <2>. QED  BY <2>1, <2>2, <2>3
<1>6. CASE Background \/ VictimProfile
  <2>1. ASSUME NEW u \in User, FlushTick(u) PROVE FilesStep
    BY <2>1 DEF FlushTick
  <2>2. ASSUME NEW m \in Map, NEW u \in User, NEW d \in Deed,
               Affect(m, u, d) \/ \E l \in {"victim", "award"} : Strike(m, u, d, l)
        PROVE  FilesStep
    <3>1. Befall(m, u, {d}) /\ UNCHANGED <<saved, session>>
      BY <2>2 DEF Affect, Strike
    <3>. QED  BY <1>2, <3>1
  <2>3. CASE VictimProfile \/ \E m \in Map : Checkpoint(m)
    BY <2>3 DEF VictimProfile, Checkpoint
  <2>. QED  BY <1>6, <2>1, <2>2, <2>3 DEF Background
<1>7. CASE Failure \/ Restart
  BY <1>7 DEF Failure, Failover, Restart
<1>8. ASSUME NEW u \in User, Register(u) PROVE FilesStep
  <2>1. {} # None
    BY DEF Content
  <2>. QED  BY <1>8, <2>1 DEF Register
<1>9. CASE UNCHANGED vars
  BY <1>9 DEF vars
<1>. QED
  BY <1>1, <1>3, <1>4, <1>5, <1>6, <1>7, <1>8, <1>9 DEF Next, ClientRequest, Work

\* The worlds: a player is what somebody had in hand, or a checkpoint has him.
LEMMA WorldsFollow ==
  ASSUME SessionInv, RecordInv, [Next]_vars
  PROVE  WorldsStep
<1>. USE RecordTypes, Tasks, NoneAssumption DEF WorldsStep, cluster
<1>1. CASE UNCHANGED <<player, backup>>
  BY <1>1
<1>2. ASSUME NEW n \in Node, NEW m \in Map, NEW t \in Task, pc[t] # "idle",
             AddPlayer(n, m, user[t], prof[t]), UNCHANGED <<backup, done>>
      PROVE  WorldsStep
  <2>1. user[t] \in User /\ saved[user[t]] # None /\ prof[t] \subseteq done[user[t]]
    BY <1>2 DEF RecordInv, Hands
  <2>. QED  BY <1>2, <2>1 DEF AddPlayer
<1>3. ASSUME NEW m \in Map, NEW u \in User, NEW D \in SUBSET Deed, Befall(m, u, D),
             player[m][u] # None, UNCHANGED backup
      PROVE  WorldsStep
  <2>1. saved[u] # None /\ player[m][u] \subseteq done[u]
    BY <1>3 DEF RecordInv, RecordsAreTrue
  <2>. QED  BY <1>3, <2>1 DEF Befall
<1>4. ASSUME NEW m \in Map, NEW u \in User, player' = [player EXCEPT ![m][u] = None],
             UNCHANGED backup
      PROVE  WorldsStep
  BY <1>4
<1>5. ASSUME NEW c \in Conn, Login(c) PROVE WorldsStep
  <2>1. CASE LoginAdd(c)
    <3>1. at[c] \in Node /\ mp[c] \in Map
      BY DEF SessionInv, TypeOK
    <3>. QED  BY <1>2, <2>1, <3>1 DEF LoginAdd
  <2>. QED  BY <1>1, <1>5, <2>1 DEF Login, LoginCheck, LoginInsert, SnapshotRoute, SnapshotView
<1>6. ASSUME NEW c \in Conn, Command(c) PROVE WorldsStep
  <2>1. CASE CommandAct(c)
    <3>1. PICK D \in SUBSET Deed : Befall(mp[c], user[c], D)
      BY <2>1, CommandBefalls
    <3>2. mp[c] \in Map /\ user[c] \in User /\ player[mp[c]][user[c]] # None /\ UNCHANGED backup
      BY <2>1 DEF CommandAct, Present
    <3>. QED  BY <1>3, <3>1, <3>2
  <2>. QED  BY <1>1, <1>6, <2>1 DEF Command, CommandRefused, BossAct
<1>7. ASSUME NEW c \in Conn, SwitchMap(c) PROVE WorldsStep
  <2>1. CASE SwitchPut(c)
    <3>1. to[c] \in Node /\ mp[c] \in Map
      BY DEF SessionInv, TypeOK
    <3>. QED  BY <1>2, <2>1, <3>1 DEF SwitchPut
  <2>2. CASE SwitchTake(c)
    <3>1. obj[c] \in Object /\ user[c] \in User
      BY <2>2 DEF SwitchTake, SessionInv, TypeOK, Objects, HasObject
    <3>. QED  BY <1>1, <1>4, <2>2, <3>1 DEF SwitchTake
  <2>. QED  BY <1>1, <1>7, <2>1, <2>2 DEF SwitchMap, SwitchReroute
<1>8. ASSUME NEW c \in Conn, Logout(c) PROVE WorldsStep
  <2>1. CASE LogoutRemove(c)
    <3>1. stopObj[c] \in Object /\ user[c] \in User
      BY <2>1 DEF LogoutRemove, SessionInv, Working
    <3>. QED  BY <1>1, <1>4, <2>1, <3>1 DEF LogoutRemove
  <2>. QED  BY <1>1, <1>8, <2>1 DEF Logout, LogoutDelete, LogoutRecord, LogoutCool
<1>9. ASSUME NEW m \in Map, NEW u \in User, NEW d \in Deed,
             Affect(m, u, d) \/ \E l \in {"victim", "award"} : Strike(m, u, d, l)
      PROVE  WorldsStep
  <2>1. Befall(m, u, {d}) /\ player[m][u] # None /\ UNCHANGED backup
    BY <1>9 DEF Affect, Strike
  <2>. QED  BY <1>3, <2>1
<1>10. ASSUME NEW m \in Map, Checkpoint(m) PROVE WorldsStep
  BY <1>10 DEF Checkpoint
<1>11. CASE Background
  BY <1>1, <1>9, <1>10, <1>11 DEF Background, FlushTick
<1>12. ASSUME NEW t \in Task, Keep(t) \/ Persist(t) PROVE WorldsStep
  BY <1>1, <1>12 DEF Keep, Persist, PersistRoute, PersistProfile, PersistCold, PersistHot
<1>13. ASSUME NEW c \in Conn,
              \/ CommandRoute(c) \/ Leave(c) \/ Close(c) \/ (\E u \in User : LoginAuth(c, u))
              \/ \E m \in Map : SwitchRoute(c, m)
       PROVE  WorldsStep
  BY <1>1, <1>13 DEF CommandRoute, Leave, Close, LoginAuth, SwitchRoute
<1>14. CASE VictimProfile \/ Award \/ \E u \in User : Register(u)
  BY <1>1, <1>14 DEF VictimProfile, Award, Register
<1>15. CASE Failure
  <2>1. PICK n \in Node : \E r \in [Map -> Node \ {n}], S \in SUBSET Map : Failover(n, r, S)
    BY <1>15 DEF Failure
  <2>2. PICK r \in [Map -> Node \ {n}], S \in SUBSET Map : Failover(n, r, S)
    BY <2>1
  <2>. QED  BY <2>2 DEF Failover, Moved
<1>16. CASE Restart
  BY <1>16 DEF Restart
<1>17. CASE UNCHANGED vars
  BY <1>1, <1>17 DEF vars
<1>. QED
  BY <1>5, <1>6, <1>7, <1>8, <1>11, <1>12, <1>13, <1>14, <1>15, <1>16, <1>17
  DEF Next, ClientRequest, Work

\* The hands: a profile is read from the user file or from a world.
LEMMA HandsFollow ==
  ASSUME SessionInv, RecordInv, [Next]_vars
  PROVE  HandsStep
<1>. DEFINE Tasked == \A t \in Task : TaskHand(t)
            Logged == \A c \in Conn : LogoutHand(c)
<1>. USE RecordTypes, Tasks, NoneAssumption
<1>t. ASSUME UNCHANGED <<pc, user, prof>> PROVE Tasked
  BY <1>t DEF RecordInv, Hands, TaskHand
<1>f. ASSUME NEW t \in Task, NEW l, Finish(t, l), pc[t] # "idle" PROVE Tasked
  BY <1>f DEF RecordInv, Hands, TaskHand, Finish, Goto, Forget
<1>g. ASSUME NEW t \in Task, NEW l, l # "idle", Goto(t, l), pc[t] # "idle", UNCHANGED user,
             \/ UNCHANGED prof
             \/ \E p \in Content : /\ prof' = [prof EXCEPT ![t] = p]
                                   /\ saved[user[t]] # None /\ p \subseteq done'[user[t]]
      PROVE  Tasked
  BY <1>g DEF RecordInv, Hands, TaskHand, Goto
<1>s. ASSUME UNCHANGED <<stop, stopProf>>, \A c \in Conn : user'[c] = user[c] \/ stop[c] = "off"
      PROVE  Logged
  BY <1>s DEF RecordInv, Hands, LogoutHand
<1>k. ASSUME NEW t \in Task, NEW l, Finish(t, l), UNCHANGED <<stop, stopProf>>,
             l # "idle" \/ t \notin Conn \/ stop[t] = "off"
      PROVE  Logged
  <2>1. \A c \in Conn : user'[c] = user[c] \/ stop[c] = "off"
    BY <1>k DEF Finish
  <2>. QED  BY <1>k, <1>s, <2>1
<1>p. ASSUME NEW m \in Map, NEW u \in User, player[m][u] # None
      PROVE  player[m][u] \in Content /\ saved[u] # None /\ player[m][u] \subseteq done[u]
  BY <1>p DEF RecordInv, RecordsAreTrue
<1>h. ASSUME NEW c \in Conn, UNCHANGED user, LogoutHand(c),
             \A d \in Conn \ {c} : stop'[d] = stop[d] /\ stopProf'[d] = stopProf[d]
      PROVE  Logged
  BY <1>h DEF LogoutHand
<1>. HIDE DEF Tasked, Logged
<1>1. ASSUME NEW c \in Conn, Login(c) PROVE Tasked /\ Logged
  <2>1. stop[c] = "off"
    BY <1>1 DEF SessionInv, Working, Served, Login, LoginCheck, LoginAdd, LoginInsert,
                SnapshotRoute, SnapshotView
  <2>2. CASE \E l : Finish(c, l)
    BY <1>f, <1>k, <1>1, <2>1, <2>2
       DEF stopping, Login, LoginCheck, LoginAdd, LoginInsert, SnapshotRoute, SnapshotView
  <2>3. CASE UNCHANGED <<user, prof, stopping>> /\ \E l : Goto(c, l) /\ l # "idle"
    BY <1>g, <1>s, <1>1, <2>3
       DEF stopping, Login, LoginCheck, LoginAdd, LoginInsert, SnapshotRoute, SnapshotView
  <2>4. UNCHANGED stopping
    BY <1>1 DEF Login, LoginCheck, LoginAdd, LoginInsert, SnapshotRoute, SnapshotView
  <2>. QED
    BY <1>1, <2>2, <2>3, <2>4
       DEF local, Login, LoginCheck, LoginAdd, LoginInsert, SnapshotRoute, SnapshotView
<1>2. ASSUME NEW c \in Conn, NEW u \in User, LoginAuth(c, u) PROVE Tasked /\ Logged
  <2>1. Tasked
    BY <1>2 DEF LoginAuth, Goto, files, RecordInv, RecordsAreTrue, Hands, TaskHand, Tasked
  <2>2. Logged
    BY <1>2, <1>s DEF LoginAuth, stopping
  <2>. QED  BY <2>1, <2>2
<1>3. ASSUME NEW c \in Conn,
             CommandRoute(c) \/ Leave(c) \/ (\E m \in Map : SwitchRoute(c, m))
      PROVE  Tasked /\ Logged
  <2>1. /\ UNCHANGED <<user, prof, stopping>> /\ pc[c] # "idle"
        /\ \E l : Goto(c, l) /\ l # "idle"
    BY <1>3 DEF CommandRoute, Leave, SwitchRoute, local
  <2>. QED  BY <1>g, <1>s, <2>1 DEF stopping
<1>4. ASSUME NEW c \in Conn, NextCommand(c) = "idle" PROVE FALSE
  BY <1>4 DEF NextCommand
<1>5. ASSUME NEW c \in Conn, Command(c) PROVE Tasked /\ Logged
  <2>1. CASE CommandRefused(c)
    BY <1>f, <1>k, <1>4, <2>1 DEF CommandRefused, stopping
  <2>2. CASE BossAct(c)
    <3>1. Goto(c, "persist") /\ pc[c] # "idle" /\ UNCHANGED <<user, prof, stopping>>
      BY <2>2 DEF BossAct
    <3>. QED  BY <1>g, <1>s, <3>1 DEF stopping
  <2>3. CASE CommandAct(c)
    <3>1. PICK D \in SUBSET Deed : /\ Befall(mp[c], user[c], D)
                                   /\ prof' = [prof EXCEPT ![c] = player[mp[c]][user[c]] \cup D]
      BY <2>3, CommandBefalls
    <3>2. /\ mp[c] \in Map /\ user[c] \in User /\ player[mp[c]][user[c]] # None
          /\ Goto(c, "keep") /\ pc[c] # "idle" /\ UNCHANGED <<user, stopping>>
      BY <2>3 DEF CommandAct, Present
    <3>3. saved[user[c]] # None /\ player[mp[c]][user[c]] \cup D \subseteq done'[user[c]]
      BY <1>p, <3>1, <3>2 DEF Befall
    <3>4. player[mp[c]][user[c]] \cup D \in Content
      BY <1>p, <3>2 DEF Content
    <3>. QED  BY <1>g, <1>s, <3>1, <3>2, <3>3, <3>4 DEF stopping
  <2>. QED  BY <1>5, <2>1, <2>2, <2>3 DEF Command
<1>6. ASSUME NEW t \in Task, Keep(t) PROVE Tasked /\ Logged
  <2>1. Goto(t, "persist") /\ pc[t] # "idle" /\ UNCHANGED <<user, prof, stopping>>
    BY <1>6 DEF Keep
  <2>. QED  BY <1>g, <1>s, <2>1 DEF stopping
<1>7. ASSUME NEW t \in Task, Persist(t) PROVE Tasked /\ Logged
  <2>0. UNCHANGED stopping /\ pc[t] \in {"persist", "profile", "cold", "hot"}
    BY <1>7 DEF Persist, PersistRoute, PersistProfile, PersistCold, PersistHot
  <2>1. CASE Finish(t, AfterPersist(t))
    <3>1. AfterPersist(t) # "idle" \/ t \notin Conn \/ stop[t] = "off"
      BY <1>4, <2>0 DEF AfterPersist, SessionInv, Working, Served
    <3>. QED  BY <1>f, <1>k, <2>0, <2>1, <3>1 DEF stopping
  <2>2. CASE PersistProfile(t) /\ Goto(t, "cold") /\ Present(at[t], mp[t], user[t])
             /\ prof' = [prof EXCEPT ![t] = player[mp[t]][user[t]]] /\ UNCHANGED user
    <3>1. mp[t] \in Map /\ user[t] \in User /\ player[mp[t]][user[t]] # None /\ UNCHANGED done
      BY <2>0, <2>2 DEF PersistProfile, Present
    <3>. QED  BY <1>g, <1>p, <1>s, <2>0, <2>2, <3>1 DEF stopping
  <2>3. CASE UNCHANGED <<user, prof>> /\ \E l : Goto(t, l) /\ l # "idle"
    BY <1>g, <1>s, <2>0, <2>3 DEF stopping
  <2>. QED
    BY <1>7, <2>1, <2>2, <2>3
       DEF local, Persist, PersistRoute, PersistProfile, PersistCold, PersistHot
<1>8. ASSUME NEW c \in Conn, SwitchMap(c) PROVE Tasked /\ Logged
  <2>1. CASE Finish(c, NextCommand(c)) /\ UNCHANGED stopping /\ pc[c] # "idle"
    BY <1>f, <1>k, <1>4, <2>1 DEF stopping
  <2>2. CASE SwitchTake(c) /\ Present(at[c], sMap[obj[c]], user[c]) /\ Goto(c, "put")
             /\ prof' = [prof EXCEPT ![c] = player[sMap[obj[c]]][user[c]]] /\ UNCHANGED user
    <3>1. /\ obj[c] \in Object /\ user[c] \in User
          /\ UNCHANGED <<done, stopping>> /\ pc[c] # "idle"
      BY <2>2 DEF SwitchTake, SessionInv, TypeOK, Objects, HasObject
    <3>2. sMap[obj[c]] \in Map /\ player[sMap[obj[c]]][user[c]] # None
      BY <2>2, <3>1 DEF Present
    <3>. QED  BY <1>g, <1>p, <1>s, <2>2, <3>1, <3>2 DEF stopping
  <2>3. CASE SwitchPut(c) \/ SwitchReroute(c)
    <3>1. /\ UNCHANGED <<user, prof, stopping>> /\ pc[c] # "idle"
          /\ \E l : Goto(c, l) /\ l # "idle"
      BY <2>3 DEF SwitchPut, SwitchReroute, local
    <3>. QED  BY <1>g, <1>s, <3>1 DEF stopping
  <2>. QED  BY <1>8, <2>1, <2>2, <2>3 DEF SwitchMap, SwitchTake
<1>9. ASSUME NEW c \in Conn, Logout(c) PROVE Tasked /\ Logged
  <2>1. UNCHANGED <<pc, user, prof>>
    BY <1>9 DEF Logout, LogoutDelete, LogoutRemove, LogoutRecord, LogoutCool, local
  <2>2. CASE LogoutRemove(c) /\ stop' = [stop EXCEPT ![c] = "record"]
             /\ Present(sNode[stopObj[c]], sMap[stopObj[c]], user[c])
             /\ stopProf' = [stopProf EXCEPT ![c] = player[sMap[stopObj[c]]][user[c]]]
    <3>1. stopObj[c] \in Object /\ user[c] \in User /\ UNCHANGED done
      BY <2>2 DEF LogoutRemove, SessionInv, Working
    <3>2. sMap[stopObj[c]] \in Map /\ player[sMap[stopObj[c]]][user[c]] # None
      BY <2>2, <3>1 DEF Present
    <3>3. player[sMap[stopObj[c]]][user[c]] \subseteq done'[user'[c]] /\ user'[c] \in User
      BY <1>p, <2>1, <3>1, <3>2
    <3>4. LogoutHand(c)
      BY <2>1, <2>2, <3>3 DEF LogoutHand
    <3>5. \A d \in Conn \ {c} : stop'[d] = stop[d] /\ stopProf'[d] = stopProf[d]
      BY <2>2
    <3>. QED  BY <1>h, <1>t, <2>1, <3>4, <3>5
  <2>3. CASE LogoutRecord(c)
    <3>1. LogoutHand(c)
      BY <2>1, <2>3 DEF LogoutRecord, LogoutHand
    <3>2. \A d \in Conn \ {c} : stop'[d] = stop[d] /\ stopProf'[d] = stopProf[d]
      BY <2>3 DEF LogoutRecord
    <3>. QED  BY <1>h, <1>t, <2>1, <3>1, <3>2
  <2>4. CASE stop[c] # "record" /\ UNCHANGED stopProf
             /\ \E s : s # "record" /\ stop' = [stop EXCEPT ![c] = s]
    <3>1. LogoutHand(c)
      BY <2>1, <2>4 DEF LogoutHand, RecordInv, Hands
    <3>2. \A d \in Conn \ {c} : stop'[d] = stop[d] /\ stopProf'[d] = stopProf[d]
      BY <2>4
    <3>. QED  BY <1>h, <1>t, <2>1, <3>1, <3>2
  <2>5. Tasked /\ Logged
    BY <1>9, <2>2, <2>3, <2>4 DEF Logout, LogoutDelete, LogoutRemove, LogoutCool
  <2>. QED  BY <2>5
<1>10. ASSUME NEW c \in Conn, Close(c) PROVE Tasked /\ Logged
  <2>1. Tasked
    BY <1>f, <1>10 DEF Close
  <2>2. Logged
    BY <1>10 DEF Close, Finish, Logged, LogoutHand, RecordInv, Hands
  <2>. QED  BY <2>1, <2>2
<1>11. ASSUME NEW u \in User, FlushTick(u) PROVE Tasked /\ Logged
  <2>1. saved[u] # None
    BY <1>11 DEF FlushTick, RecordInv, RecordsAreTrue
  <2>2. Tasked
    BY <1>11, <2>1 DEF FlushTick, Goto, Tasked, TaskHand, RecordInv, Hands
  <2>3. Logged
    BY <1>11, <1>s, TaskAssumption DEF FlushTick, stopping
  <2>. QED  BY <2>2, <2>3
<1>12. ASSUME NEW m \in Map, NEW u \in User, NEW d \in Deed,
              NEW l \in {"victim", "award"}, Strike(m, u, d, l)
       PROVE  Tasked /\ Logged
  <2>1. saved[u] # None /\ player[m][u] \subseteq done[u]
    BY <1>12, <1>p DEF Strike
  <2>2. done' = [done EXCEPT ![u] = @ \cup {d}]
    BY <1>12 DEF Strike, Befall
  <2>3. Tasked
    BY <1>12, <2>1, <2>2 DEF Strike, Goto, Tasked, TaskHand, RecordInv, Hands
  <2>4. Logged
    BY <1>12, <1>s, TaskAssumption DEF Strike, stopping
  <2>. QED  BY <2>3, <2>4
<1>13. ASSUME VictimProfile PROVE Tasked /\ Logged
  <2>1. CASE Finish(Rival, "idle")
    BY <1>f, <1>k, <1>13, <2>1, TaskAssumption DEF VictimProfile, stopping
  <2>2. CASE Present(at[Rival], mp[Rival], user[Rival]) /\ Goto(Rival, "keep")
             /\ prof' = [prof EXCEPT ![Rival] = player[mp[Rival]][user[Rival]]]
             /\ UNCHANGED user
    <3>1. /\ mp[Rival] \in Map /\ user[Rival] \in User /\ player[mp[Rival]][user[Rival]] # None
          /\ UNCHANGED <<done, stopping>> /\ pc[Rival] # "idle"
      BY <1>13, <2>2 DEF VictimProfile, Present
    <3>. QED  BY <1>g, <1>p, <1>s, <2>2, <3>1 DEF stopping
  <2>. QED  BY <1>13, <2>1, <2>2 DEF VictimProfile
<1>14. ASSUME Award PROVE Tasked /\ Logged
  BY <1>f, <1>k, <1>14, TaskAssumption DEF Award, stopping
<1>15. ASSUME UNCHANGED <<pc, local, stopping>> PROVE Tasked /\ Logged
  BY <1>15, <1>t, <1>s DEF local, stopping
<1>16. ASSUME Restart PROVE Tasked /\ Logged
  <2>1. Tasked
    BY <1>16 DEF Restart, Tasked, TaskHand
  <2>2. Logged
    BY <1>16 DEF Restart, Logged, LogoutHand
  <2>. QED  BY <2>1, <2>2
<1>17. Tasked /\ Logged
  <2>1. CASE ClientRequest
    BY <2>1, <1>2, <1>3 DEF ClientRequest
  <2>2. CASE Background
    BY <2>2, <1>11, <1>12, <1>15 DEF Background, Affect, Checkpoint
  <2>3. CASE Work
    BY <2>3, <1>1, <1>5, <1>6, <1>7, <1>8, <1>9, <1>10, <1>13, <1>14 DEF Work
  <2>4. CASE Failure \/ (\E u \in User : Register(u)) \/ UNCHANGED vars
    <3>1. UNCHANGED <<pc, local, stopping>>
      BY <2>4 DEF Failure, Failover, Register, vars
    <3>. QED  BY <1>15, <3>1
  <2>. QED  BY <2>1, <2>2, <2>3, <2>4, <1>16 DEF Next
<1>. QED  BY <1>17 DEF Tasked, Logged, HandsStep

LEMMA RecordInvInit == Init => RecordInv
<1>. HAVE Init
<1>1. RecordsAreTrue
  BY DEF Init, RecordsAreTrue
<1>2. Hands
  BY DEF Init, Hands
<1>. QED  BY <1>1, <1>2 DEF RecordInv

(* Whatever the order in which logins, logouts, commands, switches, the    *)
(* flush loop, failovers and restarts save and restore a player, what is   *)
(* on record of him has happened to him: RecordsAreTrue, for any number of *)
(* connections and maps (cluster.go Logout, SwitchMap, persistSessionState,*)
(* flushLoop, store.go SaveProfile).                                       *)
THEOREM RecordsAreTrueAlways == Spec => []RecordsAreTrue
<1>1. SessionInv /\ RecordInv /\ [Next]_vars => RecordInv'
  BY RecordsStep, FilesFollow, WorldsFollow, HandsFollow
<1>. QED
  BY SessionInvAlways, RecordInvInit, <1>1, PTL DEF Spec, RecordInv

=============================================================================
