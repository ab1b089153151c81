------------------------------ MODULE Sessions ------------------------------
(***************************************************************************)
(* Register, Login, Logout, SwitchMap, the player commands, flushLoop, the *)
(* session part of a failover and the restart of the server in the Lab3    *)
(* cluster (cluster/cluster.go, cmd/server/main.go, storage/store.go).     *)
(*                                                                         *)
(* Every one of these operations touches three places that no common lock  *)
(* protects: the session table (c.mu), the world that holds the player     *)
(* (its w.mu) and the user file (the store's mu).  One action is one of    *)
(* those critical sections, so all interleavings between them are here.    *)
(*                                                                         *)
(* A connection c has a main goroutine, which serves its commands, and may *)
(* be logged out meanwhile by its ticker goroutine: sync.Once makes the    *)
(* two share one Logout, which is the stop part of the connection here.    *)
(*                                                                         *)
(* Data.  A profile is the set of things that happened to the player       *)
(* (treasures, kills, wounds) together with the map of the last exit.      *)
(* Where a map is hosted is the concern of ClusterFailover; this module    *)
(* takes from it that a map is hosted by its owner only (OwnerHosts and    *)
(* SingleWriter) and that a failover moves it with its checkpoint.         *)
(***************************************************************************)
EXTENDS Naturals

CONSTANTS
  User,      \* user names
  Map,       \* map identifiers
  Node,      \* node identifiers
  Conn,      \* client connections: handleClient goroutines
  Flusher,   \* the flushLoop goroutine
  Rival,     \* a handler of some other player
  Object,    \* addresses of Session objects
  Deed,      \* identifiers of changes to a player
  None,      \* no session, no player, no checkpoint, no record
  InitOwner, \* the owner column of NewCluster's assignments
  HomeMap    \* DefaultMapID

Task    == Conn \cup {Flusher, Rival}
Content == SUBSET Deed

ASSUME NoneAssumption == /\ None \notin Object
                         /\ \A c \in Content : c # None
ASSUME TaskAssumption == Flusher \notin Conn /\ Rival \notin Conn /\ Flusher # Rival
ASSUME RouteAssumption == InitOwner \in [Map -> Node] /\ HomeMap \in Map

VARIABLES
  owner,    \* c.owners
  player,   \* per map and user: the player in the hosted world, or None
  backup,   \* per map: the players of its latest checkpoint, or None
  session,  \* c.sessions: the Session object of a user, or None
  sMap,     \* session.MapID
  sNode,    \* session.NodeID
  saved,    \* the user file: what is recorded of the player, or None
  savedMap, \* the user file: LastMap
  hot,      \* the users that have an entry in the hot session file
  done,     \* per user: the deeds that have happened
  raced,    \* users one of whose routes was in flight when routes changed
  pc,       \* where each main goroutine and flushLoop is
  user,     \* the user it serves, or None
  obj,      \* the Session object it has looked up
  at,       \* the node it talks to
  mp,       \* the map it talks about
  to,       \* the node a switch leads to
  prof,     \* the profile it has in hand
  then,     \* what follows persistSessionState
  stop,     \* where the connection's Logout is
  stopObj,  \* the Session object Logout removed from the table
  stopProf, \* the profile Logout removed from the world
  stopMap   \* the map it was removed from

cluster  == <<owner, player, backup>>
table    == <<session, sMap, sNode>>
files    == <<saved, savedMap, hot>>
local    == <<user, obj, at, mp, to, prof, then>>
stopping == <<stop, stopObj, stopProf, stopMap>>
vars     == <<cluster, table, files, done, raced, pc, local, stopping>>

\* Node n hosts map m: its operations on m succeed.
Hosts(n, m) == owner[m] = n

Goto(t, l) == pc' = [pc EXCEPT ![t] = l]

Init ==
  /\ owner = InitOwner
  /\ player = [m \in Map |-> [u \in User |-> None]]
  /\ backup = [m \in Map |-> None]
  /\ session = [u \in User |-> None]
  /\ sMap = [o \in Object |-> HomeMap] /\ sNode = [o \in Object |-> InitOwner[HomeMap]]
  /\ saved = [u \in User |-> None] /\ savedMap = [u \in User |-> HomeMap]
  /\ hot = {} /\ done = [u \in User |-> {}] /\ raced = {}
  /\ pc = [t \in Task |-> "idle"]
  /\ user = [t \in Task |-> None]
  /\ obj = [t \in Task |-> None]
  /\ at = [t \in Task |-> InitOwner[HomeMap]] /\ to = at
  /\ mp = [t \in Task |-> HomeMap]
  /\ prof = [t \in Task |-> {}]
  /\ then = [t \in Task |-> "idle"]
  /\ stop = [c \in Conn |-> "off"]
  /\ stopObj = [c \in Conn |-> None]
  /\ stopProf = [c \in Conn |-> {}] /\ stopMap = [c \in Conn |-> HomeMap]

(* The server process dies and is started again: NewStore reads the user   *)
(* and hot session files, NewCluster makes the maps from their checkpoints *)
(* at their first owners, and nobody is logged in.                         *)
Restart ==
  /\ owner' = InitOwner
  /\ player' = [m \in Map |-> IF backup[m] = None THEN [u \in User |-> None] ELSE backup[m]]
  /\ session' = [u \in User |-> None]
  /\ sMap' = [o \in Object |-> HomeMap] /\ sNode' = [o \in Object |-> InitOwner[HomeMap]]
  /\ raced' = {}
  /\ pc' = [t \in Task |-> "idle"] /\ then' = [t \in Task |-> "idle"]
  /\ user' = [t \in Task |-> None] /\ obj' = [t \in Task |-> None]
  /\ at' = [t \in Task |-> InitOwner[HomeMap]] /\ to' = at'
  /\ mp' = [t \in Task |-> HomeMap]
  /\ prof' = [t \in Task |-> {}]
  /\ stop' = [c \in Conn |-> "off"] /\ stopObj' = [c \in Conn |-> None]
  /\ stopProf' = [c \in Conn |-> {}] /\ stopMap' = [c \in Conn |-> HomeMap]
  /\ UNCHANGED <<backup, files, done>>

\* Forget the locals of a task that has nothing more to do.
Forget(t) ==
  /\ obj' = [obj EXCEPT ![t] = None]
  /\ at' = [at EXCEPT ![t] = InitOwner[HomeMap]] /\ to' = [to EXCEPT ![t] = InitOwner[HomeMap]]
  /\ mp' = [mp EXCEPT ![t] = HomeMap]
  /\ prof' = [prof EXCEPT ![t] = {}]
  /\ then' = [then EXCEPT ![t] = "idle"]

\* The operation is over: the goroutine goes on at l.
Finish(t, l) == /\ Goto(t, l) /\ Forget(t)
                /\ user' = [user EXCEPT ![t] = IF l = "idle" THEN None ELSE user[t]]

-----------------------------------------------------------------------------
(* Register and Login; QuickEnter is the one and then the other.           *)

\* store.Register: a new user, who starts at the default map.
Register(u) ==
  /\ saved[u] = None
  /\ saved' = [saved EXCEPT ![u] = {}]
  /\ savedMap' = [savedMap EXCEPT ![u] = HomeMap]
  /\ UNCHANGED <<cluster, table, hot, done, raced, pc, local, stopping>>

\* store.Authenticate
LoginAuth(c, u) ==
  /\ pc[c] = "idle" /\ stop[c] = "off" /\ saved[u] # None
  /\ Goto(c, "check")
  /\ user' = [user EXCEPT ![c] = u]
  /\ prof' = [prof EXCEPT ![c] = saved[u]]
  /\ mp'   = [mp EXCEPT ![c] = savedMap[u]]
  /\ UNCHANGED <<cluster, table, files, done, raced, obj, at, to, then, stopping>>

\* First section under c.mu: refuse a user who is online, find the owner.
LoginCheck(c) ==
  /\ pc[c] = "check"
  /\ \/ /\ session[user[c]] # None
        /\ Finish(c, "idle")
     \/ /\ session[user[c]] = None
        /\ Goto(c, "add") /\ at' = [at EXCEPT ![c] = owner[mp[c]]]
        /\ UNCHANGED <<mp, prof, to, obj, then, user>>
  /\ UNCHANGED <<cluster, table, files, done, raced, stopping>>

\* node.AddPlayer: it overwrites, or does nothing at a node without the map.
AddPlayer(n, m, u, p) ==
  player' = IF Hosts(n, m) THEN [player EXCEPT ![m][u] = p] ELSE player

LoginAdd(c) ==
  /\ pc[c] = "add"
  /\ AddPlayer(at[c], mp[c], user[c], prof[c])
  /\ Goto(c, "insert")
  /\ UNCHANGED <<owner, backup, table, files, done, raced, local, stopping>>

\* Second section: the new Session replaces whatever is in the table.
LoginInsert(c) ==
  /\ pc[c] = "insert"
  /\ \E o \in Object :
       /\ \A u \in User : session[u] # o
       /\ \A t \in Task : obj[t] # o
       /\ \A d \in Conn : stopObj[d] # o
       /\ session' = [session EXCEPT ![user[c]] = o]
       /\ sMap'  = [sMap EXCEPT ![o] = mp[c]]
       /\ sNode' = [sNode EXCEPT ![o] = at[c]]
  /\ Goto(c, "persist")
  /\ then' = [then EXCEPT ![c] = "snapshot"]
  /\ UNCHANGED <<cluster, files, done, raced, user, obj, at, mp, to, prof, stopping>>

(* SnapshotFor, whose error makes Login fail.  handleClient then closes    *)
(* the connection without a Logout: the session it inserted stays.         *)
SnapshotRoute(c) ==
  /\ pc[c] = "snapshot"
  /\ \/ /\ session[user[c]] = None
        /\ Finish(c, "idle")
     \/ /\ session[user[c]] # None
        /\ Goto(c, "view")
        /\ obj' = [obj EXCEPT ![c] = session[user[c]]]
        /\ at'  = [at EXCEPT ![c] = sNode[session[user[c]]]]
        /\ UNCHANGED <<user, mp, to, prof, then>>
  /\ UNCHANGED <<cluster, table, files, done, raced, stopping>>

SnapshotView(c) ==
  /\ pc[c] = "view"
  /\ Finish(c, IF Hosts(at[c], sMap[obj[c]]) THEN "receive" ELSE "idle")
  /\ UNCHANGED <<cluster, table, files, done, raced, stopping>>

-----------------------------------------------------------------------------
(* Move, Attack, Heal and BuyItem: route, change the player, save.         *)

\* sessionNode
CommandRoute(c) ==
  /\ pc[c] = "receive"
  /\ session[user[c]] # None
  /\ Goto(c, "act")
  /\ mp' = [mp EXCEPT ![c] = sMap[session[user[c]]]]
  /\ at' = [at EXCEPT ![c] = sNode[session[user[c]]]]
  /\ UNCHANGED <<cluster, table, files, done, raced, user, obj, to, prof, then, stopping>>

\* The main goroutine leaves its loop if the connection was stopped.
NextCommand(c) == IF stop[c] = "off" THEN "receive" ELSE "leave"

Present(n, m, u) == Hosts(n, m) /\ player[m][u] # None

\* The world refuses a player it does not have.
CommandRefused(c) ==
  /\ pc[c] = "act" /\ ~Present(at[c], mp[c], user[c])
  /\ Finish(c, NextCommand(c))
  /\ UNCHANGED <<cluster, table, files, done, raced, stopping>>

\* The deeds D happen to player u of map m.
Befall(m, u, D) ==
  /\ D \cap done[u] = {}
  /\ done' = [done EXCEPT ![u] = @ \cup D]
  /\ player' = [player EXCEPT ![m][u] = @ \cup D]

\* Something happens to the player, or nothing: a wall, an empty purse.
CommandAct(c) ==
  /\ pc[c] = "act" /\ Present(at[c], mp[c], user[c])
  /\ \E D \in {{}} \cup {{d} : d \in Deed} :
       /\ Befall(mp[c], user[c], D)
       /\ prof' = [prof EXCEPT ![c] = player[mp[c]][user[c]] \cup D]
  /\ Goto(c, "keep")
  /\ UNCHANGED <<owner, backup, table, files, raced, user, obj, at, mp, to, then, stopping>>

\* AttackBoss asks for the profile only, and persists the session.
BossAct(c) ==
  /\ pc[c] = "act" /\ Present(at[c], mp[c], user[c])
  /\ Goto(c, "persist")
  /\ then' = [then EXCEPT ![c] = "receive"]
  /\ UNCHANGED <<cluster, table, files, done, raced, user, obj, at, mp, to, prof, stopping>>

\* store.SaveProfile with the map of the command
Record(u, p, m) ==
  /\ saved' = [saved EXCEPT ![u] = p]
  /\ savedMap' = [savedMap EXCEPT ![u] = m]

\* SaveProfile of a command, of a switch, or of the victim of an attack.
Keep(t) ==
  /\ pc[t] = "keep"
  /\ Record(user[t], prof[t], mp[t])
  /\ Goto(t, "persist")
  /\ then' = [then EXCEPT ![t] = IF t = Rival THEN "idle" ELSE "receive"]
  /\ UNCHANGED <<cluster, table, hot, done, raced, user, obj, at, mp, to, prof, stopping>>

-----------------------------------------------------------------------------
(* persistSessionState, by a handler or by flushLoop.                      *)

\* What task t does when persistSessionState returns.
AfterPersist(t) == IF then[t] = "receive" THEN NextCommand(t) ELSE then[t]

PersistRoute(t) ==
  /\ pc[t] = "persist"
  /\ \/ /\ session[user[t]] = None
        /\ Finish(t, AfterPersist(t))
     \/ /\ session[user[t]] # None
        /\ Goto(t, "profile")
        /\ mp' = [mp EXCEPT ![t] = sMap[session[user[t]]]]
        /\ at' = [at EXCEPT ![t] = sNode[session[user[t]]]]
        /\ UNCHANGED <<user, obj, to, prof, then>>
  /\ UNCHANGED <<cluster, table, files, done, raced, stopping>>

PersistProfile(t) ==
  /\ pc[t] = "profile"
  /\ \/ /\ ~Present(at[t], mp[t], user[t])
        /\ Finish(t, AfterPersist(t))
     \/ /\ Present(at[t], mp[t], user[t])
        /\ Goto(t, "cold")
        /\ prof' = [prof EXCEPT ![t] = player[mp[t]][user[t]]]
        /\ UNCHANGED <<user, obj, at, mp, to, then>>
  /\ UNCHANGED <<cluster, table, files, done, raced, stopping>>

PersistCold(t) ==
  /\ pc[t] = "cold"
  /\ Record(user[t], prof[t], mp[t])
  /\ Goto(t, "hot")
  /\ UNCHANGED <<cluster, table, hot, done, raced, local, stopping>>

PersistHot(t) ==
  /\ pc[t] = "hot"
  /\ hot' = hot \cup {user[t]}
  /\ Finish(t, AfterPersist(t))
  /\ UNCHANGED <<cluster, table, saved, savedMap, done, raced, stopping>>

\* flushLoop took the user's name from the table, perhaps some time ago.
FlushTick(u) ==
  /\ pc[Flusher] = "idle"
  /\ session[u] # None
  /\ Goto(Flusher, "persist")
  /\ user' = [user EXCEPT ![Flusher] = u]
  /\ UNCHANGED <<cluster, table, files, done, raced, obj, at, mp, to, prof, then, stopping>>

-----------------------------------------------------------------------------
(* SwitchMap.  A player who is knocked down is refused: nothing happens.   *)

SwitchRoute(c, m) ==
  /\ pc[c] = "receive"
  /\ session[user[c]] # None
  /\ LET o == session[user[c]] IN
       /\ sMap[o] # m
       /\ obj' = [obj EXCEPT ![c] = o]
       /\ at'  = [at EXCEPT ![c] = sNode[o]]
  /\ mp' = [mp EXCEPT ![c] = m]
  /\ to' = [to EXCEPT ![c] = owner[m]]
  /\ Goto(c, "take")
  /\ UNCHANGED <<cluster, table, files, done, raced, user, prof, then, stopping>>

(* Profile, then RemovePlayer.  session.MapID is read from the object once *)
(* more, without the lock.                                                 *)
SwitchTake(c) ==
  /\ pc[c] = "take"
  /\ LET m == sMap[obj[c]]  u == user[c] IN
       \/ /\ ~Present(at[c], m, u)
          /\ Finish(c, NextCommand(c))
          /\ UNCHANGED player
       \/ /\ Present(at[c], m, u)
          /\ prof'   = [prof EXCEPT ![c] = player[m][u]]
          /\ player' = [player EXCEPT ![m][u] = None]
          /\ Goto(c, "put")
          /\ UNCHANGED <<user, obj, at, mp, to, then>>
  /\ UNCHANGED <<owner, backup, table, files, done, raced, stopping>>

SwitchPut(c) ==
  /\ pc[c] = "put"
  /\ AddPlayer(to[c], mp[c], user[c], prof[c])
  /\ Goto(c, "reroute")
  /\ UNCHANGED <<owner, backup, table, files, done, raced, local, stopping>>

(* A route is in flight from the moment the owner of a map is read until   *)
(* the session that says so is in the table and its owner is answered.     *)
InFlight(c) ==
  \/ pc[c] \in {"add", "insert", "snapshot", "view", "take", "put", "reroute"}
  \/ pc[c] \in {"persist", "profile", "cold", "hot"} /\ then[c] = "snapshot"

RoutesInFlight(C) == {user[c] : c \in {c \in C : InFlight(c)}}

\* Mutant: the node and the map are swapped.
SwitchRerouteSwapped(c) ==
  /\ pc[c] = "reroute"
  /\ sMap'  = [sMap EXCEPT ![obj[c]] = to[c]]
  /\ sNode' = [sNode EXCEPT ![obj[c]] = mp[c]]
  /\ Goto(c, "keep")
  /\ raced' = raced \cup ({user[c]} \cap RoutesInFlight(Conn \ {c}))
  /\ obj' = [obj EXCEPT ![c] = None]
  /\ UNCHANGED <<cluster, session, files, done, user, at, mp, to, prof, then, stopping>>

\* Mutant: the session's node is not updated.
SwitchRerouteNoNode(c) ==
  /\ pc[c] = "reroute"
  /\ sMap'  = [sMap EXCEPT ![obj[c]] = mp[c]]
  /\ Goto(c, "keep")
  /\ raced' = raced \cup ({user[c]} \cap RoutesInFlight(Conn \ {c}))
  /\ obj' = [obj EXCEPT ![c] = None]
  /\ UNCHANGED <<cluster, session, sNode, files, done, user, at, mp, to, prof, then, stopping>>

\* The object is updated, whether or not it is still in the table.
SwitchReroute(c) ==
  /\ pc[c] = "reroute"
  /\ sMap'  = [sMap EXCEPT ![obj[c]] = mp[c]]
  /\ sNode' = [sNode EXCEPT ![obj[c]] = to[c]]
  /\ Goto(c, "keep")
  /\ raced' = raced \cup ({user[c]} \cap RoutesInFlight(Conn \ {c}))
  /\ obj' = [obj EXCEPT ![c] = None]
  /\ UNCHANGED <<cluster, session, files, done, user, at, mp, to, prof, then, stopping>>

-----------------------------------------------------------------------------
(* stop(): Logout, once, by the main goroutine or the ticker goroutine.    *)

\* The connection breaks, or the client sends logout: the loop is left.
Leave(c) ==
  /\ pc[c] = "receive"
  /\ Goto(c, "leave")
  /\ UNCHANGED <<cluster, table, files, done, raced, local, stopping>>

\* Connection c is logged in.
Served(c) ==
  \/ pc[c] \in {"receive", "act", "keep", "take", "put", "reroute", "leave"}
  \/ pc[c] \in {"persist", "profile", "cold", "hot"} /\ then[c] = "receive"

(* The session is deleted under c.mu: whatever session the user has now.   *)
(* The main goroutine waits in conn.Receive, executes a command, or has    *)
(* left its loop.                                                          *)
LogoutDelete(c) ==
  /\ stop[c] = "off" /\ Served(c)
  /\ \/ /\ session[user[c]] = None
        /\ stop' = [stop EXCEPT ![c] = "end"]
        /\ UNCHANGED <<session, stopObj>>
     \/ /\ session[user[c]] # None
        /\ stop' = [stop EXCEPT ![c] = "remove"]
        /\ stopObj' = [stopObj EXCEPT ![c] = session[user[c]]]
        /\ session' = [session EXCEPT ![user[c]] = None]
  /\ UNCHANGED <<cluster, sMap, sNode, files, done, raced, pc, local, stopProf, stopMap>>

\* RemovePlayer, at the place the object names by now.
LogoutRemove(c) ==
  /\ stop[c] = "remove"
  /\ LET m == sMap[stopObj[c]]  n == sNode[stopObj[c]]  u == user[c] IN
       \/ /\ ~Present(n, m, u)
          /\ stop' = [stop EXCEPT ![c] = "cool"]
          /\ UNCHANGED <<player, stopProf, stopMap>>
       \/ /\ Present(n, m, u)
          /\ stop' = [stop EXCEPT ![c] = "record"]
          /\ stopProf' = [stopProf EXCEPT ![c] = player[m][u]]
          /\ stopMap'  = [stopMap EXCEPT ![c] = m]
          /\ player' = [player EXCEPT ![m][u] = None]
  /\ stopObj' = [stopObj EXCEPT ![c] = None]
  /\ UNCHANGED <<owner, backup, table, files, done, raced, pc, local>>

LogoutRecord(c) ==
  /\ stop[c] = "record"
  /\ Record(user[c], stopProf[c], stopMap[c])
  /\ stop' = [stop EXCEPT ![c] = "cool"]
  /\ stopProf' = [stopProf EXCEPT ![c] = {}]
  /\ stopMap'  = [stopMap EXCEPT ![c] = HomeMap]
  /\ UNCHANGED <<cluster, table, hot, done, raced, pc, local, stopObj>>

\* DeleteHotSession
LogoutCool(c) ==
  /\ stop[c] = "cool"
  /\ hot' = hot \ {user[c]}
  /\ stop' = [stop EXCEPT ![c] = "end"]
  /\ UNCHANGED <<cluster, table, saved, savedMap, done, raced, pc, local, stopObj, stopProf, stopMap>>

\* Mutant: the main goroutine returns without stop().
CloseUnstopped(c) ==
  /\ pc[c] = "leave" /\ stop[c] \in {"off", "end"}
  /\ Finish(c, "idle")
  /\ stop' = [stop EXCEPT ![c] = "off"]
  /\ UNCHANGED <<cluster, table, files, done, raced, stopObj, stopProf, stopMap>>

\* Once.Do returns to the main goroutine, and the connection is closed.
Close(c) ==
  /\ pc[c] = "leave" /\ stop[c] = "end"
  /\ Finish(c, "idle")
  /\ stop' = [stop EXCEPT ![c] = "off"]
  /\ UNCHANGED <<cluster, table, files, done, raced, stopObj, stopProf, stopMap>>

-----------------------------------------------------------------------------
(* The rest of the cluster.                                                *)

\* BackgroundStep: an NPC strikes player u, or he gets up again.
Affect(m, u, d) ==
  /\ player[m][u] # None
  /\ Befall(m, u, {d})
  /\ UNCHANGED <<owner, backup, table, files, raced, pc, local, stopping>>

(* The handler of another player strikes u; what it goes on to save is     *)
(* read from the world again.  Or it has killed the boss and rewards u;    *)
(* what it goes on to save is what RewardPlayer returned.                  *)
Strike(m, u, d, l) ==
  /\ pc[Rival] = "idle" /\ player[m][u] # None
  /\ Befall(m, u, {d})
  /\ Goto(Rival, l)
  /\ user' = [user EXCEPT ![Rival] = u]
  /\ mp' = [mp EXCEPT ![Rival] = m]
  /\ at' = [at EXCEPT ![Rival] = owner[m]]
  /\ prof' = [prof EXCEPT ![Rival] = IF l = "award" THEN player[m][u] \cup {d} ELSE {}]
  /\ UNCHANGED <<owner, backup, table, files, raced, obj, to, then, stopping>>

\* Attack: the victim's profile, to be kept and persisted.
VictimProfile ==
  /\ pc[Rival] = "victim"
  /\ \/ /\ ~Present(at[Rival], mp[Rival], user[Rival])
        /\ Finish(Rival, "idle")
     \/ /\ Present(at[Rival], mp[Rival], user[Rival])
        /\ Goto(Rival, "keep")
        /\ prof' = [prof EXCEPT ![Rival] = player[mp[Rival]][user[Rival]]]
        /\ UNCHANGED <<user, obj, at, mp, to, then>>
  /\ UNCHANGED <<cluster, table, files, done, raced, stopping>>

\* AttackBoss: SaveProfile of the rewarded player, at the planned map.
Award ==
  /\ pc[Rival] = "award"
  /\ Record(user[Rival], prof[Rival], mp[Rival])
  /\ Finish(Rival, "idle")
  /\ UNCHANGED <<cluster, table, hot, done, raced, stopping>>

\* A checkpoint of m reaches the file and the replica.
Checkpoint(m) ==
  /\ backup[m] # player[m]
  /\ backup' = [backup EXCEPT ![m] = player[m]]
  /\ UNCHANGED <<owner, player, table, files, done, raced, pc, local, stopping>>

\* The maps of node n that a failover can move.
Moved(n) == {m \in Map : owner[m] = n /\ backup[m] # None}

\* Mutant: the sessions of the maps stay with the failed node.
FailoverKeepSessions(n, r, S) ==
  /\ S # {} /\ S \subseteq Moved(n)
  /\ owner'  = [m \in Map |-> IF m \in S THEN r[m] ELSE owner[m]]
  /\ player' = [m \in Map |-> IF m \in S THEN backup[m] ELSE player[m]]
  /\ raced' = raced \cup RoutesInFlight(Conn)
  /\ UNCHANGED <<backup, session, sMap, sNode, files, done, pc, local, stopping>>

(* handleNodeFailure moves maps S of n to their replicas r under c.mu; the *)
(* others have no replica, or one that has nothing to go on with.          *)
(* In ClusterFailover this takes several steps; no other section under     *)
(* c.mu comes between them, and an operation on an old world in between    *)
(* comes before this one.                                                  *)
Failover(n, r, S) ==
  /\ S # {} /\ S \subseteq Moved(n)
  /\ owner'  = [m \in Map |-> IF m \in S THEN r[m] ELSE owner[m]]
  /\ player' = [m \in Map |-> IF m \in S THEN backup[m] ELSE player[m]]
  /\ sNode'  = [o \in Object |->
       IF (\E u \in User : session[u] = o) /\ sMap[o] \in S
       THEN r[sMap[o]] ELSE sNode[o]]
  /\ raced' = raced \cup RoutesInFlight(Conn)
  /\ UNCHANGED <<backup, session, sMap, files, done, pc, local, stopping>>

-----------------------------------------------------------------------------
Persist(t) == PersistRoute(t) \/ PersistProfile(t) \/ PersistCold(t) \/ PersistHot(t)

Login(c) == \/ LoginCheck(c) \/ LoginAdd(c) \/ LoginInsert(c)
            \/ SnapshotRoute(c) \/ SnapshotView(c)

Logout(c) == LogoutDelete(c) \/ LogoutRemove(c) \/ LogoutRecord(c) \/ LogoutCool(c)

Command(c) == CommandRefused(c) \/ CommandAct(c) \/ BossAct(c)

SwitchMap(c) == SwitchTake(c) \/ SwitchPut(c) \/ SwitchReroute(c)

\* What clients do.
ClientRequest ==
  \/ \E c \in Conn, u \in User : LoginAuth(c, u)
  \/ \E c \in Conn : CommandRoute(c) \/ Leave(c)
  \/ \E c \in Conn, m \in Map : SwitchRoute(c, m)

\* What the loops of the server do.
Background ==
  \/ \E u \in User : FlushTick(u)
  \/ \E m \in Map, u \in User, d \in Deed :
       Affect(m, u, d) \/ Strike(m, u, d, "victim") \/ Strike(m, u, d, "award")
  \/ \E m \in Map : Checkpoint(m)

Work ==
  \/ \E c \in Conn : Login(c) \/ Command(c) \/ SwitchMap(c) \/ Logout(c) \/ Close(c)
  \/ \E t \in Task : Keep(t) \/ Persist(t)
  \/ VictimProfile \/ Award

Failure ==
  \E n \in Node : \E r \in [Map -> Node \ {n}], S \in SUBSET Map : Failover(n, r, S)

Next ==
  \/ ClientRequest \/ Background \/ Work \/ Failure \/ Restart
  \/ \E u \in User : Register(u)

Spec == Init /\ [][Next]_vars

-----------------------------------------------------------------------------
(* Properties.                                                             *)

MaybePlayer == Content \cup {None}

TypeOK ==
  /\ owner \in [Map -> Node]
  /\ player \in [Map -> [User -> MaybePlayer]]
  /\ backup \in [Map -> [User -> MaybePlayer] \cup {None}]
  /\ session \in [User -> Object \cup {None}]
  /\ sMap \in [Object -> Map] /\ sNode \in [Object -> Node]
  /\ saved \in [User -> Content \cup {None}] /\ savedMap \in [User -> Map]
  /\ hot \subseteq User /\ raced \subseteq User
  /\ done \in [User -> Content]
  /\ pc \in [Task -> {"idle", "check", "add", "insert", "persist", "profile", "cold",
                      "hot", "snapshot", "view", "receive", "act", "keep",
                      "take", "put", "reroute", "leave", "victim", "award"}]
  /\ user \in [Task -> User \cup {None}]
  /\ obj \in [Task -> Object \cup {None}]
  /\ at \in [Task -> Node] /\ to \in [Task -> Node] /\ mp \in [Task -> Map]
  /\ prof \in [Task -> Content]
  /\ then \in [Task -> {"idle", "receive", "snapshot"}]
  /\ stop \in [Conn -> {"off", "remove", "record", "cool", "end"}]
  /\ stopObj \in [Conn -> Object \cup {None}]
  /\ stopProf \in [Conn -> Content] /\ stopMap \in [Conn -> Map]

\* Connection c will still execute Logout's removal of its user's session.
Accountable(c) == stop[c] = "off" /\ (Served(c) \/ InFlight(c))

(* A session belongs to a connection that will log it out, even when two   *)
(* connections of one user log in and out at once: otherwise the user is   *)
(* refused as online for ever.  The exception is a user one of whose       *)
(* logins or switches was in flight during a failover or during a switch   *)
(* made by another connection of his.                                      *)
SessionServed ==
  \A u \in User : session[u] # None /\ u \notin raced
    => \E c \in Conn : user[c] = u /\ Accountable(c)

(* A session is routed to the node that owns its map.  handleNodeFailure   *)
(* corrects the sessions that are in the table; only a login or a switch   *)
(* that had already read the owner can install a route that is stale.      *)
RoutedUnlessRaced ==
  \A u \in User : session[u] # None /\ u \notin raced
    => sNode[session[u]] = owner[sMap[session[u]]]

(* Whoever saves a profile, and whatever he read before, the user file,    *)
(* the worlds and the checkpoints hold nothing of a user but what happened *)
(* to him, and a name that is not in the file is nowhere in the game       *)
(* (Keep, persistSessionState, Logout, SaveProfile).                       *)
RecordsAreTrue ==
  \A u \in User :
    /\ saved[u] # None => saved[u] \subseteq done[u]
    /\ saved[u] = None => session[u] = None
    /\ \A m \in Map :
         /\ player[m][u] # None => saved[u] # None /\ player[m][u] \subseteq done[u]
         /\ backup[m] # None /\ backup[m][u] # None =>
              saved[u] # None /\ backup[m][u] \subseteq done[u]

-----------------------------------------------------------------------------
(* What the documentation promises and the code does not keep.             *)

(* "User is already online" (cluster.go:169): a user who is refused has a  *)
(* connection, be there failovers or not.                                  *)
OnlineHasConnection ==
  \A u \in User : session[u] # None
    => \E c \in Conn : user[c] = u /\ Accountable(c)

(* "At the next login the player finds the map and the state of the last   *)
(* exit" (Lab3/README.md:157): once a user has left, his file loses        *)
(* nothing of what his Logout recorded.                                    *)
OfflineFileKept ==
  [][\A u \in User : session[u] = None /\ (\A c \in Conn : user[c] # u)
       => saved[u] \in {None} \cup SUBSET saved'[u]]_vars
=============================================================================
