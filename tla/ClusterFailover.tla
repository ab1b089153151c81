-------------------------- MODULE ClusterFailover --------------------------
(***************************************************************************)
(* Map ownership, periodic checkpoints, failure detection and failover of  *)
(* the Lab3 battlefield cluster (cluster/cluster.go with storage/store.go). *)
(*                                                                         *)
(* Each map has one owner node, whose in-memory world accepts the writes,  *)
(* and one replica node, which only keeps a snapshot.  Three kinds of      *)
(* goroutine touch that state: checkpointLoop, heartbeatLoop and the       *)
(* connection handlers that execute the admin commands fail and recover.   *)
(*                                                                         *)
(* Grain of atomicity.  One action is one critical section: of the cluster *)
(* mutex c.mu, of a node's n.mu, of a world's w.mu or of the store.  The   *)
(* mutex c.mu is held across several actions only by handleNodeFailure;    *)
(* `holder' is the goroutine that executes it.  A NodeService operation    *)
(* fetches the world under n.mu and then works on it under w.mu: the two   *)
(* are one action here, because an operation that still runs on a world    *)
(* dropped by RemoveHostedMap has the effect it would have had just before *)
(* the drop.                                                               *)
(*                                                                         *)
(* Data.  The contents of a world is the set of writes it has accepted     *)
(* (its Version counts them), a checkpoint is a copy of that set.          *)
(***************************************************************************)
EXTENDS Naturals

CONSTANTS
  N,            \* number of nodes: node-a, node-b, node-c are 1, 2, 3
  Map,          \* map identifiers
  Write,        \* identifiers of the writes clients and NPCs make
  Admin,        \* handler goroutines that execute admin commands
  Checkpointer, \* the checkpointLoop goroutine
  Heartbeat,    \* the heartbeatLoop goroutine
  None,         \* an absent world, snapshot, file, replica or lock holder
  InitOwner,    \* the owner column of NewCluster's assignments
  InitReplica   \* the replica column of NewCluster's assignments

Node    == 1 .. N
Content == SUBSET Write
Proc    == Admin \cup {Checkpointer, Heartbeat}

ASSUME NAssumption    == N \in Nat \ {0}
ASSUME NoneAssumption == /\ None \notin Node /\ None \notin Proc
                         /\ \A c \in Content : c # None
ASSUME ProcAssumption == /\ Checkpointer # Heartbeat
                         /\ Checkpointer \notin Admin /\ Heartbeat \notin Admin
ASSUME PlacementAssumption ==
  /\ InitOwner \in [Map -> Node]
  /\ InitReplica \in [Map -> Node]
  /\ \A m \in Map : InitOwner[m] # InitReplica[m]

VARIABLES
  owners,     \* c.owners: the node requests for a map are routed to
  replicas,   \* c.replicas: the node that receives the map's snapshots
  healthy,    \* n.healthy
  listening,  \* n.ln # nil: the node's listener answers a ping
  world,      \* n.maps: the contents of each hosted world
  snap,       \* n.replicaSnapshots
  disk,       \* the checkpoint files of the store
  unsaved,    \* history: the maps whose file could once not be written
  issued,     \* history: the writes each map has accepted, by whatever copy of it
  holder,     \* the goroutine that executes handleNodeFailure, if any
  pc,         \* where each goroutine is
  node,       \* the node it deals with: pinged, failed or recovered
  ckOwners,   \* checkpointLoop's copy of owners
  rep,        \* checkpointLoop's and failNode's copies of replicas
  todo,       \* the maps its loop has still to visit
  cur,        \* the map it is working on, as a set
  cp,         \* the checkpoint it has captured
  alive       \* the result of heartbeatLoop's ping

routing == <<owners, replicas>>
health  == <<healthy, listening>>
data    == <<world, snap, disk, unsaved, issued>>
copies  == <<ckOwners, rep>>
work    == <<todo, cur, cp>>
vars    == <<routing, health, data, holder, pc, node, copies, work, alive>>

Hosts(n, m) == world[n][m] # None

\* c.mu is free for sections of one step.
Unlocked == holder = None

Goto(p, l) == pc' = [pc EXCEPT ![p] = l]

-----------------------------------------------------------------------------
(* Start and restart.                                                      *)

(* The worlds and snapshots NewCluster builds over checkpoint files d.     *)
(* LoadCheckpoint reports success for a missing file too, with an empty    *)
(* checkpoint that RestorePrimaryMap ignores and that StoreReplica files   *)
(* under no map.                                                           *)
BootWorld(d) == [n \in Node |-> [m \in Map |->
  IF n # InitOwner[m] THEN None ELSE IF d[m] = None THEN {} ELSE d[m]]]
BootSnap(d) == [n \in Node |-> [m \in Map |->
  IF n = InitReplica[m] THEN d[m] ELSE None]]
StartPc == [p \in Proc |-> IF p = Heartbeat THEN "ping" ELSE "idle"]

\* NewCluster followed by Start, over an empty data directory.
Init ==
  /\ owners = InitOwner /\ replicas = InitReplica
  /\ healthy = [n \in Node |-> TRUE] /\ listening = [n \in Node |-> TRUE]
  /\ disk = [m \in Map |-> None]
  /\ world = BootWorld(disk) /\ snap = BootSnap(disk)
  /\ issued = [m \in Map |-> {}] /\ unsaved = {}
  /\ holder = None
  /\ pc = StartPc
  /\ node = [p \in Proc |-> 1]
  /\ ckOwners = InitOwner /\ rep = [p \in Proc |-> InitReplica]
  /\ todo = [p \in Proc |-> {}] /\ cur = [p \in Proc |-> {}]
  /\ cp = [p \in Proc |-> {}]
  /\ alive = TRUE

\* The server process dies and is started again: only the files survive.
Restart ==
  /\ owners' = InitOwner /\ replicas' = InitReplica
  /\ healthy' = [n \in Node |-> TRUE] /\ listening' = [n \in Node |-> TRUE]
  /\ world' = BootWorld(disk) /\ snap' = BootSnap(disk)
  /\ holder' = None
  /\ pc' = StartPc
  /\ node' = [p \in Proc |-> 1]
  /\ ckOwners' = InitOwner /\ rep' = [p \in Proc |-> InitReplica]
  /\ todo' = [p \in Proc |-> {}] /\ cur' = [p \in Proc |-> {}]
  /\ cp' = [p \in Proc |-> {}]
  /\ alive' = TRUE
  /\ UNCHANGED <<disk, unsaved, issued>>

-----------------------------------------------------------------------------
(* Writes.  A handler routed to node n, by a fresh or a stale session, or  *)
(* n's BackgroundStep changes map m there if n hosts it, and only then.    *)

WorldWrite(n, m, w) ==
  /\ Hosts(n, m)
  /\ \A k \in Map : w \notin issued[k]
  /\ world'  = [world EXCEPT ![n][m] = @ \cup {w}]
  /\ issued' = [issued EXCEPT ![m] = @ \cup {w}]
  /\ UNCHANGED <<routing, health, snap, disk, unsaved, holder, pc, node, copies, work, alive>>

-----------------------------------------------------------------------------
(* Checkpointing.  checkpointLoop and failNode run the same body for each  *)
(* map: capture the world, save the file, store the replica's snapshot.    *)
(* Both work from routing tables copied earlier under c.mu.                *)

CkTick ==
  /\ pc[Checkpointer] = "idle"
  /\ Unlocked
  /\ Goto(Checkpointer, "scan")
  /\ ckOwners' = owners
  /\ rep'  = [rep EXCEPT ![Checkpointer] = replicas]
  /\ todo' = [todo EXCEPT ![Checkpointer] = Map]
  /\ UNCHANGED <<routing, health, data, holder, node, cur, cp, alive>>

\* The node p captures map m from; only checkpointLoop asks for its health.
Source(p, m)    == IF p = Checkpointer THEN ckOwners[m] ELSE node[p]
CanCapture(p, m) == /\ Hosts(Source(p, m), m)
                    /\ p = Checkpointer => healthy[Source(p, m)]

Skip(p, m) ==
  /\ pc[p] = "scan" /\ m \in todo[p]
  /\ ~CanCapture(p, m)
  /\ todo' = [todo EXCEPT ![p] = @ \ {m}]
  /\ UNCHANGED <<routing, health, data, holder, pc, node, copies, cur, cp, alive>>

\* The question about health and the capture are one step here.
Capture(p, m) ==
  /\ pc[p] = "scan" /\ m \in todo[p]
  /\ CanCapture(p, m)
  /\ Goto(p, "save")
  /\ todo' = [todo EXCEPT ![p] = @ \ {m}]
  /\ cur'  = [cur EXCEPT ![p] = {m}]
  /\ cp'   = [cp EXCEPT ![p] = world[Source(p, m)][m]]
  /\ UNCHANGED <<routing, health, data, holder, node, copies, alive>>

\* Mutant: nothing is saved before the snapshot is replicated.
SaveSkipped(p) ==
  /\ pc[p] = "save"
  /\ Goto(p, "store")
  /\ UNCHANGED <<routing, health, data, holder, node, copies, work, alive>>

Save(p) ==
  /\ pc[p] = "save"
  /\ Goto(p, "store")
  /\ disk' = [m \in Map |-> IF m \in cur[p] THEN cp[p] ELSE disk[m]]
  /\ UNCHANGED <<routing, health, world, snap, unsaved, issued, holder, node, copies, work, alive>>

(* The file could not be written: both callers drop the error and go on.   *)
(* The old file, if any, is still there, since a new one is renamed last.  *)
SaveFails(p) ==
  /\ pc[p] = "save"
  /\ Goto(p, "store")
  /\ unsaved' = unsaved \cup cur[p]
  /\ UNCHANGED <<routing, health, world, snap, disk, issued, holder, node, copies, work, alive>>

\* The snapshot goes to the replica in the copy, if that is a node.
Store(p) ==
  /\ pc[p] = "store"
  /\ Goto(p, "scan")
  /\ snap' = [n \in Node |-> [m \in Map |->
                IF m \in cur[p] /\ n = rep[p][m] THEN cp[p] ELSE snap[n][m]]]
  /\ cur' = [cur EXCEPT ![p] = {}]
  /\ cp'  = [cp EXCEPT ![p] = {}]
  /\ UNCHANGED <<routing, health, world, disk, unsaved, issued, holder, node, copies, todo, alive>>

CkEnd ==
  /\ pc[Checkpointer] = "scan" /\ todo[Checkpointer] = {}
  /\ Goto(Checkpointer, "idle")
  /\ ckOwners' = InitOwner   \* the copies are dead: forget them
  /\ rep' = [rep EXCEPT ![Checkpointer] = InitReplica]
  /\ UNCHANGED <<routing, health, data, holder, node, work, alive>>

-----------------------------------------------------------------------------
(* handleNodeFailure(node[p]), executed by heartbeatLoop or a handler p.   *)

\* Mutant: the new owner may be picked as its own replica.
PickReplicaAny(o) ==
  LET up == {n \in Node : healthy[n]}
  IN  IF up = {} THEN {None} ELSE {n \in up : \A k \in up : n <= k}

\* pickReplicaLocked: the least healthy node other than the owner, if any.
PickReplica(o) ==
  LET up == {n \in Node : n # o /\ healthy[n]}
  IN  IF up = {} THEN {None} ELSE {n \in up : \A k \in up : n <= k}

FoStart(p) ==
  /\ pc[p] = "lock"
  /\ Unlocked
  /\ Goto(p, "failover")
  /\ holder' = p
  /\ todo' = [todo EXCEPT ![p] = {m \in Map : owners[m] = node[p]}]
  /\ UNCHANGED <<routing, health, data, node, copies, cur, cp, alive>>

(* What the replica of m would be promoted from: its own snapshot, or else *)
(* the checkpoint file, which the fallback first stores as its snapshot.   *)
PromotionSource(m) ==
  IF replicas[m] = None THEN None
  ELSE IF snap[replicas[m]][m] # None THEN snap[replicas[m]][m] ELSE disk[m]

\* No replica, or no snapshot and no file: the map stays where it is.
FoSkip(p, m) ==
  /\ pc[p] = "failover" /\ cur[p] = {} /\ m \in todo[p]
  /\ PromotionSource(m) = None
  /\ todo' = [todo EXCEPT ![p] = @ \ {m}]
  /\ UNCHANGED <<routing, health, data, holder, pc, node, copies, cur, cp, alive>>

\* Promote: the replica turns its snapshot into a world and drops it.
FoPromote(p, m) ==
  /\ pc[p] = "failover" /\ cur[p] = {} /\ m \in todo[p]
  /\ PromotionSource(m) # None
  /\ world' = [world EXCEPT ![replicas[m]][m] = PromotionSource(m)]
  /\ snap'  = [snap EXCEPT ![replicas[m]][m] = None]
  /\ cur'   = [cur EXCEPT ![p] = {m}]
  /\ UNCHANGED <<routing, health, disk, unsaved, issued, holder, pc, node, copies, todo, cp, alive>>

\* Mutant: RemoveHostedMap on the node that was just promoted.
FoRerouteWrongHost(p, m) ==
  /\ pc[p] = "failover" /\ m \in cur[p]
  /\ owners' = [owners EXCEPT ![m] = replicas[m]]
  /\ \E r \in PickReplica(replicas[m]) : replicas' = [replicas EXCEPT ![m] = r]
  /\ world' = [world EXCEPT ![replicas[m]][m] = None]
  /\ cur'   = [cur EXCEPT ![p] = {}]
  /\ todo'  = [todo EXCEPT ![p] = @ \ {m}]
  /\ UNCHANGED <<health, snap, disk, unsaved, issued, holder, pc, node, copies, cp, alive>>

\* Mutant: the failed node keeps its world.
FoRerouteKeepOld(p, m) ==
  /\ pc[p] = "failover" /\ m \in cur[p]
  /\ owners' = [owners EXCEPT ![m] = replicas[m]]
  /\ \E r \in PickReplica(replicas[m]) : replicas' = [replicas EXCEPT ![m] = r]
  /\ cur'   = [cur EXCEPT ![p] = {}]
  /\ todo'  = [todo EXCEPT ![p] = @ \ {m}]
  /\ UNCHANGED <<health, data, holder, pc, node, copies, cp, alive>>

\* The routing tables follow, and RemoveHostedMap drops the old world.
FoReroute(p, m) ==
  /\ pc[p] = "failover" /\ m \in cur[p]
  /\ owners' = [owners EXCEPT ![m] = replicas[m]]
  /\ \E r \in PickReplica(replicas[m]) : replicas' = [replicas EXCEPT ![m] = r]
  /\ world' = [world EXCEPT ![node[p]][m] = None]
  /\ cur'   = [cur EXCEPT ![p] = {}]
  /\ todo'  = [todo EXCEPT ![p] = @ \ {m}]
  /\ UNCHANGED <<health, snap, disk, unsaved, issued, holder, pc, node, copies, cp, alive>>

-----------------------------------------------------------------------------
(* heartbeatLoop: ping a node, record the result, fail it over if it was   *)
(* healthy until then; then the next node, and the first one after a tick. *)

\* Mutant: the round does not wrap around.
NextNodeNoWrap(n) == n + 1

NextNode(n) == IF n = N THEN 1 ELSE n + 1

\* A round begins with a list of the nodes, made under c.mu.
ListsNodes == node[Heartbeat] = 1 => Unlocked

HbPing ==
  /\ pc[Heartbeat] = "ping" /\ ListsNodes
  /\ Goto(Heartbeat, "set")
  /\ alive' = listening[node[Heartbeat]]
  /\ UNCHANGED <<routing, health, data, holder, node, copies, work>>

\* A node that listens may still be too slow for the 250 ms of the dial.
HbTimeout ==
  /\ pc[Heartbeat] = "ping" /\ ListsNodes
  /\ listening[node[Heartbeat]]
  /\ Goto(Heartbeat, "set")
  /\ alive' = FALSE
  /\ UNCHANGED <<routing, health, data, holder, node, copies, work>>

\* Mutant: an unanswered ping is not recorded.
HbSetOnlyUp ==
  /\ pc[Heartbeat] = "set"
  /\ LET n == node[Heartbeat]  failed == FALSE IN
       /\ healthy' = [healthy EXCEPT ![n] = @ \/ alive]
       /\ Goto(Heartbeat, IF failed THEN "lock" ELSE "ping")
       /\ node' = [node EXCEPT ![Heartbeat] = IF failed THEN n ELSE NextNode(n)]
  /\ alive' = TRUE
  /\ UNCHANGED <<routing, listening, data, holder, copies, work>>

\* SetHealthy, and the test of the value it returns.
HbSet ==
  /\ pc[Heartbeat] = "set"
  /\ LET n == node[Heartbeat]  failed == healthy[n] /\ ~alive IN
       /\ healthy' = [healthy EXCEPT ![n] = alive]
       /\ Goto(Heartbeat, IF failed THEN "lock" ELSE "ping")
       /\ node' = [node EXCEPT ![Heartbeat] = IF failed THEN n ELSE NextNode(n)]
  /\ alive' = TRUE
  /\ UNCHANGED <<routing, listening, data, holder, copies, work>>

\* Mutant: the maps that could not be moved are tried again at once.
HbEndRetry ==
  /\ pc[Heartbeat] = "failover" /\ todo[Heartbeat] = {}
  /\ LET n == node[Heartbeat]  left == {m \in Map : owners[m] = n} IN
       /\ todo' = [todo EXCEPT ![Heartbeat] = left]
       /\ Goto(Heartbeat, IF left # {} THEN "failover" ELSE "ping")
       /\ holder' = IF left # {} THEN Heartbeat ELSE None
       /\ node' = [node EXCEPT ![Heartbeat] = IF left # {} THEN n ELSE NextNode(n)]
  /\ UNCHANGED <<routing, health, data, copies, cur, cp, alive>>

HbEnd ==
  /\ pc[Heartbeat] = "failover" /\ todo[Heartbeat] = {}
  /\ Goto(Heartbeat, "ping")
  /\ holder' = None
  /\ node' = [node EXCEPT ![Heartbeat] = NextNode(@)]
  /\ UNCHANGED <<routing, health, data, copies, work, alive>>

-----------------------------------------------------------------------------
(* failNode(n), in a handler goroutine a.                                  *)

FailCopy(a, n) ==
  /\ pc[a] = "idle"
  /\ Unlocked
  /\ Goto(a, "view")
  /\ node' = [node EXCEPT ![a] = n]
  /\ rep'  = [rep EXCEPT ![a] = replicas]
  /\ UNCHANGED <<routing, health, data, holder, ckOwners, work, alive>>

\* Mutant: the maps the node replicates instead of those it hosts.
FailViewReplicas(a) ==
  /\ pc[a] = "view"
  /\ Goto(a, "scan")
  /\ todo' = [todo EXCEPT ![a] = {m \in Map : snap[node[a]][m] # None}]
  /\ UNCHANGED <<routing, health, data, holder, node, copies, cur, cp, alive>>

\* node.View().PrimaryMaps
FailView(a) ==
  /\ pc[a] = "view"
  /\ Goto(a, "scan")
  /\ todo' = [todo EXCEPT ![a] = {m \in Map : Hosts(node[a], m)}]
  /\ UNCHANGED <<routing, health, data, holder, node, copies, cur, cp, alive>>

(* Stop: it closes the listener and clears healthy, unless already         *)
(* stopped.  That closing fails, and fail returns without a failover, is   *)
(* left out; so is a recover that cannot listen.                           *)
FailStop(a) ==
  /\ pc[a] = "scan" /\ todo[a] = {}
  /\ Goto(a, "mark")
  /\ listening' = [listening EXCEPT ![node[a]] = FALSE]
  /\ healthy'   = [healthy EXCEPT ![node[a]] = @ /\ ~listening[node[a]]]
  /\ UNCHANGED <<routing, data, holder, node, copies, work, alive>>

FailMark(a) ==
  /\ pc[a] = "mark"
  /\ Goto(a, "lock")
  /\ healthy' = [healthy EXCEPT ![node[a]] = FALSE]
  /\ UNCHANGED <<routing, listening, data, holder, node, copies, work, alive>>

FailEnd(a) ==
  /\ pc[a] = "failover" /\ todo[a] = {}
  /\ Goto(a, "tell")
  /\ holder' = None
  /\ node' = [node EXCEPT ![a] = 1]
  /\ rep'  = [rep EXCEPT ![a] = InitReplica]
  /\ UNCHANGED <<routing, health, data, ckOwners, work, alive>>

-----------------------------------------------------------------------------
(* recoverNode(n), in a handler goroutine a.                               *)

\* node.Start: nothing if it already listens.
RecoverStart(a, n) ==
  /\ pc[a] = "idle"
  /\ Unlocked
  /\ Goto(a, "recmark")
  /\ node' = [node EXCEPT ![a] = n]
  /\ listening' = [listening EXCEPT ![n] = TRUE]
  /\ healthy'   = [healthy EXCEPT ![n] = @ \/ ~listening[n]]
  /\ UNCHANGED <<routing, data, holder, copies, work, alive>>

RecoverMark(a) ==
  /\ pc[a] = "recmark"
  /\ Goto(a, "reload")
  /\ healthy' = [healthy EXCEPT ![node[a]] = TRUE]
  /\ UNCHANGED <<routing, listening, data, holder, node, copies, work, alive>>

\* Mutant: the node also reloads the maps it hosts from their files.
RecoverReloadHosted(a) ==
  /\ pc[a] = "reload"
  /\ Unlocked
  /\ Goto(a, "tell")
  /\ replicas' = [m \in Map |-> IF owners[m] = node[a] THEN replicas[m] ELSE node[a]]
  /\ snap' = [n \in Node |-> [m \in Map |->
                IF n = node[a] /\ owners[m] # n /\ disk[m] # None
                THEN disk[m] ELSE snap[n][m]]]
  /\ world' = [n \in Node |-> [m \in Map |->
                 IF n = node[a] /\ Hosts(n, m) /\ disk[m] # None
                 THEN disk[m] ELSE world[n][m]]]
  /\ node' = [node EXCEPT ![a] = 1]
  /\ UNCHANGED <<owners, health, disk, unsaved, issued, holder, copies, work, alive>>

(* Under c.mu the node becomes the replica of every map it does not own.   *)
(* Where there is no file the empty checkpoint is stored under no map, and *)
(* the node is made replica all the same.                                  *)
RecoverReload(a) ==
  /\ pc[a] = "reload"
  /\ Unlocked
  /\ Goto(a, "tell")
  /\ replicas' = [m \in Map |-> IF owners[m] = node[a] THEN replicas[m] ELSE node[a]]
  /\ snap' = [n \in Node |-> [m \in Map |->
                IF n = node[a] /\ owners[m] # n /\ disk[m] # None
                THEN disk[m] ELSE snap[n][m]]]
  /\ node' = [node EXCEPT ![a] = 1]
  /\ UNCHANGED <<owners, health, world, disk, unsaved, issued, holder, copies, work, alive>>

\* broadcastGlobalEvent, under c.mu, ends fail and recover.
AdminTell(a) ==
  /\ pc[a] = "tell"
  /\ Unlocked
  /\ Goto(a, "idle")
  /\ UNCHANGED <<routing, health, data, holder, node, copies, work, alive>>

-----------------------------------------------------------------------------
Replication(p) == Save(p) \/ Store(p) \/ \E m \in Map : Skip(p, m) \/ Capture(p, m)

Failover(p) == FoStart(p) \/ \E m \in Map : FoSkip(p, m) \/ FoPromote(p, m) \/ FoReroute(p, m)

CheckpointStep == CkTick \/ CkEnd \/ Replication(Checkpointer)

HeartbeatStep == HbPing \/ HbSet \/ HbEnd \/ Failover(Heartbeat)

\* The further steps of a command that was started.
AdminStep(a) ==
  \/ FailView(a) \/ Replication(a) \/ FailStop(a) \/ FailMark(a)
  \/ Failover(a) \/ FailEnd(a)
  \/ RecoverMark(a) \/ RecoverReload(a) \/ AdminTell(a)

Routine ==
  \/ \E n \in Node, m \in Map, w \in Write : WorldWrite(n, m, w)
  \/ CheckpointStep
  \/ HeartbeatStep
  \/ \E a \in Admin : AdminStep(a)

\* What the environment does to the cluster: nothing obliges it to.
Fault ==
  \/ Restart
  \/ HbTimeout
  \/ \E p \in Proc : SaveFails(p)
  \/ \E a \in Admin, n \in Node : FailCopy(a, n) \/ RecoverStart(a, n)

Next == Routine \/ Fault

Spec == Init /\ [][Next]_vars

(***************************************************************************)
(* Every goroutine keeps running; a Go mutex starves nobody, so a          *)
(* goroutine that waits for c.mu, which others take and release, gets it:  *)
(* that is why fairness is strong.                                         *)
(***************************************************************************)
Fairness ==
  /\ SF_vars(HeartbeatStep) /\ SF_vars(CheckpointStep)
  /\ \A a \in Admin : SF_vars(AdminStep(a))

-----------------------------------------------------------------------------
(* Properties.                                                             *)

MaybeContent == Content \cup {None}
MaybeNode    == Node \cup {None}

TypeOK ==
  /\ owners \in [Map -> Node]
  /\ replicas \in [Map -> MaybeNode]
  /\ healthy \in [Node -> BOOLEAN]
  /\ listening \in [Node -> BOOLEAN]
  /\ world \in [Node -> [Map -> MaybeContent]]
  /\ snap \in [Node -> [Map -> MaybeContent]]
  /\ disk \in [Map -> MaybeContent]
  /\ unsaved \subseteq Map /\ issued \in [Map -> Content]
  /\ holder \in Proc \cup {None}
  /\ pc \in [Proc -> {"idle", "scan", "save", "store", "ping", "set", "lock",
                      "failover", "view", "mark", "recmark", "reload", "tell"}]
  /\ node \in [Proc -> Node]
  /\ ckOwners \in [Map -> Node]
  /\ rep \in [Proc -> [Map -> MaybeNode]]
  /\ todo \in [Proc -> SUBSET Map]
  /\ cur \in [Proc -> SUBSET Map]
  /\ cp \in [Proc -> Content]
  /\ alive \in BOOLEAN

(* The node that requests for a map are routed to hosts the map, also in   *)
(* the middle of a failover: handleNodeFailure promotes the replica first, *)
(* reroutes second and removes the old world last.                         *)
OwnerHosts == \A m \in Map : Hosts(owners[m], m)

\* handleNodeFailure is between Promote and RemoveHostedMap of map m.
Promoting(m) == \E p \in Proc : pc[p] = "failover" /\ m \in cur[p]

(* A map is hosted, hence writable, at its owner only; while               *)
(* handleNodeFailure is between Promote and RemoveHostedMap the promoted   *)
(* replica hosts it as well.  In particular a node that was failed over    *)
(* and comes back holds no second copy.                                    *)
SingleWriter ==
  \A m \in Map, n \in Node :
    Hosts(n, m) => n = owners[m] \/ (Promoting(m) /\ n = replicas[m])

(* A map's replica is never its owner, so losing one node loses only one   *)
(* of the two, and Promote never rolls the owner's own world back.         *)
ReplicaElsewhere == \A m \in Map : replicas[m] # owners[m]

(* A copy of a map exists outside its first owner only after a checkpoint  *)
(* file of the map exists: SaveCheckpoint comes before StoreReplica.  So   *)
(* a restart never starts a map that was replicated or moved from blank,   *)
(* unless its file could not be written: then the copy is all there is.    *)
DurableBeforeShared ==
  \A m \in Map :
    disk[m] = None => \/ m \in unsaved
                      \/ /\ owners[m] = InitOwner[m]
                         /\ \A n \in Node : snap[n][m] = None

(* fail leaves nothing behind: when the handleNodeFailure of an admin      *)
(* command is about to return, a map still owned by the failed node is one *)
(* that has no replica at all, or whose file could once not be written:    *)
(* the checkpoint file makes the fallback of the promotion succeed,        *)
(* whatever else ran between its steps.                                    *)
NothingLeftBehind ==
  \A a \in Admin : pc[a] = "failover" /\ todo[a] = {}
    => \A m \in Map : owners[m] = node[a] => replicas[m] = None \/ m \in unsaved

\* What clients see of a map.
Live(m) == world[owners[m]][m]

(* Accepted writes disappear from a map only when its owner changes or the *)
(* process restarts: no checkpoint, replication or recovery step rolls the *)
(* world that clients are using back in place.                             *)
RolledBackOnlyByFailover ==
  [][\A m \in Map :
       Live(m) \subseteq Live(m)' \/ owners'[m] # owners[m] \/ Restart]_vars

Service == INSTANCE MapService WITH
  owner <- owners, live <- [m \in Map |-> Live(m)], file <- disk, accepted <- issued

(* While the server runs, players see maps that change by their own writes *)
(* and by being moved, and nothing else: no checkpoint, replication,       *)
(* heartbeat or recovery rolls back the copy they play on, or has writes   *)
(* of one map turn up in another.  Only a restart is a Reboot.             *)
ImplementsMapService ==
  Service!Init /\ [][Service!Next \/ (Restart /\ Service!Reboot)]_(Service!vars)

(* heartbeatLoop eventually notices a node that is marked healthy and does *)
(* not listen, for example because a ping result was recorded after Stop.  *)
FailureDetected ==
  \A n \in Node : (healthy[n] /\ ~listening[n]) ~> (~healthy[n] \/ listening[n])

\* Every admin command returns: its handler never waits for c.mu for ever.
AdminCommandReturns == \A a \in Admin : pc[a] # "idle" ~> pc[a] = "idle"

-----------------------------------------------------------------------------
(* What the documentation promises and the code does not keep.             *)

(* "Once a main node fails ... take over on the replica node"              *)
(* (Lab3/README.md:221): the node a map is moved to is able to serve it.   *)
PromotesHealthyNode ==
  [][\A m \in Map : owners'[m] # owners[m] => healthy[owners'[m]] \/ Restart]_vars

(* "Read the latest checkpoint to restore the map" (Lab3/README.md:221):   *)
(* what is promoted includes everything the checkpoint file has, at least  *)
(* when no checkpoint and no admin command is in progress.                 *)
PromotesLatestCheckpoint ==
  [][\A p \in Proc, m \in Map :
       (FoPromote(p, m) /\ \A q \in Proc \ {p} : pc[q] \in {"idle", "ping"})
         => disk[m] = None \/ disk[m] \subseteq world'[replicas[m]][m]]_vars
=============================================================================
