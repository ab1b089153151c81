----------------------- MODULE ClusterFailover_proofs -----------------------
(***************************************************************************)
(* Proofs about ClusterFailover, for every number of nodes, every set of   *)
(* maps, writes and admin handlers and every initial placement.            *)
(***************************************************************************)
EXTENDS ClusterFailover, TLAPS

(* The strengthening that makes the routing invariants inductive: the      *)
(* goroutine in handleNodeFailure is the one that holds c.mu, its work     *)
(* list has only maps of the failed node, and the map it is promoting is   *)
(* already hosted by the replica.                                          *)
LockHeld == \A p \in Proc : pc[p] = "failover" => holder = p

Progress(p) ==
  /\ pc[p] \notin {"save", "store", "failover"} => cur[p] = {}
  /\ pc[p] = "failover" =>
       /\ \A m \in todo[p] : owners[m] = node[p]
       /\ cur[p] \subseteq todo[p]
       /\ \A k, m \in cur[p] : k = m
       /\ \A m \in cur[p] : replicas[m] \in Node /\ Hosts(replicas[m], m)

RoutingInv ==
  /\ LockHeld
  /\ \A p \in Proc : Progress(p)
  /\ OwnerHosts
  /\ SingleWriter
  /\ ReplicaElsewhere

(* Every step keeps every variable in its type; that a map is rerouted to  *)
(* a node and never to None is where the routing invariant is needed.      *)
LEMMA TypeStep == TypeOK /\ RoutingInv /\ [Next]_vars => TypeOK'
<1> SUFFICES ASSUME TypeOK, RoutingInv, [Next]_vars PROVE TypeOK'
  OBVIOUS
<1> USE NAssumption, NoneAssumption, ProcAssumption, PlacementAssumption
    DEF TypeOK, MaybeContent, MaybeNode, Node, Content, Proc, Hosts, Goto, routing, health, data, copies, work
<1>0. CASE UNCHANGED vars
  BY <1>0 DEF vars
<1>1. CASE Restart
  BY <1>1 DEF Restart, BootWorld, BootSnap, StartPc
<1>2. ASSUME NEW n \in Node, NEW m \in Map, NEW w \in Write, WorldWrite(n, m, w)
      PROVE  TypeOK'
  <2>1. world' \in [Node -> [Map -> MaybeContent]]
    BY <1>2 DEF WorldWrite
  <2>2. issued' \in [Map -> Content]
    BY <1>2 DEF WorldWrite
  <2> QED
    BY <1>2, <2>1, <2>2 DEF WorldWrite
<1>3. CASE CkTick
  BY <1>3 DEF CkTick
<1>4. CASE CkEnd
  BY <1>4 DEF CkEnd
<1>5. CASE HbPing
  BY <1>5 DEF HbPing
<1>6. CASE HbTimeout
  BY <1>6 DEF HbTimeout
<1>7. CASE HbSet
  BY <1>7 DEF HbSet, NextNode
<1>8. CASE HbEnd
  BY <1>8 DEF HbEnd, NextNode
<1>9. ASSUME NEW p \in Proc, Save(p)
      PROVE  TypeOK'
  BY <1>9 DEF Save
<1>10. ASSUME NEW p \in Proc, Store(p)
      PROVE  TypeOK'
  BY <1>10 DEF Store
<1>11. ASSUME NEW p \in Proc, NEW m \in Map, Skip(p, m)
      PROVE  TypeOK'
  BY <1>11 DEF Skip
<1>12. ASSUME NEW p \in Proc, NEW m \in Map, Capture(p, m)
      PROVE  TypeOK'
  BY <1>12 DEF Capture, CanCapture, Source
<1>13. ASSUME NEW p \in Proc, FoStart(p)
      PROVE  TypeOK'
  BY <1>13 DEF FoStart
<1>14. ASSUME NEW p \in Proc, NEW m \in Map, FoSkip(p, m)
      PROVE  TypeOK'
  BY <1>14 DEF FoSkip, PromotionSource
<1>15. ASSUME NEW p \in Proc, NEW m \in Map, FoPromote(p, m)
      PROVE  TypeOK'
  BY <1>15 DEF FoPromote, PromotionSource
<1>16. ASSUME NEW p \in Proc, NEW m \in Map, FoReroute(p, m)
      PROVE  TypeOK'
  <2>1. PICK r \in PickReplica(replicas[m]) : replicas' = [replicas EXCEPT ![m] = r]
    BY <1>16 DEF FoReroute
  <2>2. r \in MaybeNode
    BY <2>1 DEF PickReplica
  <2>3. replicas[m] \in Node
    BY <1>16 DEF FoReroute, RoutingInv, Progress
  <2> QED
    BY <1>16, <2>1, <2>2, <2>3 DEF FoReroute
<1>17. ASSUME NEW a \in Admin, NEW n \in Node, FailCopy(a, n)
      PROVE  TypeOK'
  BY <1>17 DEF FailCopy
<1>18. ASSUME NEW a \in Admin, FailView(a)
      PROVE  TypeOK'
  BY <1>18 DEF FailView
<1>19. ASSUME NEW a \in Admin, FailStop(a)
      PROVE  TypeOK'
  BY <1>19 DEF FailStop
<1>20. ASSUME NEW a \in Admin, FailMark(a)
      PROVE  TypeOK'
  BY <1>20 DEF FailMark
<1>21. ASSUME NEW a \in Admin, FailEnd(a)
      PROVE  TypeOK'
  BY <1>21 DEF FailEnd
<1>22. ASSUME NEW a \in Admin, NEW n \in Node, RecoverStart(a, n)
      PROVE  TypeOK'
  BY <1>22 DEF RecoverStart
<1>23. ASSUME NEW a \in Admin, RecoverMark(a)
      PROVE  TypeOK'
  BY <1>23 DEF RecoverMark
<1>24. ASSUME NEW a \in Admin, RecoverReload(a)
      PROVE  TypeOK'
  BY <1>24 DEF RecoverReload
<1>25. ASSUME NEW p \in Proc, SaveFails(p)
      PROVE  TypeOK'
  BY <1>25 DEF SaveFails
<1>26. ASSUME NEW a \in Admin, AdminTell(a)
      PROVE  TypeOK'
  BY <1>26 DEF AdminTell
<1> QED
  BY <1>0, <1>1, <1>2, <1>3, <1>4, <1>5, <1>6, <1>7, <1>8, <1>9, <1>10, <1>11, <1>12, <1>13, <1>14, <1>15, <1>16, <1>17, <1>18, <1>19, <1>20, <1>21, <1>22, <1>23, <1>24, <1>25, <1>26
  DEF Next, Routine, Fault, CheckpointStep, HeartbeatStep, AdminStep, Replication, Failover

(* A step that leaves the routing, the worlds, the lock and the goroutine  *)
(* in handleNodeFailure alone keeps the routing invariant.                 *)
FailoverUntouched ==
  /\ UNCHANGED <<owners, replicas, world, holder>>
  /\ \A p \in Proc :
       /\ pc'[p] = "failover" <=> pc[p] = "failover"
       /\ pc[p] = "failover" =>
            todo'[p] = todo[p] /\ cur'[p] = cur[p] /\ node'[p] = node[p]
       /\ pc'[p] \notin {"save", "store", "failover"} => cur'[p] = {}

LEMMA RoutingFrame == TypeOK /\ RoutingInv /\ FailoverUntouched => RoutingInv'
<1> SUFFICES ASSUME TypeOK, RoutingInv, FailoverUntouched PROVE RoutingInv'
  OBVIOUS
<1> USE DEF RoutingInv, FailoverUntouched
<1>1. LockHeld'
  BY DEF LockHeld
<1>2. OwnerHosts' /\ ReplicaElsewhere'
  BY DEF OwnerHosts, ReplicaElsewhere, Hosts
<1>3. \A m \in Map : Promoting(m)' <=> Promoting(m)
  BY DEF Promoting
<1>4. SingleWriter'
  BY <1>3 DEF SingleWriter, Hosts
<1>5. ASSUME NEW p \in Proc PROVE Progress(p)'
  <2>1. CASE pc[p] = "failover"
    BY <2>1 DEF Progress, Hosts
  <2>2. CASE pc[p] # "failover"
    BY <2>2 DEF Progress
  <2> QED
    BY <2>1, <2>2
<1> QED
  BY <1>1, <1>2, <1>4, <1>5

(* Every step keeps the routing invariant.                                 *)
LEMMA RoutingStep == TypeOK /\ RoutingInv /\ [Next]_vars => RoutingInv'
<1> SUFFICES ASSUME TypeOK, RoutingInv, [Next]_vars PROVE RoutingInv'
  OBVIOUS
<1> USE NAssumption, NoneAssumption, ProcAssumption, PlacementAssumption
    DEF TypeOK, MaybeContent, MaybeNode, Node, Content, Proc, RoutingInv, LockHeld, Progress,
        OwnerHosts, SingleWriter, ReplicaElsewhere, Promoting, Hosts, Unlocked, Goto, routing, health, data, copies, work
<1>0. CASE UNCHANGED vars
  <2>1. FailoverUntouched
    BY <1>0 DEF FailoverUntouched, vars
  <2> QED
    BY <2>1, RoutingFrame
<1>1. CASE Restart
  BY <1>1 DEF Restart, BootWorld, BootSnap, StartPc
<1>2. ASSUME NEW n \in Node, NEW m \in Map, NEW w \in Write, WorldWrite(n, m, w)
      PROVE  RoutingInv'
  BY <1>2 DEF WorldWrite
<1>3. CASE CkTick
  <2>1. FailoverUntouched
    BY <1>3 DEF FailoverUntouched, CkTick
  <2> QED
    BY <2>1, RoutingFrame
<1>4. CASE CkEnd
  <2>1. FailoverUntouched
    BY <1>4 DEF FailoverUntouched, CkEnd
  <2> QED
    BY <2>1, RoutingFrame
<1>5. CASE HbPing
  <2>1. FailoverUntouched
    BY <1>5 DEF FailoverUntouched, HbPing
  <2> QED
    BY <2>1, RoutingFrame
<1>6. CASE HbTimeout
  <2>1. FailoverUntouched
    BY <1>6 DEF FailoverUntouched, HbTimeout
  <2> QED
    BY <2>1, RoutingFrame
<1>7. CASE HbSet
  <2>1. FailoverUntouched
    BY <1>7 DEF FailoverUntouched, HbSet, NextNode
  <2> QED
    BY <2>1, RoutingFrame
<1>8. CASE HbEnd
  BY <1>8 DEF HbEnd, NextNode
<1>9. ASSUME NEW p \in Proc, Save(p)
      PROVE  RoutingInv'
  <2>1. FailoverUntouched
    BY <1>9 DEF FailoverUntouched, Save
  <2> QED
    BY <2>1, RoutingFrame
<1>10. ASSUME NEW p \in Proc, Store(p)
      PROVE  RoutingInv'
  <2>1. FailoverUntouched
    BY <1>10 DEF FailoverUntouched, Store
  <2> QED
    BY <2>1, RoutingFrame
<1>11. ASSUME NEW p \in Proc, NEW m \in Map, Skip(p, m)
      PROVE  RoutingInv'
  <2>1. FailoverUntouched
    BY <1>11 DEF FailoverUntouched, Skip
  <2> QED
    BY <2>1, RoutingFrame
<1>12. ASSUME NEW p \in Proc, NEW m \in Map, Capture(p, m)
      PROVE  RoutingInv'
  <2>1. FailoverUntouched
    BY <1>12 DEF FailoverUntouched, Capture, CanCapture, Source
  <2> QED
    BY <2>1, RoutingFrame
<1>13. ASSUME NEW p \in Proc, FoStart(p)
      PROVE  RoutingInv'
  <2>1. /\ holder' = p /\ pc' = [pc EXCEPT ![p] = "failover"] /\ pc[p] = "lock"
        /\ todo' = [todo EXCEPT ![p] = {m \in Map : owners[m] = node[p]}]
        /\ UNCHANGED <<owners, replicas, world, node, cur>>
    BY <1>13 DEF FoStart
  <2>2. \A q \in Proc : pc[q] # "failover"
    BY <1>13 DEF FoStart
  <2>3. LockHeld'
    BY <2>1, <2>2
  <2>4. \A q \in Proc : Progress(q)'
    BY <2>1, <2>2
  <2>5. OwnerHosts' /\ ReplicaElsewhere'
    BY <2>1
  <2>6. SingleWriter'
    BY <2>1, <2>2
  <2> QED
    BY <2>3, <2>4, <2>5, <2>6
<1>14. ASSUME NEW p \in Proc, NEW m \in Map, FoSkip(p, m)
      PROVE  RoutingInv'
  BY <1>14 DEF FoSkip, PromotionSource
<1>15. ASSUME NEW p \in Proc, NEW m \in Map, FoPromote(p, m)
      PROVE  RoutingInv'
  BY <1>15 DEF FoPromote, PromotionSource
<1>16. ASSUME NEW p \in Proc, NEW m \in Map, FoReroute(p, m)
      PROVE  RoutingInv'
  <2>1. PICK r \in PickReplica(replicas[m]) : replicas' = [replicas EXCEPT ![m] = r]
    BY <1>16 DEF FoReroute
  <2>2. r # replicas[m]
    BY <2>1, <1>16 DEF PickReplica, FoReroute
  <2>3. /\ m \in todo[p] /\ owners[m] = node[p] /\ holder = p
        /\ replicas[m] \in Node /\ Hosts(replicas[m], m) /\ replicas[m] # node[p]
    BY <1>16 DEF FoReroute
  <2>4. \A q \in Proc : q # p => pc[q] # "failover"
    BY <2>3
  <2>5. /\ owners' = [owners EXCEPT ![m] = replicas[m]]
        /\ world' = [world EXCEPT ![node[p]][m] = None]
        /\ cur' = [cur EXCEPT ![p] = {}] /\ todo' = [todo EXCEPT ![p] = @ \ {m}]
        /\ UNCHANGED <<holder, pc, node>> /\ pc[p] = "failover"
    BY <1>16 DEF FoReroute
  <2>6. LockHeld'
    BY <2>5
  <2>7. \A q \in Proc : Progress(q)'
    BY <2>3, <2>4, <2>5
  <2>8. OwnerHosts'
    BY <2>3, <2>5
  <2>9. ReplicaElsewhere'
    BY <2>1, <2>2, <2>3, <2>5
  <2>10. SingleWriter'
    <3> SUFFICES ASSUME NEW k \in Map, NEW n \in Node, Hosts(n, k)'
                 PROVE  n = owners'[k]
      BY DEF SingleWriter
    <3>1. CASE k = m
      <4>1. n # node[p] /\ Hosts(n, m)
        BY <2>3, <2>5, <3>1
      <4> QED
        BY <2>3, <2>5, <3>1, <4>1
    <3>2. CASE k # m
      <4>1. Hosts(n, k) /\ owners'[k] = owners[k]
        BY <2>3, <2>5, <3>2
      <4>2. ~Promoting(k)
        BY <1>16, <2>4, <3>2 DEF FoReroute
      <4> QED
        BY <4>1, <4>2
    <3> QED
      BY <3>1, <3>2
  <2> QED
    BY <2>6, <2>7, <2>8, <2>9, <2>10
<1>17. ASSUME NEW a \in Admin, NEW n \in Node, FailCopy(a, n)
      PROVE  RoutingInv'
  <2>1. FailoverUntouched
    BY <1>17 DEF FailoverUntouched, FailCopy
  <2> QED
    BY <2>1, RoutingFrame
<1>18. ASSUME NEW a \in Admin, FailView(a)
      PROVE  RoutingInv'
  <2>1. FailoverUntouched
    BY <1>18 DEF FailoverUntouched, FailView
  <2> QED
    BY <2>1, RoutingFrame
<1>19. ASSUME NEW a \in Admin, FailStop(a)
      PROVE  RoutingInv'
  <2>1. FailoverUntouched
    BY <1>19 DEF FailoverUntouched, FailStop
  <2> QED
    BY <2>1, RoutingFrame
<1>20. ASSUME NEW a \in Admin, FailMark(a)
      PROVE  RoutingInv'
  <2>1. FailoverUntouched
    BY <1>20 DEF FailoverUntouched, FailMark
  <2> QED
    BY <2>1, RoutingFrame
<1>21. ASSUME NEW a \in Admin, FailEnd(a)
      PROVE  RoutingInv'
  BY <1>21 DEF FailEnd
<1>22. ASSUME NEW a \in Admin, NEW n \in Node, RecoverStart(a, n)
      PROVE  RoutingInv'
  <2>1. FailoverUntouched
    BY <1>22 DEF FailoverUntouched, RecoverStart
  <2> QED
    BY <2>1, RoutingFrame
<1>23. ASSUME NEW a \in Admin, RecoverMark(a)
      PROVE  RoutingInv'
  <2>1. FailoverUntouched
    BY <1>23 DEF FailoverUntouched, RecoverMark
  <2> QED
    BY <2>1, RoutingFrame
<1>24. ASSUME NEW a \in Admin, RecoverReload(a)
      PROVE  RoutingInv'
  <2>1. /\ UNCHANGED <<owners, world, holder, todo, cur>>
        /\ pc' = [pc EXCEPT ![a] = "tell"] /\ node' = [node EXCEPT ![a] = 1]
        /\ replicas' = [m \in Map |-> IF owners[m] = node[a] THEN replicas[m] ELSE node[a]]
    BY <1>24 DEF RecoverReload
  <2>2. pc[a] = "reload" /\ \A q \in Proc : pc[q] # "failover"
    BY <1>24 DEF RecoverReload
  <2>3. LockHeld'
    BY <2>1, <2>2
  <2>4. \A q \in Proc : Progress(q)'
    BY <2>1, <2>2
  <2>5. OwnerHosts' /\ ReplicaElsewhere'
    BY <2>1
  <2>6. SingleWriter'
    BY <2>1, <2>2
  <2> QED
    BY <2>3, <2>4, <2>5, <2>6
<1>25. ASSUME NEW p \in Proc, SaveFails(p)
      PROVE  RoutingInv'
  <2>1. FailoverUntouched
    BY <1>25 DEF FailoverUntouched, SaveFails
  <2> QED
    BY <2>1, RoutingFrame
<1>26. ASSUME NEW a \in Admin, AdminTell(a)
      PROVE  RoutingInv'
  <2>1. FailoverUntouched
    BY <1>26 DEF FailoverUntouched, AdminTell
  <2> QED
    BY <2>1, RoutingFrame
<1> QED
  BY <1>0, <1>1, <1>2, <1>3, <1>4, <1>5, <1>6, <1>7, <1>8, <1>9, <1>10, <1>11, <1>12, <1>13, <1>14, <1>15, <1>16, <1>17, <1>18, <1>19, <1>20, <1>21, <1>22, <1>23, <1>24, <1>25, <1>26
  DEF Next, Routine, Fault, CheckpointStep, HeartbeatStep, AdminStep, Replication, Failover

(* What both theorems rest on.                                             *)
LEMMA Invariance == Spec => [](TypeOK /\ RoutingInv)
<1>1. Init => TypeOK
  <2> SUFFICES ASSUME Init PROVE TypeOK
    OBVIOUS
  <2> USE NAssumption, NoneAssumption, ProcAssumption, PlacementAssumption
      DEF Init, MaybeContent, MaybeNode, Node, Content
  <2>1. disk = [m \in Map |-> None] /\ disk \in [Map -> MaybeContent]
    OBVIOUS
  <2>2. world \in [Node -> [Map -> MaybeContent]]
    BY <2>1 DEF BootWorld
  <2>3. snap \in [Node -> [Map -> MaybeContent]]
    BY <2>1 DEF BootSnap
  <2>4. /\ owners \in [Map -> Node] /\ replicas \in [Map -> MaybeNode]
        /\ ckOwners \in [Map -> Node] /\ rep \in [Proc -> [Map -> MaybeNode]]
    OBVIOUS
  <2>5. /\ healthy \in [Node -> BOOLEAN] /\ listening \in [Node -> BOOLEAN]
        /\ unsaved \subseteq Map /\ issued \in [Map -> Content]
        /\ holder \in Proc \cup {None} /\ alive \in BOOLEAN
    OBVIOUS
  <2>6. /\ pc \in [Proc -> {"idle", "ping"}] /\ node \in [Proc -> Node]
        /\ todo \in [Proc -> SUBSET Map] /\ cur \in [Proc -> SUBSET Map]
        /\ cp \in [Proc -> Content]
    BY DEF StartPc
  <2> QED
    BY <2>1, <2>2, <2>3, <2>4, <2>5, <2>6 DEF TypeOK
<1>2. Init => RoutingInv
  <2> SUFFICES ASSUME Init PROVE RoutingInv
    OBVIOUS
  <2> USE NAssumption, NoneAssumption, PlacementAssumption
      DEF Init, Node, Content
  <2>1. \A m \in Map, n \in Node : Hosts(n, m) <=> n = InitOwner[m]
    <3>1. \A m \in Map, n \in Node :
            world[n][m] = IF n # InitOwner[m] THEN None ELSE {}
      BY DEF BootWorld
    <3> QED
      BY <3>1 DEF Hosts
  <2>2. \A p \in Proc : pc[p] # "failover" /\ cur[p] = {}
    BY DEF StartPc
  <2>3. LockHeld /\ \A p \in Proc : Progress(p)
    BY <2>2 DEF LockHeld, Progress
  <2>4. OwnerHosts /\ SingleWriter /\ ReplicaElsewhere
    BY <2>1 DEF OwnerHosts, SingleWriter, ReplicaElsewhere
  <2> QED
    BY <2>3, <2>4 DEF RoutingInv
<1> QED
  BY <1>1, <1>2, TypeStep, RoutingStep, PTL DEF Spec

(* The variables have their types in every reachable state of the cluster. *)
THEOREM TypeCorrect == Spec => []TypeOK
  BY Invariance, PTL

(* Requests for a map are always routed to a node that hosts it, also in   *)
(* the middle of handleNodeFailure.                                        *)
THEOREM OwnerAlwaysHosts == Spec => []OwnerHosts
<1>1. RoutingInv => OwnerHosts
  BY DEF RoutingInv
<1> QED
  BY <1>1, Invariance, PTL

(* No node but the owner hosts a map, but for the replica that             *)
(* handleNodeFailure has promoted and not yet rerouted to.                 *)
THEOREM SingleWriterAlways == Spec => []SingleWriter
<1>1. RoutingInv => SingleWriter
  BY DEF RoutingInv
<1> QED
  BY <1>1, Invariance, PTL

(* The replica of a map is never its owner.                                *)
THEOREM ReplicaAlwaysElsewhere == Spec => []ReplicaElsewhere
<1>1. RoutingInv => ReplicaElsewhere
  BY DEF RoutingInv
<1> QED
  BY <1>1, Invariance, PTL

-----------------------------------------------------------------------------
(* What is promised about the checkpoint files, which rests on the routing *)
(* invariant.                                                              *)

(* A file of the map was written, or could once not be written.            *)
Tried(m) == disk[m] # None \/ m \in unsaved

(* So it is for the map a goroutine stores a snapshot of, or has promoted. *)
Saved(p) == pc[p] \in {"store", "failover"} => \A m \in cur[p] : Tried(m)

DurableInv == DurableBeforeShared /\ \A p \in Proc : Saved(p)

(* How fail covers the maps of its node: the writing of each was tried, or *)
(* its loop has still to save it; later all were tried, and the failover   *)
(* has each still to visit, has found it without a replica, or can find no *)
(* file because it was not written.                                        *)
Covered(a) ==
  /\ pc[a] \in {"scan", "save", "store"} =>
       \A m \in Map : owners[m] = node[a] =>
         Tried(m) \/ m \in todo[a] \/ (pc[a] = "save" /\ m \in cur[a])
  /\ pc[a] \in {"mark", "lock", "failover"} =>
       \A m \in Map : owners[m] = node[a] => Tried(m)
  /\ pc[a] = "failover" =>
       \A m \in Map : owners[m] = node[a] =>
         m \in todo[a] \/ replicas[m] = None \/ m \in unsaved

CoveredInv == \A a \in Admin : Covered(a)

(* A step that leaves owners, snapshots and files alone, and that brings   *)
(* no goroutine to store or to failover with a map in hand.                *)
FilesUntouched ==
  /\ UNCHANGED <<owners, snap, disk, unsaved>>
  /\ \A p \in Proc : pc'[p] \in {"store", "failover"} =>
       cur'[p] = {} \/ (pc'[p] = pc[p] /\ cur'[p] = cur[p])

LEMMA DurableFrame == DurableInv /\ FilesUntouched => DurableInv'
<1> SUFFICES ASSUME DurableInv, FilesUntouched PROVE DurableInv'
  OBVIOUS
<1> USE DEF Tried
<1>1. DurableBeforeShared'
  BY DEF DurableInv, DurableBeforeShared, FilesUntouched
<1>2. ASSUME NEW p \in Proc PROVE Saved(p)'
  BY DEF DurableInv, Saved, FilesUntouched
<1> QED
  BY <1>1, <1>2 DEF DurableInv

(* Every step keeps the files ahead of the copies.                         *)
LEMMA DurableStep ==
  TypeOK /\ RoutingInv /\ DurableInv /\ [Next]_vars => DurableInv'
<1> SUFFICES ASSUME TypeOK, RoutingInv, DurableInv, [Next]_vars PROVE DurableInv'
  OBVIOUS
<1> USE ProcAssumption DEF Tried, routing, health, data, copies, work
<1>0. CASE UNCHANGED vars
  BY <1>0, DurableFrame DEF vars, FilesUntouched
<1>1. CASE Restart
  <2>1. \A m \in Map, n \in Node :
          snap'[n][m] = IF n = InitReplica[m] THEN disk[m] ELSE None
    BY <1>1 DEF Restart, BootSnap
  <2>2. owners' = InitOwner /\ UNCHANGED <<disk, unsaved>> /\ \A p \in Proc : cur'[p] = {}
    BY <1>1 DEF Restart
  <2>3. DurableBeforeShared'
    BY <2>1, <2>2 DEF DurableBeforeShared
  <2> QED
    BY <2>2, <2>3 DEF DurableInv, Saved
<1>2. ASSUME NEW n \in Node, NEW m \in Map, NEW w \in Write, WorldWrite(n, m, w)
      PROVE  DurableInv'
  <2>1. FilesUntouched
    BY <1>2 DEF WorldWrite, FilesUntouched, Goto, TypeOK, Proc
  <2> QED
    BY <2>1, DurableFrame
<1>3. CASE CkTick
  <2>1. FilesUntouched
    BY <1>3 DEF CkTick, FilesUntouched, Goto, TypeOK, Proc
  <2> QED
    BY <2>1, DurableFrame
<1>4. CASE CkEnd
  <2>1. FilesUntouched
    BY <1>4 DEF CkEnd, FilesUntouched, Goto, TypeOK, Proc
  <2> QED
    BY <2>1, DurableFrame
<1>5. CASE HbPing
  <2>1. FilesUntouched
    BY <1>5 DEF HbPing, FilesUntouched, Goto, TypeOK, Proc
  <2> QED
    BY <2>1, DurableFrame
<1>6. CASE HbTimeout
  <2>1. FilesUntouched
    BY <1>6 DEF HbTimeout, FilesUntouched, Goto, TypeOK, Proc
  <2> QED
    BY <2>1, DurableFrame
<1>7. CASE HbSet
  <2>1. FilesUntouched
    BY <1>7 DEF HbSet, FilesUntouched, Goto, TypeOK, Proc
  <2> QED
    BY <2>1, DurableFrame
<1>8. CASE HbEnd
  <2>1. FilesUntouched
    BY <1>8 DEF HbEnd, FilesUntouched, Goto, TypeOK, Proc
  <2> QED
    BY <2>1, DurableFrame
<1>9. ASSUME NEW p \in Proc, Save(p)
      PROVE  DurableInv'
  <2>1. /\ UNCHANGED <<owners, snap, unsaved, cur>>
        /\ pc' = [pc EXCEPT ![p] = "store"]
        /\ disk' = [m \in Map |-> IF m \in cur[p] THEN cp[p] ELSE disk[m]]
    BY <1>9 DEF Save, Goto
  <2>2. cp[p] # None
    BY NoneAssumption DEF TypeOK
  <2>3. cur[p] \subseteq Map
    BY DEF TypeOK
  <2>4. \A m \in Map : disk'[m] = None => disk[m] = None /\ m \notin cur[p]
    BY <2>1, <2>2
  <2>5. DurableBeforeShared'
    BY <2>1, <2>4 DEF DurableInv, DurableBeforeShared
  <2>6. ASSUME NEW q \in Proc PROVE Saved(q)'
    <3>1. CASE q = p
      BY <3>1, <2>1, <2>3, <2>4 DEF Saved
    <3>2. CASE q # p
      <4>1. cur[q] \subseteq Map /\ pc'[q] = pc[q] /\ cur'[q] = cur[q]
        BY <2>1, <3>2 DEF TypeOK
      <4> QED
        BY <4>1, <2>1, <2>4 DEF DurableInv, Saved
    <3> QED
      BY <3>1, <3>2
  <2> QED
    BY <2>5, <2>6 DEF DurableInv
<1>10. ASSUME NEW p \in Proc, Store(p)
      PROVE  DurableInv'
  <2>1. /\ UNCHANGED <<owners, disk, unsaved>> /\ pc[p] = "store"
        /\ pc' = [pc EXCEPT ![p] = "scan"] /\ cur' = [cur EXCEPT ![p] = {}]
        /\ snap' = [n \in Node |-> [m \in Map |->
             IF m \in cur[p] /\ n = rep[p][m] THEN cp[p] ELSE snap[n][m]]]
    BY <1>10 DEF Store, Goto
  <2>2. \A m \in cur[p] : Tried(m)
    BY <2>1 DEF DurableInv, Saved
  <2>3. \A m \in Map, n \in Node : ~Tried(m) => snap'[n][m] = snap[n][m]
    BY <2>1, <2>2
  <2>4. DurableBeforeShared'
    BY <2>1, <2>3 DEF DurableInv, DurableBeforeShared
  <2>5. \A q \in Proc : Saved(q)'
    BY <2>1 DEF DurableInv, Saved, TypeOK
  <2> QED
    BY <2>4, <2>5 DEF DurableInv
<1>11. ASSUME NEW p \in Proc, NEW m \in Map, Skip(p, m)
      PROVE  DurableInv'
  <2>1. FilesUntouched
    BY <1>11 DEF Skip, FilesUntouched, Goto, TypeOK, Proc
  <2> QED
    BY <2>1, DurableFrame
<1>12. ASSUME NEW p \in Proc, NEW m \in Map, Capture(p, m)
      PROVE  DurableInv'
  <2>1. FilesUntouched
    BY <1>12 DEF Capture, FilesUntouched, Goto, TypeOK, Proc
  <2> QED
    BY <2>1, DurableFrame
<1>13. ASSUME NEW p \in Proc, FoStart(p)
      PROVE  DurableInv'
  <2>1. cur[p] = {}
    BY <1>13 DEF FoStart, RoutingInv, Progress
  <2>2. FilesUntouched
    BY <1>13, <2>1 DEF FoStart, FilesUntouched, Goto, TypeOK
  <2> QED
    BY <2>2, DurableFrame
<1>14. ASSUME NEW p \in Proc, NEW m \in Map, FoSkip(p, m)
      PROVE  DurableInv'
  <2>1. FilesUntouched
    BY <1>14 DEF FoSkip, FilesUntouched, Goto, TypeOK, Proc
  <2> QED
    BY <2>1, DurableFrame
<1>15. ASSUME NEW p \in Proc, NEW m \in Map, FoPromote(p, m)
      PROVE  DurableInv'
  <2>1. /\ UNCHANGED <<owners, disk, unsaved>> /\ pc' = pc
        /\ cur' = [cur EXCEPT ![p] = {m}]
        /\ snap' = [snap EXCEPT ![replicas[m]][m] = None]
        /\ PromotionSource(m) # None
    BY <1>15 DEF FoPromote
  <2>2. Tried(m)
    <3>1. replicas[m] \in Node
      BY <2>1 DEF PromotionSource, TypeOK, MaybeNode
    <3> QED
      BY <2>1, <3>1 DEF PromotionSource, DurableInv, DurableBeforeShared
  <2>3. \A k \in Map, n \in Node : snap'[n][k] = None \/ snap'[n][k] = snap[n][k]
    BY <2>1 DEF TypeOK
  <2>4. DurableBeforeShared'
    BY <2>1, <2>3 DEF DurableInv, DurableBeforeShared
  <2>5. \A q \in Proc : Saved(q)'
    BY <2>1, <2>2 DEF DurableInv, Saved, TypeOK
  <2> QED
    BY <2>4, <2>5 DEF DurableInv
<1>16. ASSUME NEW p \in Proc, NEW m \in Map, FoReroute(p, m)
      PROVE  DurableInv'
  <2>1. /\ UNCHANGED <<snap, disk, unsaved>> /\ pc' = pc
        /\ owners' = [owners EXCEPT ![m] = replicas[m]]
        /\ cur' = [cur EXCEPT ![p] = {}]
        /\ pc[p] = "failover" /\ m \in cur[p]
    BY <1>16 DEF FoReroute
  <2>2. Tried(m)
    BY <2>1 DEF DurableInv, Saved
  <2>3. DurableBeforeShared'
    BY <2>1, <2>2 DEF DurableInv, DurableBeforeShared, TypeOK
  <2>4. \A q \in Proc : Saved(q)'
    BY <2>1 DEF DurableInv, Saved, TypeOK
  <2> QED
    BY <2>3, <2>4 DEF DurableInv
<1>17. ASSUME NEW a \in Admin, NEW n \in Node, FailCopy(a, n)
      PROVE  DurableInv'
  <2>1. FilesUntouched
    BY <1>17 DEF FailCopy, FilesUntouched, Goto, TypeOK, Proc
  <2> QED
    BY <2>1, DurableFrame
<1>18. ASSUME NEW a \in Admin, FailView(a)
      PROVE  DurableInv'
  <2>1. FilesUntouched
    BY <1>18 DEF FailView, FilesUntouched, Goto, TypeOK, Proc
  <2> QED
    BY <2>1, DurableFrame
<1>19. ASSUME NEW a \in Admin, FailStop(a)
      PROVE  DurableInv'
  <2>1. FilesUntouched
    BY <1>19 DEF FailStop, FilesUntouched, Goto, TypeOK, Proc
  <2> QED
    BY <2>1, DurableFrame
<1>20. ASSUME NEW a \in Admin, FailMark(a)
      PROVE  DurableInv'
  <2>1. FilesUntouched
    BY <1>20 DEF FailMark, FilesUntouched, Goto, TypeOK, Proc
  <2> QED
    BY <2>1, DurableFrame
<1>21. ASSUME NEW a \in Admin, FailEnd(a)
      PROVE  DurableInv'
  <2>1. FilesUntouched
    BY <1>21 DEF FailEnd, FilesUntouched, Goto, TypeOK, Proc
  <2> QED
    BY <2>1, DurableFrame
<1>22. ASSUME NEW a \in Admin, NEW n \in Node, RecoverStart(a, n)
      PROVE  DurableInv'
  <2>1. FilesUntouched
    BY <1>22 DEF RecoverStart, FilesUntouched, Goto, TypeOK, Proc
  <2> QED
    BY <2>1, DurableFrame
<1>23. ASSUME NEW a \in Admin, RecoverMark(a)
      PROVE  DurableInv'
  <2>1. FilesUntouched
    BY <1>23 DEF RecoverMark, FilesUntouched, Goto, TypeOK, Proc
  <2> QED
    BY <2>1, DurableFrame
<1>24. ASSUME NEW a \in Admin, RecoverReload(a)
      PROVE  DurableInv'
  <2>1. /\ UNCHANGED <<owners, disk, unsaved>> /\ cur' = cur
        /\ pc' = [pc EXCEPT ![a] = "tell"]
        /\ snap' = [n \in Node |-> [m \in Map |->
             IF n = node[a] /\ owners[m] # n /\ disk[m] # None
             THEN disk[m] ELSE snap[n][m]]]
    BY <1>24 DEF RecoverReload, Goto
  <2>2. \A m \in Map, n \in Node : disk[m] = None => snap'[n][m] = snap[n][m]
    BY <2>1
  <2>3. DurableBeforeShared'
    BY <2>1, <2>2 DEF DurableInv, DurableBeforeShared
  <2>4. \A q \in Proc : Saved(q)'
    BY <2>1 DEF DurableInv, Saved, TypeOK
  <2> QED
    BY <2>3, <2>4 DEF DurableInv
<1>25. ASSUME NEW p \in Proc, SaveFails(p)
      PROVE  DurableInv'
  <2>1. /\ UNCHANGED <<owners, snap, disk, cur>> /\ unsaved' = unsaved \cup cur[p]
        /\ pc' = [pc EXCEPT ![p] = "store"]
    BY <1>25 DEF SaveFails, Goto
  <2>2. DurableBeforeShared'
    BY <2>1 DEF DurableInv, DurableBeforeShared
  <2>3. ASSUME NEW q \in Proc PROVE Saved(q)'
    <3>1. CASE q = p
      BY <3>1, <2>1 DEF Saved
    <3>2. CASE q # p
      BY <3>2, <2>1 DEF DurableInv, Saved, TypeOK
    <3> QED
      BY <3>1, <3>2
  <2> QED
    BY <2>2, <2>3 DEF DurableInv
<1>26. ASSUME NEW a \in Admin, AdminTell(a)
      PROVE  DurableInv'
  <2>1. FilesUntouched
    BY <1>26 DEF AdminTell, FilesUntouched, Goto, TypeOK, Proc
  <2> QED
    BY <2>1, DurableFrame
<1> QED
  BY <1>0, <1>1, <1>2, <1>3, <1>4, <1>5, <1>6, <1>7, <1>8, <1>9, <1>10,
     <1>11, <1>12, <1>13, <1>14, <1>15, <1>16, <1>17, <1>18, <1>19,
     <1>20, <1>21, <1>22, <1>23, <1>24, <1>25, <1>26
  DEF Next, Routine, Fault, CheckpointStep, HeartbeatStep, AdminStep,
      Replication, Failover, Proc

(* A step that leaves the routing alone, keeps every file, and changes no  *)
(* fail command that is past its first critical section.                   *)
FailsUntouched ==
  /\ UNCHANGED <<owners, replicas>>
  /\ unsaved \subseteq unsaved' /\ \A m \in Map : Tried(m) => Tried(m)'
  /\ \A a \in Admin :
       pc'[a] \in {"scan", "save", "store", "mark", "lock", "failover"} =>
         /\ pc'[a] = pc[a] /\ node'[a] = node[a]
         /\ todo'[a] = todo[a] /\ cur'[a] = cur[a]

LEMMA CoveredFrame == CoveredInv /\ FailsUntouched => CoveredInv'
<1> SUFFICES ASSUME CoveredInv, FailsUntouched, NEW a \in Admin PROVE Covered(a)'
  BY DEF CoveredInv
<1> USE DEF Tried
<1>1. Covered(a)
  BY DEF CoveredInv
<1> QED
  BY <1>1 DEF Covered, FailsUntouched

(* A step of goroutine p leaves the other fail commands covered if it      *)
(* changes no routing and loses no file.                                   *)
OthersUntouched(p) ==
  /\ UNCHANGED <<owners, replicas>>
  /\ unsaved \subseteq unsaved' /\ \A m \in Map : Tried(m) => Tried(m)'
  /\ \A a \in Admin : a # p => /\ pc'[a] = pc[a] /\ node'[a] = node[a]
                               /\ todo'[a] = todo[a] /\ cur'[a] = cur[a]

LEMMA CoveredOthers ==
  ASSUME CoveredInv, NEW p \in Proc, OthersUntouched(p),
         p \in Admin => Covered(p)'
  PROVE  CoveredInv'
<1> SUFFICES ASSUME NEW a \in Admin, a # p PROVE Covered(a)'
  BY DEF CoveredInv
<1> USE DEF Tried
<1>1. Covered(a)
  BY DEF CoveredInv
<1> QED
  BY <1>1 DEF Covered, OthersUntouched

(* Every step keeps the maps of a node that is being failed covered.       *)
LEMMA CoveredStep ==
  TypeOK /\ RoutingInv /\ DurableInv /\ CoveredInv /\ [Next]_vars => CoveredInv'
<1> SUFFICES ASSUME TypeOK, RoutingInv, DurableInv, CoveredInv, [Next]_vars
             PROVE  CoveredInv'
  OBVIOUS
<1> USE ProcAssumption DEF Tried, routing, health, data, copies, work, Goto
<1>0. CASE UNCHANGED vars
  BY <1>0, CoveredFrame DEF vars, FailsUntouched
<1>1. CASE Restart
  <2>1. \A a \in Admin : pc'[a] = "idle"
    BY <1>1 DEF Restart, StartPc, Proc
  <2> QED
    BY <2>1 DEF CoveredInv, Covered
<1>2. ASSUME NEW n \in Node, NEW m \in Map, NEW w \in Write, WorldWrite(n, m, w)
      PROVE  CoveredInv'
  <2>1. FailsUntouched
    BY <1>2 DEF WorldWrite, FailsUntouched, TypeOK, Proc
  <2> QED
    BY <2>1, CoveredFrame
<1>3. CASE CkTick
  <2>1. FailsUntouched
    BY <1>3 DEF CkTick, FailsUntouched, TypeOK, Proc
  <2> QED
    BY <2>1, CoveredFrame
<1>4. CASE CkEnd
  <2>1. FailsUntouched
    BY <1>4 DEF CkEnd, FailsUntouched, TypeOK, Proc
  <2> QED
    BY <2>1, CoveredFrame
<1>5. CASE HbPing
  <2>1. FailsUntouched
    BY <1>5 DEF HbPing, FailsUntouched, TypeOK, Proc
  <2> QED
    BY <2>1, CoveredFrame
<1>6. CASE HbTimeout
  <2>1. FailsUntouched
    BY <1>6 DEF HbTimeout, FailsUntouched, TypeOK, Proc
  <2> QED
    BY <2>1, CoveredFrame
<1>7. CASE HbSet
  <2>1. FailsUntouched
    BY <1>7 DEF HbSet, FailsUntouched, TypeOK, Proc
  <2> QED
    BY <2>1, CoveredFrame
<1>8. CASE HbEnd
  <2>1. FailsUntouched
    BY <1>8 DEF HbEnd, FailsUntouched, TypeOK, Proc
  <2> QED
    BY <2>1, CoveredFrame
<1>9. ASSUME NEW p \in Proc, Save(p)
      PROVE  CoveredInv'
  <2>0. cp[p] # None
    BY NoneAssumption DEF TypeOK
  <2>1. OthersUntouched(p)
    BY <1>9, <2>0 DEF Save, OthersUntouched, TypeOK
  <2>2. ASSUME p \in Admin PROVE Covered(p)'
    <3>1. Covered(p)
      BY <2>2 DEF CoveredInv
    <3> QED
      BY <1>9, <2>0, <2>2, <3>1 DEF Save, Covered, TypeOK
  <2> QED
    BY <2>1, <2>2, CoveredOthers
<1>10. ASSUME NEW p \in Proc, Store(p)
      PROVE  CoveredInv'
  <2>1. OthersUntouched(p)
    BY <1>10 DEF Store, OthersUntouched, TypeOK
  <2>2. ASSUME p \in Admin PROVE Covered(p)'
    <3>1. Covered(p)
      BY <2>2 DEF CoveredInv
    <3> QED
      BY <1>10, <2>2, <3>1 DEF Store, Covered, TypeOK
  <2> QED
    BY <2>1, <2>2, CoveredOthers
<1>11. ASSUME NEW p \in Proc, NEW m \in Map, Skip(p, m)
      PROVE  CoveredInv'
  <2>1. OthersUntouched(p)
    BY <1>11 DEF Skip, OthersUntouched, TypeOK
  <2>2. ASSUME p \in Admin PROVE Covered(p)'
    <3>1. Covered(p)
      BY <2>2 DEF CoveredInv
    <3>2. p # Checkpointer
      BY <2>2
    <3> QED
      BY <1>11, <3>1, <3>2
      DEF Skip, Covered, CanCapture, Source, RoutingInv, OwnerHosts, TypeOK
  <2> QED
    BY <2>1, <2>2, CoveredOthers
<1>12. ASSUME NEW p \in Proc, NEW m \in Map, Capture(p, m)
      PROVE  CoveredInv'
  <2>1. OthersUntouched(p)
    BY <1>12 DEF Capture, OthersUntouched, TypeOK
  <2>2. ASSUME p \in Admin PROVE Covered(p)'
    <3>1. Covered(p)
      BY <2>2 DEF CoveredInv
    <3>2. p # Checkpointer
      BY <2>2
    <3> QED
      BY <1>12, <3>1, <3>2
      DEF Capture, Covered, CanCapture, Source, RoutingInv, OwnerHosts, TypeOK
  <2> QED
    BY <2>1, <2>2, CoveredOthers
<1>13. ASSUME NEW p \in Proc, FoStart(p)
      PROVE  CoveredInv'
  <2>1. OthersUntouched(p)
    BY <1>13 DEF FoStart, OthersUntouched, TypeOK
  <2>2. ASSUME p \in Admin PROVE Covered(p)'
    <3>1. Covered(p)
      BY <2>2 DEF CoveredInv
    <3> QED
      BY <1>13, <2>2, <3>1 DEF FoStart, Covered, TypeOK
  <2> QED
    BY <2>1, <2>2, CoveredOthers
<1>14. ASSUME NEW p \in Proc, NEW m \in Map, FoSkip(p, m)
      PROVE  CoveredInv'
  <2>1. OthersUntouched(p)
    BY <1>14 DEF FoSkip, OthersUntouched, TypeOK
  <2>2. ASSUME p \in Admin PROVE Covered(p)'
    <3>1. Covered(p)
      BY <2>2 DEF CoveredInv
    <3>2. owners[m] = node[p] => replicas[m] = None \/ m \in unsaved
      BY <1>14, <3>1 DEF FoSkip, Covered, PromotionSource
    <3> QED
      BY <1>14, <3>1, <3>2 DEF FoSkip, Covered, TypeOK
  <2> QED
    BY <2>1, <2>2, CoveredOthers
<1>15. ASSUME NEW p \in Proc, NEW m \in Map, FoPromote(p, m)
      PROVE  CoveredInv'
  <2>1. OthersUntouched(p)
    BY <1>15 DEF FoPromote, OthersUntouched, TypeOK
  <2>2. ASSUME p \in Admin PROVE Covered(p)'
    <3>1. Covered(p)
      BY <2>2 DEF CoveredInv
    <3> QED
      BY <1>15, <3>1 DEF FoPromote, Covered, TypeOK
  <2> QED
    BY <2>1, <2>2, CoveredOthers
<1>16. ASSUME NEW p \in Proc, NEW m \in Map, FoReroute(p, m)
      PROVE  CoveredInv'
  <2>1. PICK r \in PickReplica(replicas[m]) :
          replicas' = [replicas EXCEPT ![m] = r]
    BY <1>16 DEF FoReroute
  <2>2. /\ owners' = [owners EXCEPT ![m] = replicas[m]]
        /\ todo' = [todo EXCEPT ![p] = @ \ {m}]
        /\ cur' = [cur EXCEPT ![p] = {}]
        /\ UNCHANGED <<pc, node, disk, unsaved>>
        /\ pc[p] = "failover" /\ m \in cur[p]
    BY <1>16 DEF FoReroute
  <2>3. Tried(m) /\ replicas[m] # node[p]
    BY <2>2 DEF DurableInv, Saved, RoutingInv, Progress, ReplicaElsewhere
  <2>4. \A q \in Proc : q # p => pc[q] # "failover"
    BY <2>2 DEF RoutingInv, LockHeld
  <2> SUFFICES ASSUME NEW a \in Admin PROVE Covered(a)'
    BY DEF CoveredInv
  <2>5. Covered(a)
    BY DEF CoveredInv
  <2>6. CASE a = p
    BY <2>1, <2>2, <2>3, <2>5, <2>6 DEF Covered, TypeOK
  <2>7. CASE a # p
    <3>1. pc[a] # "failover"
      BY <2>4, <2>7 DEF Proc
    <3>2. \A k \in Map : ~Tried(k)' => owners'[k] = owners[k]
      BY <2>2, <2>3 DEF TypeOK
    <3>3. pc'[a] = pc[a] /\ node'[a] = node[a] /\ todo'[a] = todo[a] /\ cur'[a] = cur[a]
      BY <2>2, <2>7 DEF TypeOK, Proc
    <3> QED
      BY <2>2, <2>5, <3>1, <3>2, <3>3 DEF Covered
  <2> QED
    BY <2>6, <2>7
<1>17. ASSUME NEW a \in Admin, NEW n \in Node, FailCopy(a, n)
      PROVE  CoveredInv'
  <2>1. FailsUntouched
    BY <1>17 DEF FailCopy, FailsUntouched, TypeOK, Proc
  <2> QED
    BY <2>1, CoveredFrame
<1>18. ASSUME NEW a \in Admin, FailView(a)
      PROVE  CoveredInv'
  <2>1. OthersUntouched(a)
    BY <1>18 DEF FailView, OthersUntouched, TypeOK
  <2>2. Covered(a)'
    <3>1. Covered(a)
      BY DEF CoveredInv
    <3> QED
      BY <1>18, <3>1 DEF FailView, Covered, RoutingInv, OwnerHosts, TypeOK
  <2> QED
    BY <2>1, <2>2, CoveredOthers DEF Proc
<1>19. ASSUME NEW a \in Admin, FailStop(a)
      PROVE  CoveredInv'
  <2>1. OthersUntouched(a)
    BY <1>19 DEF FailStop, OthersUntouched, TypeOK
  <2>2. Covered(a)'
    <3>1. Covered(a)
      BY DEF CoveredInv
    <3> QED
      BY <1>19, <3>1 DEF FailStop, Covered, TypeOK
  <2> QED
    BY <2>1, <2>2, CoveredOthers DEF Proc
<1>20. ASSUME NEW a \in Admin, FailMark(a)
      PROVE  CoveredInv'
  <2>1. OthersUntouched(a)
    BY <1>20 DEF FailMark, OthersUntouched, TypeOK
  <2>2. Covered(a)'
    <3>1. Covered(a)
      BY DEF CoveredInv
    <3> QED
      BY <1>20, <3>1 DEF FailMark, Covered, TypeOK
  <2> QED
    BY <2>1, <2>2, CoveredOthers DEF Proc
<1>21. ASSUME NEW a \in Admin, FailEnd(a)
      PROVE  CoveredInv'
  <2>1. FailsUntouched
    BY <1>21 DEF FailEnd, FailsUntouched, TypeOK, Proc
  <2> QED
    BY <2>1, CoveredFrame
<1>22. ASSUME NEW a \in Admin, NEW n \in Node, RecoverStart(a, n)
      PROVE  CoveredInv'
  <2>1. FailsUntouched
    BY <1>22 DEF RecoverStart, FailsUntouched, TypeOK, Proc
  <2> QED
    BY <2>1, CoveredFrame
<1>23. ASSUME NEW a \in Admin, RecoverMark(a)
      PROVE  CoveredInv'
  <2>1. FailsUntouched
    BY <1>23 DEF RecoverMark, FailsUntouched, TypeOK, Proc
  <2> QED
    BY <2>1, CoveredFrame
<1>24. ASSUME NEW a \in Admin, RecoverReload(a)
      PROVE  CoveredInv'
  <2>1. /\ UNCHANGED <<owners, disk, unsaved, todo, cur>>
        /\ pc' = [pc EXCEPT ![a] = "tell"] /\ node' = [node EXCEPT ![a] = 1]
        /\ holder = None
    BY <1>24 DEF RecoverReload, Unlocked
  <2>2. \A q \in Proc : pc[q] # "failover"
    BY <2>1, NoneAssumption DEF RoutingInv, LockHeld
  <2> SUFFICES ASSUME NEW b \in Admin PROVE Covered(b)'
    BY DEF CoveredInv
  <2>3. Covered(b)
    BY DEF CoveredInv
  <2>4. CASE b = a
    BY <2>1, <2>4 DEF Covered, TypeOK, Proc
  <2>5. CASE b # a
    <3>1. /\ pc'[b] = pc[b] /\ node'[b] = node[b]
          /\ todo'[b] = todo[b] /\ cur'[b] = cur[b]
      BY <2>1, <2>5 DEF TypeOK, Proc
    <3>2. pc[b] # "failover"
      BY <2>2 DEF Proc
    <3> QED
      BY <2>1, <2>3, <3>1, <3>2 DEF Covered
  <2> QED
    BY <2>4, <2>5
<1>25. ASSUME NEW p \in Proc, SaveFails(p)
      PROVE  CoveredInv'
  <2>1. OthersUntouched(p)
    BY <1>25 DEF SaveFails, OthersUntouched, TypeOK
  <2>2. ASSUME p \in Admin PROVE Covered(p)'
    <3>1. Covered(p)
      BY <2>2 DEF CoveredInv
    <3> QED
      BY <1>25, <2>2, <3>1 DEF SaveFails, Covered, TypeOK
  <2> QED
    BY <2>1, <2>2, CoveredOthers
<1>26. ASSUME NEW a \in Admin, AdminTell(a)
      PROVE  CoveredInv'
  <2>1. FailsUntouched
    BY <1>26 DEF AdminTell, FailsUntouched, TypeOK, Proc
  <2> QED
    BY <2>1, CoveredFrame
<1> QED
  BY <1>0, <1>1, <1>2, <1>3, <1>4, <1>5, <1>6, <1>7, <1>8, <1>9, <1>10,
     <1>11, <1>12, <1>13, <1>14, <1>15, <1>16, <1>17, <1>18, <1>19,
     <1>20, <1>21, <1>22, <1>23, <1>24, <1>25, <1>26
  DEF Next, Routine, Fault, CheckpointStep, HeartbeatStep, AdminStep,
      Replication, Failover, Proc

(* What the theorems below rest on.                                        *)
LEMMA DurableInvariance ==
  Spec => [](TypeOK /\ RoutingInv /\ DurableInv /\ CoveredInv)
<1>1. Init => DurableInv
  <2> SUFFICES ASSUME Init PROVE DurableInv
    OBVIOUS
  <2>1. owners = InitOwner /\ \A n \in Node, m \in Map : snap[n][m] = None
    BY DEF Init, BootSnap
  <2>2. \A p \in Proc : cur[p] = {}
    BY DEF Init
  <2> QED
    BY <2>1, <2>2 DEF DurableInv, DurableBeforeShared, Saved
<1>2. Init => CoveredInv
  BY ProcAssumption DEF Init, StartPc, CoveredInv, Covered, Proc
<1> QED
  BY <1>1, <1>2, Invariance, DurableStep, CoveredStep, PTL DEF Spec

(* A copy of a map exists outside its first owner only after a checkpoint  *)
(* file of the map does, or could not be written.                          *)
THEOREM DurableAlwaysBeforeShared == Spec => []DurableBeforeShared
<1>1. DurableInv => DurableBeforeShared
  BY DEF DurableInv
<1> QED
  BY <1>1, DurableInvariance, PTL

(* When the handleNodeFailure of an admin command is about to return, a    *)
(* map its node still owns is one that has no replica at all, or whose     *)
(* file could once not be written.                                         *)
THEOREM NothingEverLeftBehind == Spec => []NothingLeftBehind
<1>1. CoveredInv => NothingLeftBehind
  BY DEF CoveredInv, Covered, NothingLeftBehind
<1> QED
  BY <1>1, DurableInvariance, PTL

(* The world clients are using loses writes only when its owner changes or *)
(* the process restarts.                                                   *)
THEOREM RolledBackOnlyByFailoverAlways == Spec => RolledBackOnlyByFailover
<1> DEFINE Kept == \A m \in Map :
      Live(m) \subseteq Live(m)' \/ owners'[m] # owners[m] \/ Restart
<1>1. ASSUME TypeOK, RoutingInv, Next PROVE Kept
  <2> SUFFICES ASSUME NEW k \in Map, owners'[k] = owners[k], ~Restart
               PROVE  Live(k) \subseteq Live(k)'
    OBVIOUS
  <2>0. owners'[k] = owners[k]
    OBVIOUS
  <2> USE DEF Live, TypeOK
  <2>1. ASSUME world' = world PROVE Live(k) \subseteq Live(k)'
    BY <2>1
  <2>2. ASSUME NEW n \in Node, NEW m \in Map, NEW w \in Write, WorldWrite(n, m, w)
        PROVE  Live(k) \subseteq Live(k)'
    <3>1. world' = [world EXCEPT ![n][m] = @ \cup {w}]
      BY <2>2 DEF WorldWrite
    <3>2. world'[owners[k]][k] = world[owners[k]][k]
            \/ world'[owners[k]][k] = world[owners[k]][k] \cup {w}
      BY <1>1, <3>1
    <3> QED
      BY <3>2
  <2>3. ASSUME NEW p \in Proc, NEW m \in Map, FoPromote(p, m)
        PROVE  Live(k) \subseteq Live(k)'
    <3>1. world' = [world EXCEPT ![replicas[m]][m] = PromotionSource(m)]
      BY <2>3 DEF FoPromote
    <3>2. replicas[k] # owners[k]
      BY <1>1 DEF RoutingInv, ReplicaElsewhere
    <3>3. world'[owners[k]][k] = world[owners[k]][k]
      BY <1>1, <3>1, <3>2
    <3> QED
      BY <3>3
  <2>4. ASSUME NEW p \in Proc, NEW m \in Map, FoReroute(p, m)
        PROVE  Live(k) \subseteq Live(k)'
    <3>1. /\ world' = [world EXCEPT ![node[p]][m] = None]
          /\ owners' = [owners EXCEPT ![m] = replicas[m]]
      BY <2>4 DEF FoReroute
    <3>2. k # m
      BY <1>1, <2>0, <3>1 DEF ReplicaElsewhere, RoutingInv
    <3>3. world'[owners[k]][k] = world[owners[k]][k]
      BY <1>1, <3>1, <3>2
    <3> QED
      BY <3>3
  <2> QED
    <3> USE DEF routing, health, data, copies, work
    <3>1. CkTick \/ CkEnd \/ HbPing \/ HbTimeout \/ HbSet \/ HbEnd => world' = world
      BY DEF CkTick, CkEnd, HbPing, HbTimeout, HbSet, HbEnd
    <3>2. \A p \in Proc, m \in Map :
            Skip(p, m) \/ Capture(p, m) \/ Save(p) \/ SaveFails(p) \/ Store(p)
              \/ FoStart(p) \/ FoSkip(p, m) => world' = world
      BY DEF Skip, Capture, Save, SaveFails, Store, FoStart, FoSkip
    <3>3. \A a \in Admin, n \in Node :
            FailCopy(a, n) \/ FailView(a) \/ FailStop(a) \/ FailMark(a) \/ FailEnd(a)
              \/ RecoverStart(a, n) \/ RecoverMark(a) \/ RecoverReload(a) \/ AdminTell(a)
              => world' = world
      BY DEF FailCopy, FailView, FailStop, FailMark, FailEnd, RecoverStart,
             RecoverMark, RecoverReload, AdminTell
    <3> QED
      BY <1>1, <2>1, <2>2, <2>3, <2>4, <3>1, <3>2, <3>3
      DEF Next, Routine, Fault, CheckpointStep, HeartbeatStep, AdminStep,
          Replication, Failover, Proc
<1>2. TypeOK /\ RoutingInv /\ [Next]_vars => [Kept]_vars
  BY <1>1
<1> QED
  BY <1>2, Invariance, PTL DEF Spec, RolledBackOnlyByFailover

-----------------------------------------------------------------------------
(* What players see of a map is what MapService promises of it.            *)

\* The writes of a copy are writes on that map.
Of(c, m) == c = None \/ c \subseteq issued[m]

(* Every copy of a map, wherever it is, has only writes on that map; a     *)
(* goroutine has one map in hand at a time, and a checkpoint of that.      *)
Genuine ==
  /\ \A n \in Node, m \in Map : Of(world[n][m], m) /\ Of(snap[n][m], m)
  /\ \A m \in Map : Of(disk[m], m)
  /\ \A p \in Proc :
       /\ \A k, m \in cur[p] : k = m
       /\ pc[p] \in {"save", "store"} => \A m \in cur[p] : cp[p] \subseteq issued[m]

\* A step that makes no copy and takes no map in hand.
CopiesUntouched ==
  /\ UNCHANGED <<world, snap, disk, issued>>
  /\ \A p \in Proc :
       /\ cur'[p] = cur[p] /\ cp'[p] = cp[p]
       /\ pc'[p] \in {"save", "store"} => pc[p] \in {"save", "store"}

LEMMA GenuineFrame == Genuine /\ CopiesUntouched => Genuine'
  BY DEF Genuine, CopiesUntouched, Of

(* What a copy is replaced by is a copy of the same map, and writes are    *)
(* only added to what a map has accepted.                                  *)
LEMMA GenuineStep ==
  TypeOK /\ RoutingInv /\ Genuine /\ [Next]_vars => Genuine'
<1> SUFFICES ASSUME TypeOK, RoutingInv, Genuine, [Next]_vars PROVE Genuine'
  OBVIOUS
<1> USE NoneAssumption, ProcAssumption DEF routing, health, data, copies, work, Goto
<1>0. CASE UNCHANGED vars
  BY <1>0, GenuineFrame DEF vars, CopiesUntouched
<1>1. CASE Restart
  <2>1. /\ \A n \in Node, m \in Map : world'[n][m] \in {None, {}, disk[m]}
        /\ \A n \in Node, m \in Map : snap'[n][m] \in {None, disk[m]}
    BY <1>1 DEF Restart, BootWorld, BootSnap
  <2>2. UNCHANGED <<disk, issued>> /\ \A p \in Proc : cur'[p] = {}
    BY <1>1 DEF Restart
  <2> QED
    BY <2>1, <2>2 DEF Genuine, Of
<1>2. ASSUME NEW n \in Node, NEW m \in Map, NEW w \in Write, WorldWrite(n, m, w)
      PROVE  Genuine'
  <2>1. /\ world[n][m] # None
        /\ world' = [world EXCEPT ![n][m] = @ \cup {w}]
        /\ issued' = [issued EXCEPT ![m] = @ \cup {w}]
        /\ UNCHANGED <<snap, disk, pc, cur, cp>>
    BY <1>2 DEF WorldWrite, Hosts
  <2>2. issued'[m] = issued[m] \cup {w} /\ \A k \in Map : k # m => issued'[k] = issued[k]
    BY <2>1 DEF TypeOK
  <2>3. \A k \in Map : issued[k] \subseteq issued'[k]
    BY <2>2
  <2>4. \A j \in Node, k \in Map :
          world'[j][k] = IF j = n /\ k = m THEN world[n][m] \cup {w} ELSE world[j][k]
    BY <2>1 DEF TypeOK
  <2>5. \A j \in Node, k \in Map : Of(world[j][k], k)'
    <3>1. \A j \in Node, k \in Map : Of(world[j][k], k)
      BY DEF Genuine
    <3>2. world[n][m] \subseteq issued[m]
      BY <2>1, <3>1 DEF Of
    <3> QED
      BY <2>2, <2>3, <2>4, <3>1, <3>2 DEF Of
  <2>6. \A c : \A k \in Map : Of(c, k) => (c = None \/ c \subseteq issued'[k])
    BY <2>3 DEF Of
  <2> QED
    BY <2>1, <2>3, <2>5, <2>6 DEF Genuine, Of, TypeOK
<1>3. ASSUME NEW p \in Proc, NEW m \in Map, Capture(p, m)
      PROVE  Genuine'
  <2>1. /\ cur' = [cur EXCEPT ![p] = {m}] /\ cp' = [cp EXCEPT ![p] = world[Source(p, m)][m]]
        /\ pc' = [pc EXCEPT ![p] = "save"] /\ UNCHANGED <<world, snap, disk, issued>>
        /\ world[Source(p, m)][m] # None
    BY <1>3 DEF Capture, CanCapture, Hosts
  <2>2. Source(p, m) \in Node
    BY DEF Source, TypeOK
  <2>3. world[Source(p, m)][m] \subseteq issued[m]
    BY <2>1, <2>2 DEF Genuine, Of
  <2> QED
    BY <2>1, <2>3 DEF Genuine, Of, TypeOK
<1>4. ASSUME NEW p \in Proc, Save(p)
      PROVE  Genuine'
  BY <1>4 DEF Save, Genuine, Of, TypeOK
<1>5. ASSUME NEW p \in Proc, SaveFails(p)
      PROVE  Genuine'
  BY <1>5 DEF SaveFails, Genuine, Of, TypeOK
<1>6. ASSUME NEW p \in Proc, Store(p)
      PROVE  Genuine'
  <2>1. \A n \in Node, m \in Map : snap'[n][m] = snap[n][m] \/ (m \in cur[p] /\ snap'[n][m] = cp[p])
    BY <1>6 DEF Store
  <2>2. /\ pc[p] = "store" /\ UNCHANGED <<world, disk, issued>>
        /\ cur' = [cur EXCEPT ![p] = {}] /\ cp' = [cp EXCEPT ![p] = {}]
        /\ pc' = [pc EXCEPT ![p] = "scan"]
    BY <1>6 DEF Store
  <2>3. \A q \in Proc : q # p => cur'[q] = cur[q] /\ cp'[q] = cp[q] /\ pc'[q] = pc[q]
    BY <2>2 DEF TypeOK
  <2>4. cur'[p] = {}
    BY <2>2 DEF TypeOK
  <2>5. \A n \in Node, m \in Map : Of(snap[n][m], m)'
    BY <2>1, <2>2 DEF Genuine, Of
  <2> QED
    BY <2>2, <2>3, <2>4, <2>5 DEF Genuine, Of
<1>7. ASSUME NEW p \in Proc, NEW m \in Map, FoPromote(p, m)
      PROVE  Genuine'
  <2>1. /\ pc[p] = "failover" /\ UNCHANGED <<pc, disk, issued, cp>>
        /\ world' = [world EXCEPT ![replicas[m]][m] = PromotionSource(m)]
        /\ snap' = [snap EXCEPT ![replicas[m]][m] = None]
        /\ cur' = [cur EXCEPT ![p] = {m}]
        /\ PromotionSource(m) # None
    BY <1>7 DEF FoPromote
  <2>2. replicas[m] \in Node
    BY <2>1 DEF TypeOK, MaybeNode, PromotionSource
  <2>3. Of(PromotionSource(m), m)
    BY <2>1, <2>2 DEF PromotionSource, Genuine
  <2>4. \A n \in Node, k \in Map :
          /\ world'[n][k] = world[n][k] \/ (k = m /\ world'[n][k] = PromotionSource(m))
          /\ snap'[n][k] \in {None, snap[n][k]}
    BY <2>1 DEF TypeOK
  <2>5. \A q \in Proc : IF q = p THEN cur'[q] = {m} ELSE cur'[q] = cur[q]
    BY <2>1 DEF TypeOK
  <2>6. \A n \in Node, k \in Map : Of(world[n][k], k)' /\ Of(snap[n][k], k)'
    BY <2>1, <2>3, <2>4 DEF Genuine, Of
  <2> QED
    BY <2>1, <2>5, <2>6 DEF Genuine, Of
<1>8. ASSUME NEW p \in Proc, NEW m \in Map, FoReroute(p, m)
      PROVE  Genuine'
  <2>1. /\ UNCHANGED <<pc, snap, disk, issued, cp>>
        /\ world' = [world EXCEPT ![node[p]][m] = None]
        /\ cur' = [cur EXCEPT ![p] = {}]
    BY <1>8 DEF FoReroute
  <2>2. \A n \in Node, k \in Map : world'[n][k] \in {None, world[n][k]}
    BY <2>1 DEF TypeOK
  <2>3. \A q \in Proc : cur'[q] \subseteq cur[q]
    BY <2>1 DEF TypeOK
  <2> QED
    BY <2>1, <2>2, <2>3 DEF Genuine, Of
<1>9. ASSUME NEW a \in Admin, RecoverReload(a)
      PROVE  Genuine'
  <2>1. /\ UNCHANGED <<world, disk, issued, cur, cp>>
        /\ pc' = [pc EXCEPT ![a] = "tell"]
        /\ \A n \in Node, m \in Map : snap'[n][m] \in {disk[m], snap[n][m]}
    BY <1>9 DEF RecoverReload
  <2>2. \A p \in Proc : pc'[p] \in {"save", "store"} => pc[p] \in {"save", "store"}
    BY <2>1 DEF TypeOK
  <2>3. \A n \in Node, m \in Map : Of(snap[n][m], m)'
    BY <2>1 DEF Genuine, Of
  <2> QED
    BY <2>1, <2>2, <2>3 DEF Genuine, Of
<1>10. ASSUME CkTick \/ CkEnd \/ HbPing \/ HbTimeout \/ HbSet \/ HbEnd
       PROVE  Genuine'
  <2>1. CopiesUntouched
    BY <1>10 DEF CopiesUntouched, TypeOK, CkTick, CkEnd, HbPing, HbTimeout, HbSet, HbEnd
  <2> QED
    BY <2>1, GenuineFrame
<1>11. ASSUME NEW p \in Proc, NEW m \in Map, Skip(p, m) \/ FoSkip(p, m)
       PROVE  Genuine'
  <2>1. CopiesUntouched
    BY <1>11 DEF CopiesUntouched, TypeOK, Skip, FoSkip
  <2> QED
    BY <2>1, GenuineFrame
<1>12. ASSUME NEW a \in Admin, NEW n \in Node,
              \/ FailCopy(a, n) \/ FailView(a) \/ FailStop(a) \/ FailMark(a) \/ FailEnd(a)
              \/ RecoverStart(a, n) \/ RecoverMark(a) \/ AdminTell(a)
       PROVE  Genuine'
  <2>1. CopiesUntouched
    BY <1>12 DEF CopiesUntouched, TypeOK, FailCopy, FailView, FailStop, FailMark, FailEnd,
                 RecoverStart, RecoverMark, AdminTell
  <2> QED
    BY <2>1, GenuineFrame
<1>13. ASSUME NEW p \in Proc, FoStart(p)
       PROVE  Genuine'
  <2>1. CopiesUntouched
    BY <1>13 DEF CopiesUntouched, TypeOK, FoStart
  <2> QED
    BY <2>1, GenuineFrame
<1>14. \E n \in Node : TRUE
  BY NAssumption DEF Node
<1> QED
  <2>1. ASSUME NEW p \in Proc, Replication(p) \/ Failover(p) \/ SaveFails(p)
        PROVE  Genuine'
    BY <2>1, <1>3, <1>4, <1>5, <1>6, <1>7, <1>8, <1>11, <1>13 DEF Replication, Failover
  <2> QED
    BY <1>0, <1>1, <1>2, <1>9, <1>10, <1>12, <1>14, <2>1
    DEF Next, Routine, Fault, CheckpointStep, HeartbeatStep, AdminStep, Proc

LEMMA GenuineInvariance == Spec => [](TypeOK /\ RoutingInv /\ Genuine)
<1>1. Init => Genuine
  <2> SUFFICES ASSUME Init PROVE Genuine
    OBVIOUS
  <2>1. \A m \in Map : disk[m] = None
    BY DEF Init
  <2>2. /\ \A n \in Node, m \in Map : world[n][m] \in {None, {}, disk[m]}
        /\ \A n \in Node, m \in Map : snap[n][m] \in {None, disk[m]}
    BY DEF Init, BootWorld, BootSnap
  <2>3. \A p \in Proc : cur[p] = {}
    BY DEF Init
  <2> QED
    BY <2>1, <2>2, <2>3 DEF Genuine, Of
<1>2. TypeOK /\ RoutingInv /\ Genuine /\ [Next]_vars => Genuine'
  BY GenuineStep
<1> QED
  BY <1>1, <1>2, Invariance, PTL DEF Spec

\* A step that no player sees, and no file.
LEMMA Unseen == UNCHANGED <<owners, world, disk, issued>> => UNCHANGED Service!vars
  BY DEF Service!vars, Live

(* Every step of the goroutines is a step of MapService or none: a write   *)
(* goes to the copy that is seen or to one that is being promoted, Save is *)
(* Keep, the routing tables are changed by Move, with the promoted copy.   *)
LEMMA ServiceStep ==
  TypeOK /\ RoutingInv /\ Genuine /\ [Next]_vars
    => [Service!Next \/ (Restart /\ Service!Reboot)]_(Service!vars)
<1> SUFFICES ASSUME TypeOK, RoutingInv, Genuine, [Next]_vars
             PROVE  Service!Next \/ (Restart /\ Service!Reboot) \/ UNCHANGED Service!vars
  OBVIOUS
<1> DEFINE live == [m \in Map |-> Live(m)]
<1> USE NoneAssumption, ProcAssumption DEF routing, health, data, copies, work
<1>0. CASE UNCHANGED vars
  BY <1>0, Unseen DEF vars
<1>1. CASE Restart
  <2>1. /\ owners' = InitOwner /\ UNCHANGED <<disk, issued>>
        /\ \A m \in Map : InitOwner[m] \in Node
    BY <1>1, PlacementAssumption DEF Restart
  <2>2. \A m \in Map : Live(m)' = Service!Boot(m)
    BY <1>1, <2>1 DEF Restart, BootWorld, Live, Service!Boot
  <2> QED
    BY <1>1, <2>1, <2>2 DEF Service!Reboot
<1>2. ASSUME NEW n \in Node, NEW m \in Map, NEW w \in Write, WorldWrite(n, m, w)
      PROVE  Service!Next
  <2>1. /\ \A k \in Map : w \notin issued[k]
        /\ world' = [world EXCEPT ![n][m] = @ \cup {w}]
        /\ issued' = [issued EXCEPT ![m] = @ \cup {w}]
        /\ UNCHANGED <<owners, disk>>
    BY <1>2 DEF WorldWrite
  <2>2. Service!Accept(m, w)
    BY <2>1 DEF Service!Accept
  <2>3. \A k \in Map : Live(k)' = IF k = m /\ n = owners[m] THEN Live(m) \cup {w} ELSE Live(k)
    BY <2>1 DEF Live, TypeOK
  <2>4. CASE n = owners[m]
    <3>1. live' = [live EXCEPT ![m] = @ \cup {w}]
      BY <2>3, <2>4
    <3> QED
      BY <2>2, <3>1 DEF Service!Play, Service!Next
  <2>5. CASE n # owners[m]
    <3>1. live' = live
      BY <2>3, <2>5
    <3> QED
      BY <2>2, <3>1 DEF Service!Stray, Service!Next
  <2> QED
    BY <2>4, <2>5
<1>3. ASSUME NEW p \in Proc, Save(p)
      PROVE  Service!Next \/ UNCHANGED Service!vars
  <2>1. /\ disk' = [m \in Map |-> IF m \in cur[p] THEN cp[p] ELSE disk[m]]
        /\ pc[p] = "save" /\ UNCHANGED <<owners, world, issued>>
    BY <1>3 DEF Save
  <2>2. UNCHANGED live
    BY <2>1 DEF Live
  <2>3. CASE cur[p] = {}
    <3>1. disk' = disk
      BY <2>1, <2>3 DEF TypeOK
    <3> QED
      BY <2>1, <3>1, Unseen
  <2>4. CASE cur[p] # {}
    <3>1. PICK m \in cur[p] : TRUE
      BY <2>4
    <3>2. m \in Map /\ \A k \in cur[p] : k = m
      BY <3>1 DEF TypeOK, Genuine
    <3>3. cp[p] \subseteq issued[m]
      BY <2>1, <3>1 DEF Genuine
    <3>4. disk' = [disk EXCEPT ![m] = cp[p]]
      BY <2>1, <3>1, <3>2 DEF TypeOK
    <3> QED
      BY <2>1, <2>2, <3>2, <3>3, <3>4 DEF Service!Keep, Service!Next
  <2> QED
    BY <2>3, <2>4
<1>4. ASSUME NEW p \in Proc, NEW m \in Map, FoPromote(p, m)
      PROVE  UNCHANGED Service!vars
  <2>1. /\ world' = [world EXCEPT ![replicas[m]][m] = PromotionSource(m)]
        /\ UNCHANGED <<owners, disk, issued>>
    BY <1>4 DEF FoPromote
  <2>2. \A k \in Map : Live(k)' = Live(k)
    BY <2>1 DEF Live, TypeOK, RoutingInv, ReplicaElsewhere
  <2> QED
    BY <2>1, <2>2 DEF Service!vars
<1>5. ASSUME NEW p \in Proc, NEW m \in Map, FoReroute(p, m)
      PROVE  Service!Next
  <2> DEFINE r == replicas[m]
  <2>1. /\ owners' = [owners EXCEPT ![m] = r]
        /\ world' = [world EXCEPT ![node[p]][m] = None]
        /\ UNCHANGED <<disk, issued>>
        /\ pc[p] = "failover" /\ m \in cur[p]
    BY <1>5 DEF FoReroute
  <2>2. /\ r \in Node /\ Hosts(r, m) /\ owners[m] = node[p] /\ r # owners[m]
    BY <2>1 DEF RoutingInv, Progress, ReplicaElsewhere
  <2>3. world[r][m] \subseteq issued[m]
    BY <2>2 DEF Hosts, Genuine, Of
  <2>4. \A k \in Map : Live(k)' = IF k = m THEN world[r][m] ELSE Live(k)
    BY <2>1, <2>2 DEF Live, TypeOK
  <2>5. live' = [live EXCEPT ![m] = world[r][m]]
    BY <2>4
  <2> QED
    BY <2>1, <2>2, <2>3, <2>5 DEF Service!Move, Service!Next
<1>6. ASSUME CkTick \/ CkEnd \/ HbPing \/ HbTimeout \/ HbSet \/ HbEnd
      PROVE  UNCHANGED Service!vars
  BY <1>6, Unseen DEF CkTick, CkEnd, HbPing, HbTimeout, HbSet, HbEnd
<1>7. ASSUME NEW p \in Proc, NEW m \in Map, Skip(p, m) \/ Capture(p, m) \/ FoSkip(p, m)
      PROVE  UNCHANGED Service!vars
  BY <1>7, Unseen DEF Skip, Capture, FoSkip
<1>8. ASSUME NEW p \in Proc, SaveFails(p) \/ Store(p) \/ FoStart(p)
      PROVE  UNCHANGED Service!vars
  BY <1>8, Unseen DEF SaveFails, Store, FoStart
<1>9. ASSUME NEW a \in Admin, NEW n \in Node,
             \/ FailCopy(a, n) \/ FailView(a) \/ FailStop(a) \/ FailMark(a) \/ FailEnd(a)
             \/ RecoverStart(a, n) \/ RecoverMark(a) \/ RecoverReload(a) \/ AdminTell(a)
      PROVE  UNCHANGED Service!vars
  BY <1>9, Unseen DEF FailCopy, FailView, FailStop, FailMark, FailEnd, RecoverStart,
                      RecoverMark, RecoverReload, AdminTell
<1>10. \E n \in Node : TRUE
  BY NAssumption DEF Node
<1> QED
  BY <1>0, <1>1, <1>2, <1>3, <1>4, <1>5, <1>6, <1>7, <1>8, <1>9, <1>10
  DEF Next, Routine, Fault, CheckpointStep, HeartbeatStep, AdminStep, Replication, Failover, Proc

(* The cluster is a MapService to its players: whatever heartbeats,        *)
(* checkpoints, failovers and admin commands do between each other's       *)
(* steps, a map changes by its own writes and by moving, and by a restart. *)
THEOREM ImplementsTheMapService == Spec => ImplementsMapService
<1>1. Init => Service!Init
  <2> SUFFICES ASSUME Init PROVE Service!Init
    OBVIOUS
  <2>1. /\ owners = InitOwner /\ disk = [m \in Map |-> None] /\ issued = [m \in Map |-> {}]
    BY DEF Init
  <2>2. \A m \in Map : Live(m) = {}
    BY PlacementAssumption DEF Init, BootWorld, Live
  <2> QED
    BY <2>1, <2>2 DEF Service!Init
<1>2. TypeOK /\ RoutingInv /\ Genuine /\ [Next]_vars
        => [Service!Next \/ (Restart /\ Service!Reboot)]_(Service!vars)
  BY ServiceStep
<1> QED
  BY <1>1, <1>2, GenuineInvariance, PTL DEF Spec, ImplementsMapService
=============================================================================
