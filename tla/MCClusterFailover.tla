------------------------- MODULE MCClusterFailover -------------------------
(* Placements and symmetry for model checking ClusterFailover.             *)
EXTENDS ClusterFailover, TLC

CONSTANTS green, cave, ruins

\* assignments in NewCluster (cluster.go:84-91); nodes a, b, c are 1, 2, 3
MCInitOwner   == [m \in Map |-> CASE m = green -> 1 [] m = cave -> 2 [] m = ruins -> 1]
MCInitReplica == [m \in Map |-> CASE m = green -> 3 [] m = cave -> 3 [] m = ruins -> 2]

CONSTANT MaxFaults
VARIABLE faults   \* restarts, ping timeouts and admin commands so far

MCInit == Init /\ faults = 0
MCNext ==
  \/ Routine /\ UNCHANGED faults
  \/ Fault /\ faults < MaxFaults /\ faults' = faults + 1

MCSpec == MCInit /\ [][MCNext]_<<vars, faults>>

MCLiveSpec == MCSpec /\ Fairness

Symmetry == Permutations(Write) \cup Permutations(Admin)
=============================================================================
