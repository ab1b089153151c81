----------------------------- MODULE MCSessions -----------------------------
(* Bounds for model checking Sessions.                                     *)
EXTENDS Sessions, TLC

CONSTANTS green, cave, a, b

MCInitOwner == [m \in Map |-> IF m = green THEN a ELSE b]

CONSTANTS MaxRequests, MaxFailures
VARIABLES requests, failures   \* how many there were

MCInit == Init /\ requests = 0 /\ failures = 0

MCNext ==
  \/ /\ Work \/ \E u \in User : Register(u)
     /\ UNCHANGED <<requests, failures>>
  \/ /\ requests < MaxRequests /\ requests' = requests + 1
     /\ ClientRequest \/ Background
     /\ UNCHANGED failures
  \/ /\ failures < MaxFailures /\ failures' = failures + 1
     /\ \/ Failure /\ UNCHANGED requests
        \/ requests < MaxRequests /\ requests' = requests + 1 /\ Restart

MCSpec == MCInit /\ [][MCNext]_<<vars, requests, failures>>

Symmetry == Permutations(Conn) \cup Permutations(Object)
=============================================================================
