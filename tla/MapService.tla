----------------------------- MODULE MapService -----------------------------
(***************************************************************************)
(* What the Lab3 cluster is to the players of a map while the server runs: *)
(* one copy, at one node, that every write they see goes to, and one file. *)
(* Nodes, replicas, goroutines and locks are not to be seen.  A map that   *)
(* moves may lose writes, and so may one that is started again, but it     *)
(* never has a write that was not made on it.                              *)
(***************************************************************************)
CONSTANTS Map, Node, Write, None, InitOwner

VARIABLES
  owner,    \* where each map is
  live,     \* the writes its players see
  file,     \* the writes in its checkpoint file, or None
  accepted  \* the writes made on it so far
vars == <<owner, live, file, accepted>>

Boot(m) == IF file[m] = None THEN {} ELSE file[m]

Init ==
  /\ owner = InitOwner
  /\ live = [m \in Map |-> {}]
  /\ file = [m \in Map |-> None]
  /\ accepted = [m \in Map |-> {}]

Accept(m, w) ==
  /\ \A k \in Map : w \notin accepted[k]
  /\ accepted' = [accepted EXCEPT ![m] = @ \cup {w}]
  /\ UNCHANGED <<owner, file>>

\* A write that is seen at once ...
Play(m, w) == Accept(m, w) /\ live' = [live EXCEPT ![m] = @ \cup {w}]

\* ... and one on a copy that is only about to be the one.
Stray(m, w) == Accept(m, w) /\ UNCHANGED live

\* A checkpoint is of some moment before, and may be older than the last.
Keep(m) ==
  /\ \E c \in SUBSET accepted[m] : file' = [file EXCEPT ![m] = c]
  /\ UNCHANGED <<owner, live, accepted>>

Move(m, n) ==
  /\ n # owner[m] /\ owner' = [owner EXCEPT ![m] = n]
  /\ \E c \in SUBSET accepted[m] : live' = [live EXCEPT ![m] = c]
  /\ UNCHANGED <<file, accepted>>

\* The server is started again: every map is where it began, from its file.
Reboot ==
  /\ owner' = InitOwner
  /\ live' = [m \in Map |-> Boot(m)]
  /\ UNCHANGED <<file, accepted>>

Next ==
  \E m \in Map :
    \/ \E w \in Write : Play(m, w) \/ Stray(m, w)
    \/ Keep(m)
    \/ \E n \in Node : Move(m, n)

Spec == Init /\ [][Next \/ Reboot]_vars
=============================================================================
