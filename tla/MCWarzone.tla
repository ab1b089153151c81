----------------------------- MODULE MCWarzone -----------------------------
(* Bounds for model checking Warzone.                                      *)
EXTENDS Warzone

CONSTANTS
  MaxAccepts,   \* connections accepted
  MaxHangUps,   \* connections that their client ends
  MaxMoves,     \* steps on the map and weapons that appear
  MaxFaults,    \* failed logins, lost names, late heartbeats
  MaxRestarts,  \* of the server
  Budget        \* for all but the hang-ups together; a fault counts for three

VARIABLES hangUps, moves, faults, restarts

counters == <<hangUps, moves, faults, restarts>>

MCInit == Init /\ hangUps = 0 /\ moves = 0 /\ faults = 0 /\ restarts = 0

Left == Budget - (accepted + moves + 3 * faults + restarts)

Uncounted ==
  \/ Kick
  \/ \E c \in Conns :
       \/ touchHB(c) \/ Join(c) \/ JoinFull(c) \/ Ready(c) \/ Wound(c) \/ Kill(c)
       \/ \E u \in User \ Comment : Register(c, u) \/ Login(c, u)
       \/ Cleanup(c) \/ Watch(c)

MCNext ==
  \/ /\ Uncounted
     /\ UNCHANGED counters
  \/ /\ accepted < MaxAccepts /\ Left >= 1
     /\ Accept
     /\ UNCHANGED counters
  \/ /\ hangUps < MaxHangUps /\ hangUps' = hangUps + 1
     /\ \E c \in Conns : HangUp(c)
     /\ UNCHANGED <<moves, faults, restarts>>
  \/ /\ moves < MaxMoves /\ Left >= 1 /\ moves' = moves + 1
     /\ SpawnWeapon \/ \E c \in Conns : Move(c)
     /\ UNCHANGED <<hangUps, faults, restarts>>
  \/ /\ faults < MaxFaults /\ Left >= 3 /\ faults' = faults + 1
     /\ \E c \in Conns : AuthFails(c) \/ GoSilent(c) \/ \E u \in Comment : Register(c, u)
     /\ UNCHANGED <<hangUps, moves, restarts>>
  \/ /\ restarts < MaxRestarts /\ Left >= 1 /\ restarts' = restarts + 1
     /\ Restart
     /\ UNCHANGED <<hangUps, moves, faults>>

MCSpec == MCInit /\ [][MCNext]_<<vars, counters>>
=============================================================================
