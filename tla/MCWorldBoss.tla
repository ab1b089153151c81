---------------------------- MODULE MCWorldBoss ----------------------------
(* Bounds for model checking WorldBoss.                                    *)
EXTENDS WorldBoss, TLC

CONSTANT MaxAttacks, MaxMoves
VARIABLES attacks, moves   \* attacks started, steps of players and faults

MCInit == Init /\ attacks = 0 /\ moves = 0

Move == \/ \E u \in User : Player(u)
        \/ Restart
        \/ \E p, q \in Place, there \in SUBSET User : Failover(p, q, there)

MCNext ==
  \/ /\ (\E u \in User : AttackBoss(u)) \/ Respawn
     /\ UNCHANGED <<attacks, moves>>
  \/ /\ attacks < MaxAttacks /\ attacks' = attacks + 1
     /\ \E u \in User, d \in Damage : Aim(u, d)
     /\ UNCHANGED moves
  \/ /\ moves < MaxMoves /\ moves' = moves + 1
     /\ Move
     /\ UNCHANGED attacks

MCSpec == MCInit /\ [][MCNext]_<<vars, attacks, moves>>
MCLiveSpec == MCSpec /\ Fairness

Symmetry == Permutations(User) \cup Permutations(Place)
=============================================================================
