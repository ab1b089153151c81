----------------------------- MODULE WorldBoss -----------------------------
(***************************************************************************)
(* The world boss of the Lab3 cluster: AttackBoss, its settlement and the  *)
(* respawn goroutine (cluster/cluster.go), with RewardPlayer               *)
(* (world/world.go).                                                       *)
(*                                                                         *)
(* A handler reads its player's profile, strikes under c.mu, and when the  *)
(* blow kills plans there the rewards that it applies after unlocking, one *)
(* player at a time.  Meanwhile players log out, switch maps or are moved  *)
(* by a failover.  One action is one critical section.                     *)
(*                                                                         *)
(* A place is a map on a node.  How players get there is the concern of    *)
(* Sessions: entering, leaving and switching have here only the steps that *)
(* a reward can tell apart.                                                *)
(***************************************************************************)
EXTENDS Naturals, FiniteSets, Totals

CONSTANTS
  User,    \* users; each has one handler
  Place,   \* hosted worlds
  MaxHP,   \* 1600 in newBossState
  Damage,  \* max(20, Attack + Treasures / 2)
  Nobody   \* no place, no last hit

ASSUME BossAssumption ==
  /\ IsFiniteSet(User) /\ MaxHP \in Nat \ {0} /\ Damage \subseteq Nat \ {0}
  /\ Nobody \notin User /\ Nobody \notin Place

ShareReward == 3
KillReward  == 6

VARIABLES
  hp,         \* boss.HP
  alive,      \* boss.Alive
  lastHit,    \* boss.LastHit
  dealt,      \* boss.Contributors: the damage of each contributor, or 0
  respawners, \* the number of goroutines in respawnBossAfterCooldown
  route,      \* the place a user's session names
  where,      \* the place that has his player
  pc,         \* where each handler is
  aim,        \* the damage it has worked out
  plan,       \* the rewards it has still to apply
  promised,   \* what the reward events have announced to each user
  paid        \* what RewardPlayer has added to his treasures

boss    == <<hp, alive, lastHit, dealt>>
players == <<route, where>>
handler == <<pc, aim, plan>>
account == <<promised, paid>>
vars    == <<boss, respawners, players, handler, account>>

Reward == [user : User, place : Place, amount : {ShareReward, KillReward}]

NewBoss ==
  /\ hp' = MaxHP /\ alive' = TRUE /\ lastHit' = Nobody
  /\ dealt' = [u \in User |-> 0]

NoUsers == [u \in User |-> Nobody]
Zero    == [u \in User |-> 0]

Init ==
  /\ hp = MaxHP /\ alive = TRUE /\ lastHit = Nobody /\ dealt = Zero
  /\ respawners = 0
  /\ route = NoUsers /\ where = NoUsers
  /\ pc = [u \in User |-> "idle"] /\ aim = Zero /\ plan = [u \in User |-> {}]
  /\ promised = Zero /\ paid = Zero

\* The boss is not saved: a restarted server makes a new one.
Restart ==
  /\ NewBoss
  /\ respawners' = 0
  /\ route' = NoUsers /\ where' = NoUsers
  /\ pc' = [u \in User |-> "idle"] /\ aim' = Zero /\ plan' = [u \in User |-> {}]
  /\ promised' = Zero /\ paid' = Zero

-----------------------------------------------------------------------------
(* AttackBoss of user u.                                                   *)

(* sessionNode, Profile and the distance test; a player out of reach gets  *)
(* an event and nothing else.  Whether he is alive is not asked.           *)
Aim(u, d) ==
  /\ pc[u] = "idle"
  /\ route[u] # Nobody /\ where[u] = route[u]
  /\ pc' = [pc EXCEPT ![u] = "strike"]
  /\ aim' = [aim EXCEPT ![u] = d]
  /\ UNCHANGED <<boss, respawners, players, plan, account>>

\* The boss is being reassembled: the blow is refused.
StrikeRefused(u) ==
  /\ pc[u] = "strike" /\ ~alive
  /\ pc' = [pc EXCEPT ![u] = "idle"]
  /\ aim' = [aim EXCEPT ![u] = 0]
  /\ UNCHANGED <<boss, respawners, players, plan, account>>

\* A blow that does not kill.
StrikeHit(u) ==
  /\ pc[u] = "strike" /\ alive /\ aim[u] < hp
  /\ hp' = hp - aim[u]
  /\ lastHit' = u
  /\ dealt' = [dealt EXCEPT ![u] = dealt[u] + aim[u]]
  /\ pc' = [pc EXCEPT ![u] = "idle"]
  /\ aim' = [aim EXCEPT ![u] = 0]
  /\ UNCHANGED <<alive, respawners, players, plan, account>>

Share(u, v) == IF v = u THEN KillReward ELSE ShareReward

\* Those who get a reward for u's fatal blow: contributors with a session.
Winners(u) == {v \in User : (dealt[v] > 0 \/ v = u) /\ route[v] # Nobody}

\* Mutant: the contributors of the last boss stay.
StrikeKillKeep(u) ==
  /\ pc[u] = "strike" /\ alive /\ aim[u] >= hp
  /\ hp' = 0 /\ alive' = FALSE /\ lastHit' = u
  /\ dealt' = [dealt EXCEPT ![u] = dealt[u] + aim[u]]
  /\ plan' = [plan EXCEPT ![u] = {[user |-> v, place |-> route[v], amount |-> Share(u, v)] :
                                   v \in Winners(u)}]
  /\ promised' = [v \in User |->
       IF v \in Winners(u) THEN promised[v] + Share(u, v) ELSE promised[v]]
  /\ pc' = [pc EXCEPT ![u] = "pay"]
  /\ aim' = [aim EXCEPT ![u] = 0]
  /\ UNCHANGED <<respawners, players, paid>>

\* Mutant: the hit points go below zero.
StrikeKillNoClamp(u) ==
  /\ pc[u] = "strike" /\ alive /\ aim[u] >= hp
  /\ hp' = hp - aim[u] /\ alive' = FALSE /\ lastHit' = u
  /\ dealt' = Zero
  /\ plan' = [plan EXCEPT ![u] = {[user |-> v, place |-> route[v], amount |-> Share(u, v)] :
                                   v \in Winners(u)}]
  /\ promised' = [v \in User |->
       IF v \in Winners(u) THEN promised[v] + Share(u, v) ELSE promised[v]]
  /\ pc' = [pc EXCEPT ![u] = "pay"]
  /\ aim' = [aim EXCEPT ![u] = 0]
  /\ UNCHANGED <<respawners, players, paid>>

\* The fatal blow: rewards are planned, and announced to the winners.
StrikeKill(u) ==
  /\ pc[u] = "strike" /\ alive /\ aim[u] >= hp
  /\ hp' = 0 /\ alive' = FALSE /\ lastHit' = u
  /\ dealt' = Zero
  /\ plan' = [plan EXCEPT ![u] = {[user |-> v, place |-> route[v], amount |-> Share(u, v)] :
                                   v \in Winners(u)}]
  /\ promised' = [v \in User |->
       IF v \in Winners(u) THEN promised[v] + Share(u, v) ELSE promised[v]]
  /\ pc' = [pc EXCEPT ![u] = "pay"]
  /\ aim' = [aim EXCEPT ![u] = 0]
  /\ UNCHANGED <<respawners, players, paid>>

\* Mutant: a reward that was applied stays in the plan.
PayAgain(u, r) ==
  /\ pc[u] = "pay" /\ r \in plan[u]
  /\ plan' = [plan EXCEPT ![u] = IF where[r.user] = r.place THEN @ ELSE @ \ {r}]
  /\ paid' = [paid EXCEPT ![r.user] =
       IF where[r.user] = r.place THEN paid[r.user] + r.amount ELSE paid[r.user]]
  /\ UNCHANGED <<boss, respawners, players, pc, aim, promised>>

\* RewardPlayer at the planned place: nothing if the player is not there.
Pay(u, r) ==
  /\ pc[u] = "pay" /\ r \in plan[u]
  /\ plan' = [plan EXCEPT ![u] = @ \ {r}]
  /\ paid' = [paid EXCEPT ![r.user] =
       IF where[r.user] = r.place THEN paid[r.user] + r.amount ELSE paid[r.user]]
  /\ UNCHANGED <<boss, respawners, players, pc, aim, promised>>

\* Mutant: no respawn when no contributor was online.
PaidUpIfAny(u) ==
  /\ pc[u] = "pay" /\ plan[u] = {}
  /\ pc' = [pc EXCEPT ![u] = "idle"]
  /\ respawners' = respawners + (IF route[u] # Nobody THEN 1 ELSE 0)
  /\ UNCHANGED <<boss, players, aim, plan, account>>

\* go c.respawnBossAfterCooldown()
PaidUp(u) ==
  /\ pc[u] = "pay" /\ plan[u] = {}
  /\ pc' = [pc EXCEPT ![u] = "idle"]
  /\ respawners' = respawners + 1
  /\ UNCHANGED <<boss, players, aim, plan, account>>

\* Mutant: the goroutine goes on to the next cooldown.
RespawnEver ==
  /\ respawners > 0
  /\ NewBoss
  /\ UNCHANGED <<respawners, players, handler, account>>

\* After the cooldown, whatever the boss is then, it is replaced.
Respawn ==
  /\ respawners > 0
  /\ respawners' = respawners - 1
  /\ NewBoss
  /\ UNCHANGED <<players, handler, account>>

-----------------------------------------------------------------------------
(* The players meanwhile.                                                  *)

\* Login: AddPlayer, and the session.
Enter(u, p) ==
  /\ route[u] = Nobody /\ pc[u] = "idle"
  /\ route' = [route EXCEPT ![u] = p]
  /\ where' = [where EXCEPT ![u] = p]
  /\ UNCHANGED <<boss, respawners, handler, account>>

\* Logout, perhaps by the ticker goroutine in the middle of an attack.
Leave(u) ==
  /\ route[u] # Nobody
  /\ route' = [route EXCEPT ![u] = Nobody]
  /\ where' = [where EXCEPT ![u] = Nobody]
  /\ UNCHANGED <<boss, respawners, handler, account>>

(* SwitchMap: the player, unless he is knocked down, is taken out, then    *)
(* put elsewhere and rerouted.                                             *)
SwitchOut(u) ==
  /\ route[u] # Nobody /\ where[u] = route[u] /\ pc[u] = "idle"
  /\ pc' = [pc EXCEPT ![u] = "switch"]
  /\ where' = [where EXCEPT ![u] = Nobody]
  /\ UNCHANGED <<boss, respawners, route, aim, plan, account>>

SwitchIn(u, p) ==
  /\ pc[u] = "switch" /\ p # route[u]
  /\ pc' = [pc EXCEPT ![u] = "idle"]
  /\ route' = [route EXCEPT ![u] = IF route[u] = Nobody THEN Nobody ELSE p]
  /\ where' = [where EXCEPT ![u] = p]
  /\ UNCHANGED <<boss, respawners, aim, plan, account>>

(* handleNodeFailure: the world at p, and its sessions, are now at q.  The *)
(* checkpoint it restores lists the users in `there': some may have come   *)
(* since, and some have left and are back.  Left out is the second player  *)
(* of a user who is in another world by now, where no session leads.       *)
Failover(p, q, there) ==
  /\ \A u \in User : where[u] # q /\ route[u] # q
  /\ \E u \in User : route[u] = p
  /\ \A u \in there : where[u] \in {p, Nobody}
  /\ route' = [u \in User |-> IF route[u] = p THEN q ELSE route[u]]
  /\ where' = [u \in User |-> IF u \in there THEN q
                             ELSE IF where[u] = p THEN Nobody ELSE where[u]]
  /\ UNCHANGED <<boss, respawners, handler, account>>

-----------------------------------------------------------------------------
AttackBoss(u) == \/ StrikeRefused(u) \/ StrikeHit(u) \/ StrikeKill(u) \/ PaidUp(u)
                 \/ \E r \in plan[u] : Pay(u, r)

Player(u) == \/ Leave(u) \/ SwitchOut(u)
             \/ \E p \in Place : Enter(u, p) \/ SwitchIn(u, p)

Next ==
  \/ \E u \in User : AttackBoss(u) \/ Player(u) \/ \E d \in Damage : Aim(u, d)
  \/ Respawn \/ Restart
  \/ \E p, q \in Place, there \in SUBSET User : Failover(p, q, there)

Spec == Init /\ [][Next]_vars

\* Handlers run on, and a goroutine that sleeps wakes up.
Fairness == WF_vars(Respawn) /\ \A u \in User : WF_vars(AttackBoss(u))

-----------------------------------------------------------------------------
(* Properties.                                                             *)

TypeOK ==
  /\ hp \in 0 .. MaxHP /\ alive \in BOOLEAN /\ lastHit \in User \cup {Nobody}
  /\ dealt \in [User -> Nat] /\ respawners \in Nat
  /\ route \in [User -> Place \cup {Nobody}] /\ where \in [User -> Place \cup {Nobody}]
  /\ pc \in [User -> {"idle", "strike", "pay", "switch"}]
  /\ aim \in [User -> Nat] /\ plan \in [User -> SUBSET Reward]
  /\ promised \in [User -> Nat] /\ paid \in [User -> Nat]

(* The hit points a living boss has lost are what the contributors of this *)
(* life have dealt: no blow is lost, none counts for the next boss, and a  *)
(* dead boss has no contributors left.                                     *)
DamageAccounted ==
  /\ alive <=> hp > 0
  /\ alive => hp + Total(dealt, User) = MaxHP
  /\ ~alive => Total(dealt, User) = 0

(* A dead boss is brought back by exactly one goroutine, once its killer's *)
(* handler has settled the rewards; a living boss by none.  So no cooldown *)
(* that is left over replaces a boss that is being fought.                 *)
OneRespawn ==
  respawners + Cardinality({u \in User : pc[u] = "pay"}) = IF alive THEN 0 ELSE 1

(* Rewards are paid at most once: what a user got and what is still to be  *)
(* paid to him is not more than was announced.                             *)
PaidAtMostOnce ==
  \A u \in User :
    LET due == {r \in UNION {plan[v] : v \in User} : r.user = u}
    IN  /\ Cardinality(due) <= 1
        /\ \A r \in due : paid[u] + r.amount <= promised[u]
        /\ paid[u] <= promised[u]

(* The handlers, with their unlocked reads and their settlement after the  *)
(* unlock, implement one boss struck one blow at a time, which comes back  *)
(* every time it dies.                                                     *)
Shared == INSTANCE SharedBoss WITH
  User <- User, MaxHP <- MaxHP, Damage <- Damage, Nobody <- Nobody, hp <- hp, lastHit <- lastHit
ImplementsShared == Shared!Spec

-----------------------------------------------------------------------------
(* What the documentation promises and the code does not keep.             *)

(* "You took part in the settlement of the world boss, treasures +n"       *)
(* (cluster.go:376): when no settlement is under way, what was announced   *)
(* has been added.                                                         *)
AnnouncedIsPaid ==
  (\A u \in User : pc[u] # "pay") => paid = promised
=============================================================================
