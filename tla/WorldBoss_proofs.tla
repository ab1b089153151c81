-------------------------- MODULE WorldBoss_proofs --------------------------
(***************************************************************************)
(* That the variables of WorldBoss keep their types, that a dead boss is   *)
(* brought back by exactly one goroutine, that rewards are paid at most    *)
(* once, and that every step is a step of SharedBoss or none, for any      *)
(* users, places, hit points and blows.                                    *)
(*                                                                         *)
(* All of it rests on one fact: at any moment there is either a living     *)
(* boss, or one handler that settles its death, or one goroutine that      *)
(* waits to bring it back (OneSettler).  What is in the plan of that       *)
(* handler has been announced and is not paid yet (Planned).               *)
(***************************************************************************)
EXTENDS WorldBoss, FiniteSetTheorems, TLAPS

Settles(u) == pc[u] = "pay"

OneSettler ==
  /\ alive <=> hp > 0
  /\ alive => respawners = 0 /\ \A u \in User : ~Settles(u)
  /\ ~alive => \/ respawners = 1 /\ \A u \in User : ~Settles(u)
               \/ respawners = 0 /\ \E u \in User : Settles(u) /\ \A v \in User : Settles(v) => v = u

\* A handler that is about to strike knows with what; a plan is the settler's.
Handlers ==
  \A u \in User : /\ pc[u] = "strike" => aim[u] \in Damage
                  /\ ~Settles(u) => plan[u] = {}

Planned ==
  \A u \in User : \A r \in plan[u] :
    /\ paid[r.user] + r.amount <= promised[r.user]
    /\ \A s \in plan[u] : s.user = r.user => s = r

Solvent == \A u \in User : paid[u] <= promised[u]

\* What a living boss has lost has been dealt; a dead one has no contributors.
Tally == /\ alive => hp + Total(dealt, User) = MaxHP
         /\ ~alive => dealt = Zero

BossInv == TypeOK /\ OneSettler /\ Handlers /\ Planned /\ Solvent /\ Tally

-----------------------------------------------------------------------------
(* Totals.                                                                 *)

\* Finitely many members have finitely many points.
LEMMA PointsFinite ==
  ASSUME NEW S, IsFiniteSet(S), NEW f, \A x \in S : f[x] \in Nat
  PROVE  IsFiniteSet(Points(f, S)) /\ Total(f, S) \in Nat
<1>. DEFINE P == [x \in S |-> {x} \X (1..f[x])]
            R == {P[x] : x \in S}
<1>1. IsFiniteSet(R)
  <2>1. P \in Surjection(S, R)
    BY DEF Surjection
  <2>. HIDE DEF P, R
  <2>. QED  BY <2>1, FS_Surjection
<1>2. \A T \in R : IsFiniteSet(T)
  <2>. SUFFICES ASSUME NEW x \in S PROVE IsFiniteSet({x} \X (1..f[x]))
    OBVIOUS
  <2>1. 1 \in Int /\ f[x] \in Int
    OBVIOUS
  <2>2. IsFiniteSet({x}) /\ IsFiniteSet(1..f[x])
    BY <2>1, FS_Singleton, FS_Interval
  <2>. QED  BY <2>2, FS_Product
<1>3. Points(f, S) = UNION R
  BY DEF Points
<1>. HIDE DEF R
<1>4. IsFiniteSet(Points(f, S))
  BY <1>1, <1>2, <1>3, FS_UNION
<1>. QED  BY <1>4, FS_CardinalityType DEF Total

\* Who gets d more makes the total d more.
LEMMA TotalAdd ==
  ASSUME NEW S, IsFiniteSet(S), NEW f \in [S -> Nat], NEW u \in S, NEW d \in Nat
  PROVE  Total([f EXCEPT ![u] = f[u] + d], S) = Total(f, S) + d
<1>. DEFINE h == [f EXCEPT ![u] = f[u] + d]
            A == Points(f, S)
            I == (f[u] + 1)..(f[u] + d)
            B == {u} \X I
<1>1. f[u] \in Nat /\ h[u] = f[u] + d /\ \A x \in S \ {u} : h[x] = f[x]
  OBVIOUS
<1>2. IsFiniteSet(A) /\ Cardinality(A) \in Nat /\ Cardinality(A) = Total(f, S)
  BY PointsFinite DEF Total
<1>3. IsFiniteSet(B) /\ Cardinality(B) = d
  <2>1. IsFiniteSet(I) /\ Cardinality(I) = d
    <3>1. PICK a \in Int, b \in Int : a = f[u] + 1 /\ b = f[u] + d
      BY <1>1
    <3>2. IsFiniteSet(a..b) /\ Cardinality(a..b) = IF a > b THEN 0 ELSE b - a + 1
      BY FS_Interval
    <3>. QED  BY <1>1, <3>1, <3>2
  <2>2. IsFiniteSet({u}) /\ Cardinality({u}) = 1
    BY FS_Singleton
  <2>. HIDE DEF I
  <2>3. IsFiniteSet(B) /\ Cardinality(B) = 1 * d
    BY <2>1, <2>2, FS_Product
  <2>. QED  BY <2>3
<1>4. A \cap B = {}
  <2>1. \A p \in A : p[1] \in S /\ p[2] \in 1..f[p[1]]
    BY DEF Points
  <2>2. \A p \in B : p[1] = u /\ p[2] \in I
    OBVIOUS
  <2>. QED  BY <1>1, <2>1, <2>2
<1>5. Points(h, S) = A \cup B
  <2>1. 1..h[u] = (1..f[u]) \cup I
    BY <1>1
  <2>2. {u} \X (1..h[u]) = ({u} \X (1..f[u])) \cup B
    BY <2>1
  <2>3. \A x \in S \ {u} : {x} \X (1..h[x]) = {x} \X (1..f[x])
    BY <1>1
  <2>. HIDE DEF B, h
  <2>. QED  BY <2>2, <2>3 DEF Points
<1>. HIDE DEF A, B, h
<1>6. Cardinality(A \cup B) = Cardinality(A) + Cardinality(B) - Cardinality(A \cap B)
  BY <1>2, <1>3, FS_Union
<1>7. Cardinality(A \cap B) = 0
  BY <1>4, FS_EmptySet
<1>8. Total(h, S) = Total(f, S) + d
  BY <1>2, <1>3, <1>5, <1>6, <1>7 DEF Total
<1>. QED  BY <1>8 DEF h

LEMMA TotalZero ==
  ASSUME NEW S, NEW f, \A x \in S : f[x] = 0
  PROVE  Total(f, S) = 0
<1>1. Points(f, S) = {}
  BY DEF Points
<1>. QED  BY <1>1, FS_EmptySet DEF Total

\* Nobody has hurt a new boss.
LEMMA ZeroTotal == Total(Zero, User) = 0
BY TotalZero DEF Zero

-----------------------------------------------------------------------------
\* In the first state, and after a restart, the boss is whole and nobody is in.
LEMMA InitOK == Init => BossInv
BY BossAssumption, ZeroTotal
   DEF Init, Zero, NoUsers, BossInv, TypeOK, OneSettler, Handlers, Planned, Solvent, Settles, Tally

LEMMA RestartStep == Restart => BossInv'
<1>. SUFFICES ASSUME Restart PROVE BossInv'
  OBVIOUS
<1>. USE BossAssumption DEF Restart, NewBoss, Zero, NoUsers
<1>1. TypeOK'
  BY DEF TypeOK
<1>2. OneSettler' /\ Handlers' /\ Planned' /\ Solvent' /\ Tally'
  BY ZeroTotal DEF OneSettler, Handlers, Planned, Solvent, Settles, Tally
<1>. QED  BY <1>1, <1>2 DEF BossInv

\* Players who come and go, and the failover that moves them, change nothing here.
LEMMA PlayersStep ==
  ASSUME BossInv, UNCHANGED <<boss, respawners, aim, plan, account>>,
         players' \in {<<r, w>> : r, w \in [User -> Place \cup {Nobody}]},
         pc' \in [User -> {"idle", "strike", "pay", "switch"}],
         \A u \in User : pc'[u] = pc[u] \/ {pc[u], pc'[u]} \cap {"strike", "pay"} = {}
  PROVE  BossInv'
<1>1. UNCHANGED <<hp, alive, lastHit, dealt, respawners, aim, plan, promised, paid>>
  BY DEF boss, account
<1>2. route' \in [User -> Place \cup {Nobody}] /\ where' \in [User -> Place \cup {Nobody}]
  BY DEF players
<1>3. \A u \in User : /\ Settles(u)' <=> Settles(u)
                      /\ pc'[u] = "strike" <=> pc[u] = "strike"
  BY DEF Settles
<1>4. TypeOK'
  BY <1>1, <1>2 DEF BossInv, TypeOK, Reward
<1>5. OneSettler' /\ Handlers' /\ Planned' /\ Solvent' /\ Tally'
  BY <1>1, <1>3 DEF BossInv, OneSettler, Handlers, Planned, Solvent, Tally
<1>. QED  BY <1>4, <1>5 DEF BossInv

LEMMA PlayerStep ==
  ASSUME BossInv, NEW u \in User, Player(u)
  PROVE  BossInv'
<1>1. /\ route \in [User -> Place \cup {Nobody}] /\ where \in [User -> Place \cup {Nobody}]
      /\ pc \in [User -> {"idle", "strike", "pay", "switch"}]
  BY DEF BossInv, TypeOK
<1>2. UNCHANGED <<boss, respawners, aim, plan, account>>
  BY DEF Player, Enter, Leave, SwitchOut, SwitchIn, handler
<1>3. route' \in [User -> Place \cup {Nobody}] /\ where' \in [User -> Place \cup {Nobody}]
  BY <1>1 DEF Player, Enter, Leave, SwitchOut, SwitchIn
<1>4. /\ pc' \in [User -> {"idle", "strike", "pay", "switch"}]
      /\ \A v \in User : pc'[v] = pc[v] \/ {pc[v], pc'[v]} \cap {"strike", "pay"} = {}
  BY <1>1 DEF Player, Enter, Leave, SwitchOut, SwitchIn, handler
<1>. QED  BY <1>2, <1>3, <1>4, PlayersStep DEF players

LEMMA FailoverStep ==
  ASSUME BossInv, NEW p \in Place, NEW q \in Place, NEW there \in SUBSET User,
         Failover(p, q, there)
  PROVE  BossInv'
<1>1. UNCHANGED <<boss, respawners, aim, plan, account, pc>>
  BY DEF Failover, handler
<1>2. route' \in [User -> Place \cup {Nobody}] /\ where' \in [User -> Place \cup {Nobody}]
  BY DEF Failover, BossInv, TypeOK
<1>3. pc' \in [User -> {"idle", "strike", "pay", "switch"}]
  BY <1>1 DEF BossInv, TypeOK
<1>. QED  BY <1>1, <1>2, <1>3, PlayersStep DEF players

-----------------------------------------------------------------------------
(* The handler of AttackBoss.                                              *)

LEMMA AimStep ==
  ASSUME BossInv, NEW u \in User, NEW d \in Damage, Aim(u, d)
  PROVE  BossInv'
<1>. USE DEF Aim, boss, players, account
<1>1. TypeOK'
  BY BossAssumption DEF BossInv, TypeOK, Reward
<1>2. \A v \in User : Settles(v)' <=> Settles(v)
  BY DEF Settles, BossInv, TypeOK
<1>3. OneSettler' /\ Planned' /\ Solvent' /\ Tally'
  BY <1>2 DEF BossInv, OneSettler, Planned, Solvent, Tally
<1>4. Handlers'
  BY <1>2 DEF BossInv, TypeOK, Handlers
<1>. QED  BY <1>1, <1>3, <1>4 DEF BossInv

LEMMA RefusedStep ==
  ASSUME BossInv, NEW u \in User, StrikeRefused(u)
  PROVE  BossInv'
<1>. USE DEF StrikeRefused, boss, players, account
<1>1. TypeOK'
  BY DEF BossInv, TypeOK, Reward
<1>2. \A v \in User : Settles(v)' <=> Settles(v)
  BY DEF Settles, BossInv, TypeOK
<1>3. OneSettler' /\ Planned' /\ Solvent' /\ Tally'
  BY <1>2 DEF BossInv, OneSettler, Planned, Solvent, Tally
<1>4. Handlers'
  BY <1>2 DEF BossInv, TypeOK, Handlers
<1>. QED  BY <1>1, <1>3, <1>4 DEF BossInv

LEMMA HitStep ==
  ASSUME BossInv, NEW u \in User, StrikeHit(u)
  PROVE  BossInv'
<1>. USE DEF StrikeHit, players, account
<1>1. hp \in 0..MaxHP /\ aim[u] \in Nat /\ MaxHP \in Nat /\ dealt \in [User -> Nat]
  BY BossAssumption DEF BossInv, TypeOK
<1>2. hp' \in 0..MaxHP /\ hp' > 0 /\ dealt' \in [User -> Nat]
  BY <1>1
<1>3. TypeOK'
  BY <1>2 DEF BossInv, TypeOK, Reward
<1>4. \A v \in User : Settles(v)' <=> Settles(v)
  BY DEF Settles, BossInv, TypeOK
<1>5. OneSettler'
  BY <1>2, <1>4 DEF BossInv, OneSettler
<1>6. Planned' /\ Solvent'
  BY DEF BossInv, Planned, Solvent
<1>7. Handlers'
  BY <1>4 DEF BossInv, TypeOK, Handlers
<1>8. Tally'
  <2>1. Total(dealt', User) = Total(dealt, User) + aim[u] /\ Total(dealt, User) \in Nat
    <3>1. dealt' = [dealt EXCEPT ![u] = dealt[u] + aim[u]]
      OBVIOUS
    <3>2. IsFiniteSet(User)
      BY BossAssumption
    <3>3. Total([dealt EXCEPT ![u] = dealt[u] + aim[u]], User) = Total(dealt, User) + aim[u]
      BY <1>1, <3>2, TotalAdd
    <3>4. Total(dealt, User) \in Nat
      BY <1>1, <3>2, PointsFinite
    <3>. QED  BY <3>1, <3>3, <3>4
  <2>2. hp + Total(dealt, User) = MaxHP /\ hp' = hp - aim[u] /\ alive /\ UNCHANGED alive
    BY DEF BossInv, Tally
  <2>. QED  BY <1>1, <2>1, <2>2 DEF Tally
<1>. QED  BY <1>3, <1>5, <1>6, <1>7, <1>8 DEF BossInv

(* The fatal blow: nobody was settling, and what is planned now is what is *)
(* announced now, once to each winner.                                     *)
LEMMA KillStep ==
  ASSUME BossInv, NEW u \in User, StrikeKill(u)
  PROVE  BossInv'
<1>. DEFINE R(v) == [user |-> v, place |-> route[v], amount |-> Share(u, v)]
<1>1. /\ alive /\ hp' = 0 /\ alive' = FALSE /\ lastHit' = u /\ dealt' = Zero
      /\ plan' = [plan EXCEPT ![u] = {R(v) : v \in Winners(u)}]
      /\ promised' = [v \in User |->
           IF v \in Winners(u) THEN promised[v] + Share(u, v) ELSE promised[v]]
      /\ pc' = [pc EXCEPT ![u] = "pay"] /\ aim' = [aim EXCEPT ![u] = 0]
      /\ UNCHANGED <<respawners, route, where, paid>>
  BY DEF StrikeKill, players
<1>2. \A v \in User : Share(u, v) \in {ShareReward, KillReward} /\ Share(u, v) \in Nat
  BY DEF Share, ShareReward, KillReward
<1>3. \A v \in Winners(u) : v \in User /\ R(v) \in Reward
  BY <1>2 DEF Winners, Reward, BossInv, TypeOK
<1>4. TypeOK'
  <2>1. plan' \in [User -> SUBSET Reward]
    BY <1>1, <1>3 DEF BossInv, TypeOK
  <2>2. promised' \in [User -> Nat]
    BY <1>1, <1>2 DEF BossInv, TypeOK
  <2>3. /\ hp' \in 0..MaxHP /\ alive' \in BOOLEAN /\ lastHit' \in User \cup {Nobody}
        /\ dealt' \in [User -> Nat]
    <3>1. 0 \in 0..MaxHP /\ Zero \in [User -> Nat]
      BY BossAssumption DEF Zero
    <3>. QED  BY <1>1, <3>1
  <2>4. /\ pc' \in [User -> {"idle", "strike", "pay", "switch"}] /\ aim' \in [User -> Nat]
        /\ respawners' \in Nat /\ paid' \in [User -> Nat]
        /\ route' \in [User -> Place \cup {Nobody}] /\ where' \in [User -> Place \cup {Nobody}]
    BY <1>1 DEF BossInv, TypeOK
  <2>. QED  BY <2>1, <2>2, <2>3, <2>4 DEF TypeOK, Reward, ShareReward, KillReward
<1>5. respawners = 0 /\ \A v \in User : ~Settles(v) /\ plan[v] = {}
  BY <1>1 DEF BossInv, OneSettler, Handlers, Tally
<1>6. \A v \in User : Settles(v)' <=> v = u
  BY <1>1, <1>5 DEF Settles, BossInv, TypeOK
<1>7. OneSettler'
  BY <1>1, <1>5, <1>6 DEF OneSettler
<1>8. Handlers'
  BY <1>1, <1>5, <1>6 DEF BossInv, TypeOK, Handlers
<1>9. Planned'
  <2>1. plan'[u] = {R(v) : v \in Winners(u)} /\ \A v \in User \ {u} : plan'[v] = {}
    BY <1>1, <1>5 DEF BossInv, TypeOK
  <2>2. ASSUME NEW v \in Winners(u)
        PROVE  paid'[v] + Share(u, v) <= promised'[v]
    <3>1. promised'[v] = promised[v] + Share(u, v) /\ paid'[v] = paid[v]
      BY <1>1, <1>3
    <3>2. paid[v] \in Nat /\ promised[v] \in Nat /\ paid[v] <= promised[v]
      BY <1>3 DEF BossInv, TypeOK, Solvent
    <3>3. Share(u, v) \in Nat
      BY <1>2, <1>3
    <3>. QED  BY <3>1, <3>2, <3>3
  <2>. QED  BY <2>1, <2>2 DEF Planned
<1>10. Solvent'
  <2>. SUFFICES ASSUME NEW v \in User PROVE paid'[v] <= promised'[v]
    BY DEF Solvent
  <2>1. paid[v] \in Nat /\ promised[v] \in Nat /\ paid[v] <= promised[v]
    BY DEF BossInv, TypeOK, Solvent
  <2>2. promised'[v] = promised[v] + Share(u, v) \/ promised'[v] = promised[v]
    BY <1>1
  <2>. QED  BY <1>1, <1>2, <2>1, <2>2
<1>11. Tally'
  BY <1>1 DEF Tally
<1>. QED  BY <1>4, <1>7, <1>8, <1>9, <1>10, <1>11 DEF BossInv

(* A payment takes its reward out of the plan, so that what was announced  *)
(* still covers what is left.                                              *)
LEMMA PayStep ==
  ASSUME BossInv, NEW u \in User, NEW r \in plan[u], Pay(u, r)
  PROVE  BossInv'
<1>1. /\ Settles(u)
      /\ plan' = [plan EXCEPT ![u] = plan[u] \ {r}]
      /\ paid' = [paid EXCEPT ![r.user] =
           IF where[r.user] = r.place THEN paid[r.user] + r.amount ELSE paid[r.user]]
      /\ UNCHANGED <<hp, alive, lastHit, dealt, respawners, route, where, pc, aim, promised>>
  BY DEF Pay, Settles, boss, players
<1>2. plan \in [User -> SUBSET Reward] /\ paid \in [User -> Nat] /\ promised \in [User -> Nat]
  BY DEF BossInv, TypeOK
<1>3. r.user \in User /\ r.amount \in Nat
  BY <1>2 DEF Reward, ShareReward, KillReward
<1>4. /\ \A v \in User \ {r.user} : paid'[v] = paid[v]
      /\ paid'[r.user] = paid[r.user] \/ paid'[r.user] = paid[r.user] + r.amount
      /\ paid' \in [User -> Nat]
  BY <1>1, <1>2, <1>3
<1>5. /\ plan'[u] = plan[u] \ {r} /\ \A v \in User \ {u} : plan'[v] = plan[v]
      /\ plan' \in [User -> SUBSET Reward]
  BY <1>1, <1>2
<1>6. TypeOK'
  BY <1>1, <1>4, <1>5 DEF BossInv, TypeOK, Reward, ShareReward, KillReward
<1>7. OneSettler' /\ Handlers' /\ Tally'
  <2>1. \A v \in User : Settles(v)' <=> Settles(v)
    BY <1>1 DEF Settles
  <2>. QED  BY <1>1, <1>5, <2>1 DEF BossInv, OneSettler, Handlers, Tally
<1>8. \A v \in User : v # u => plan[v] = {}
  BY <1>1 DEF BossInv, OneSettler, Handlers
<1>9. Planned'
  <2>1. ASSUME NEW s \in plan[u] \ {r} PROVE s.user \in User /\ s.user # r.user
    BY <1>2 DEF Reward, BossInv, Planned
  <2>2. ASSUME NEW s \in plan[u] \ {r} PROVE paid'[s.user] + s.amount <= promised[s.user]
    BY <1>4, <2>1 DEF BossInv, Planned
  <2>3. \A s, t \in plan[u] : t.user = s.user => t = s
    BY DEF BossInv, Planned
  <2>. QED  BY <1>1, <1>5, <1>8, <2>2, <2>3 DEF Planned
<1>10. Solvent'
  <2>1. paid[r.user] + r.amount <= promised[r.user]
    BY DEF BossInv, Planned
  <2>2. paid'[r.user] <= promised'[r.user]
    BY <1>1, <1>3, <1>4, <2>1 DEF BossInv, Solvent
  <2>. QED  BY <1>1, <1>4, <2>2 DEF BossInv, Solvent
<1>. QED  BY <1>6, <1>7, <1>9, <1>10 DEF BossInv

\* The settler hands over to the goroutine that waits.
LEMMA PaidUpStep ==
  ASSUME BossInv, NEW u \in User, PaidUp(u)
  PROVE  BossInv'
<1>. USE DEF PaidUp, boss, players, account
<1>1. TypeOK'
  BY DEF BossInv, TypeOK, Reward
<1>2. \A v \in User : Settles(v)' <=> Settles(v) /\ v # u
  BY DEF Settles, BossInv, TypeOK
<1>3. Settles(u) /\ ~alive /\ respawners = 0 /\ \A v \in User : Settles(v) => v = u
  BY DEF Settles, BossInv, OneSettler
<1>4. OneSettler'
  BY <1>2, <1>3 DEF BossInv, OneSettler
<1>5. Planned' /\ Solvent' /\ Tally'
  BY DEF BossInv, Planned, Solvent, Tally
<1>6. Handlers'
  BY <1>2 DEF BossInv, TypeOK, Handlers
<1>. QED  BY <1>1, <1>4, <1>5, <1>6 DEF BossInv

\* A goroutine that waits waits for a dead boss, and is the only one.
LEMMA RespawnStep ==
  ASSUME BossInv, Respawn
  PROVE  BossInv' /\ hp = 0
<1>. USE DEF Respawn, NewBoss, players, handler, account
<1>1. ~alive /\ respawners = 1 /\ \A v \in User : ~Settles(v)
  BY DEF BossInv, TypeOK, OneSettler
<1>2. TypeOK'
  BY <1>1, BossAssumption DEF BossInv, TypeOK, Reward
<1>3. OneSettler' /\ Handlers' /\ Planned' /\ Solvent' /\ Tally'
  BY <1>1, BossAssumption, ZeroTotal
     DEF BossInv, OneSettler, Handlers, Planned, Solvent, Settles, Tally, Zero
<1>4. hp = 0
  BY <1>1, BossAssumption DEF BossInv, TypeOK, OneSettler
<1>. QED  BY <1>2, <1>3, <1>4 DEF BossInv

-----------------------------------------------------------------------------
\* Every step keeps the invariant.
LEMMA BossNext == BossInv /\ [Next]_vars => BossInv'
<1>. SUFFICES ASSUME BossInv, [Next]_vars PROVE BossInv'
  OBVIOUS
<1>1. ASSUME NEW u \in User, AttackBoss(u) PROVE BossInv'
  BY <1>1, RefusedStep, HitStep, KillStep, PaidUpStep, PayStep DEF AttackBoss
<1>2. CASE UNCHANGED vars
  <2>1. UNCHANGED <<hp, alive, lastHit, dealt, respawners, route, where, pc, aim, plan, promised, paid>>
    BY <1>2 DEF vars, boss, players, handler, account
  <2>2. TypeOK'
    BY <2>1 DEF BossInv, TypeOK, Reward
  <2>3. OneSettler' /\ Handlers' /\ Planned' /\ Solvent' /\ Tally'
    BY <2>1 DEF BossInv, OneSettler, Handlers, Planned, Solvent, Settles, Tally
  <2>. QED  BY <2>2, <2>3 DEF BossInv
<1>. QED
  BY <1>1, <1>2, PlayerStep, AimStep, RespawnStep, RestartStep, FailoverStep DEF Next

LEMMA BossInvAlways == Spec => []BossInv
BY InitOK, BossNext, PTL DEF Spec

(* The variables of AttackBoss, RewardPlayer and the respawn goroutine     *)
(* keep their types; the boss never has less than no hit points.           *)
THEOREM BossTypeCorrect == Spec => []TypeOK
BY BossInvAlways, PTL DEF BossInv

(* No blow is lost and none counts for the next boss: the hit points that  *)
(* a living boss has lost are what boss.Contributors says has been dealt,  *)
(* and a dead one has no contributors (AttackBoss), for any users and      *)
(* blows.                                                                  *)
THEOREM DamageAccountedAlways == Spec => []DamageAccounted
<1>1. BossInv => DamageAccounted
  BY ZeroTotal DEF BossInv, OneSettler, Tally, DamageAccounted
<1>. QED  BY <1>1, BossInvAlways, PTL

(* A dead boss is brought back by exactly one goroutine, which the handler *)
(* that settled its death started, and a living boss by none               *)
(* (respawnBossAfterCooldown), for any users.                              *)
THEOREM OneRespawnAlways == Spec => []OneRespawn
<1>1. BossInv => OneRespawn
  <2>. SUFFICES ASSUME BossInv PROVE OneRespawn
    OBVIOUS
  <2>. DEFINE S == {u \in User : pc[u] = "pay"}
  <2>1. CASE \A u \in User : ~Settles(u)
    <3>1. Cardinality(S) = 0
      BY <2>1, FS_EmptySet DEF Settles
    <3>. QED  BY <2>1, <3>1 DEF BossInv, OneSettler, OneRespawn
  <2>2. ASSUME NEW u \in User, Settles(u) PROVE OneRespawn
    <3>1. ~alive /\ respawners = 0 /\ \A v \in User : Settles(v) => v = u
      BY <2>2 DEF BossInv, OneSettler
    <3>2. S = {u}
      BY <2>2, <3>1 DEF Settles
    <3>3. Cardinality(S) = 1
      BY <3>2, FS_Singleton
    <3>. QED  BY <3>1, <3>3 DEF OneRespawn
  <2>. QED  BY <2>1, <2>2
<1>. QED  BY <1>1, BossInvAlways, PTL

\* A set without two different members has one at most.
LEMMA AtMostOne ==
  ASSUME NEW S, \A x, y \in S : x = y
  PROVE  Cardinality(S) <= 1
<1>1. CASE S = {}
  BY <1>1, FS_EmptySet
<1>2. CASE \E x : x \in S
  <2>1. PICK x : S = {x}
    BY <1>2
  <2>2. Cardinality({x}) = 1
    BY FS_Singleton
  <2>. QED  BY <2>1, <2>2
<1>. QED  BY <1>1, <1>2

(* What a user got for the boss and what is still to be paid to him is     *)
(* never more than was announced (the settlement in AttackBoss), for any   *)
(* users, also when they leave, switch or are moved in between.            *)
THEOREM PaidAtMostOnceAlways == Spec => []PaidAtMostOnce
<1>1. BossInv => PaidAtMostOnce
  <2>. SUFFICES ASSUME BossInv, NEW u \in User
                PROVE  LET due == {r \in UNION {plan[v] : v \in User} : r.user = u}
                       IN  /\ Cardinality(due) <= 1
                           /\ \A r \in due : paid[u] + r.amount <= promised[u]
                           /\ paid[u] <= promised[u]
    BY DEF PaidAtMostOnce
  <2>. DEFINE due == {r \in UNION {plan[v] : v \in User} : r.user = u}
  <2>1. \A v, w \in User : plan[v] # {} /\ plan[w] # {} => v = w
    BY DEF BossInv, Handlers, OneSettler
  <2>2. \A r, s \in due : r = s
    BY <2>1 DEF BossInv, Planned
  <2>3. Cardinality(due) <= 1
    <3>. HIDE DEF due
    <3>. QED  BY <2>2, AtMostOne
  <2>4. \A r \in due : paid[u] + r.amount <= promised[u]
    BY DEF BossInv, Planned
  <2>. QED  BY <2>3, <2>4 DEF BossInv, Solvent
<1>. QED  BY <1>1, BossInvAlways, PTL

-----------------------------------------------------------------------------
(* The handlers implement one boss that is struck one blow at a time: the  *)
(* safety part of ImplementsShared.                                        *)
THEOREM StepsOfSharedBoss == Spec => Shared!Init /\ [][Shared!Next]_(Shared!vars)
<1>1. Init => Shared!Init
  BY DEF Init, Shared!Init
<1>2. BossInv /\ [Next]_vars => [Shared!Next]_(Shared!vars)
  <2>. SUFFICES ASSUME BossInv, [Next]_vars PROVE [Shared!Next]_(Shared!vars)
    OBVIOUS
  <2>. USE DEF Shared!vars
  <2>1. ASSUME NEW u \in User, StrikeHit(u) PROVE Shared!Next
    <3>1. aim[u] \in Damage /\ aim[u] \in Nat /\ hp \in Nat /\ hp > 0
      BY <2>1, BossAssumption DEF StrikeHit, BossInv, TypeOK, Handlers, OneSettler
    <3>2. Shared!Strike(u, aim[u])
      BY <2>1, <3>1 DEF StrikeHit, Shared!Strike
    <3>. QED  BY <3>1, <3>2 DEF Shared!Next
  <2>2. ASSUME NEW u \in User, StrikeKill(u) PROVE Shared!Next
    <3>1. aim[u] \in Damage /\ hp > 0
      BY <2>2 DEF StrikeKill, BossInv, Handlers, OneSettler
    <3>2. Shared!Strike(u, aim[u])
      BY <2>2, <3>1 DEF StrikeKill, Shared!Strike
    <3>. QED  BY <3>1, <3>2 DEF Shared!Next
  <2>3. ASSUME NEW u \in User, AttackBoss(u) PROVE [Shared!Next]_(Shared!vars)
    BY <2>1, <2>2, <2>3 DEF AttackBoss, StrikeRefused, PaidUp, Pay, boss
  <2>4. ASSUME NEW u \in User, Player(u) PROVE UNCHANGED <<hp, lastHit>>
    BY <2>4 DEF Player, Leave, SwitchOut, Enter, SwitchIn, boss
  <2>5. ASSUME NEW u \in User, NEW d \in Damage, Aim(u, d) PROVE UNCHANGED <<hp, lastHit>>
    BY <2>5 DEF Aim, boss
  <2>6. CASE Respawn
    BY <2>6, RespawnStep DEF Respawn, NewBoss, Shared!Respawn, Shared!Next
  <2>7. CASE Restart
    BY <2>7 DEF Restart, NewBoss, Shared!Reset, Shared!Next
  <2>8. CASE \E p, q \in Place, there \in SUBSET User : Failover(p, q, there)
    BY <2>8 DEF Failover, boss
  <2>9. CASE UNCHANGED vars
    BY <2>9 DEF vars, boss
  <2>. QED  BY <2>3, <2>4, <2>5, <2>6, <2>7, <2>8, <2>9 DEF Next
<1>. QED  BY <1>1, <1>2, BossInvAlways, PTL DEF Spec
=============================================================================
