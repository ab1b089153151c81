----------------------------- MODULE SharedBoss -----------------------------
(***************************************************************************)
(* What Lab3 promises of the world boss: one boss for all maps, whose hit  *)
(* points change one blow at a time, which is dead at zero and comes back  *)
(* whole, and comes back every time.                                       *)
(***************************************************************************)
EXTENDS Naturals

CONSTANTS User, MaxHP, Damage, Nobody

VARIABLES hp, lastHit
vars == <<hp, lastHit>>

Init == hp = MaxHP /\ lastHit = Nobody

Strike(u, d) ==
  /\ hp > 0
  /\ hp' = IF d >= hp THEN 0 ELSE hp - d
  /\ lastHit' = u

Respawn == hp = 0 /\ hp' = MaxHP /\ lastHit' = Nobody

\* The server is started again: its memory is all the boss there is.
Reset == hp' = MaxHP /\ lastHit' = Nobody

Next == Respawn \/ Reset \/ \E u \in User, d \in Damage : Strike(u, d)

Spec == Init /\ [][Next]_vars /\ WF_vars(Respawn)
=============================================================================
