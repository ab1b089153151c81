------------------------------- MODULE Totals -------------------------------
(***************************************************************************)
(* The total of natural numbers that the members of a finite set have.  It *)
(* is counted, not folded: a member with the number n has n points, and    *)
(* the total is how many points there are.                                 *)
(***************************************************************************)
EXTENDS Naturals, FiniteSets

Points(f, S) == UNION {{x} \X (1..f[x]) : x \in S}

Total(f, S) == Cardinality(Points(f, S))
=============================================================================
