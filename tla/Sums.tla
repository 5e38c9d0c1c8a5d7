-------------------------------- MODULE Sums --------------------------------
(***************************************************************************)
(* Sums of natural numbers over a finite index set, without recursion:     *)
(* f[x] is the number of units x holds, and the sum over S is the number   *)
(* of units all elements of S hold together.  Written this way the facts   *)
(* about sums follow from the facts about cardinalities, so they can be    *)
(* proved (module CollectionsTheorems) and not only evaluated.             *)
(***************************************************************************)
EXTENDS Naturals, FiniteSets

Units(S, f) == UNION {{x} \X (1 .. f[x]) : x \in S}

Sum(S, f) == Cardinality(Units(S, f))

(* The sum of all the values of a finite function. *)
Total(f) == Sum(DOMAIN f, f)

=============================================================================
