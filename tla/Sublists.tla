------------------------------ MODULE Sublists ------------------------------
(***************************************************************************)
(* Parts of a list, as a list comprehension with a condition makes them.   *)
(* They are defined by cardinality, as SelectSeq, which is recursive, could*)
(* not be proved about.                                                    *)
(***************************************************************************)
EXTENDS Integers, Sequences, FiniteSets

(* The position in P that has n positions of P up to it. *)
Place(P, n) == CHOOSE k \in P : Cardinality({j \in P : j <= k}) = n

(* What s has at the positions in P, in its order. *)
Only(s, P) == [n \in 1 .. Cardinality(P) |-> s[Place(P, n)]]

=============================================================================
