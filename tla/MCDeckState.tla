---------------------------- MODULE MCDeckState ----------------------------
(* DeckState on a small instance: the issuer and two other addresses. *)
EXTENDS DeckState, TLC

CONSTANTS issuer, alice, bob

MCAddr == {issuer, alice, bob}

(* The ordinary addresses are interchangeable. *)
Symmetry == Permutations({alice, bob})

=============================================================================
