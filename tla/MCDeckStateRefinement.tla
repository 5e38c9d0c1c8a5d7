----------------------- MODULE MCDeckStateRefinement ------------------------
(* DeckStateRefinement on the instance of MCDeckState. *)
EXTENDS DeckStateRefinement, TLC

CONSTANTS issuer, alice, bob

MCAddr == {issuer, alice, bob}

(* The ordinary addresses are interchangeable. *)
Symmetry == Permutations({alice, bob})

=============================================================================
