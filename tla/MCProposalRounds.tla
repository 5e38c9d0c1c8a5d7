-------------------------- MODULE MCProposalRounds --------------------------
(***************************************************************************)
(* ProposalRounds with epochs of 30 blocks: two are left over by the       *)
(* division into units of one, and the security period takes two units.    *)
(***************************************************************************)
EXTENDS ProposalRounds

CONSTANTS alice, bob

MCAddr == {alice, bob}

(* One epoch of work, or the proposal ends in the epoch after its start. *)
MCTerms == {[epochs |-> 0, amount |-> 1], [epochs |-> 1, amount |-> 1], [epochs |-> 1, amount |-> 2]}

(* The first and last blocks of epochs, and the end of the voting period.  *)
MCHeights == {0, 29, 30, 38, 39, 60, 69}

=============================================================================
