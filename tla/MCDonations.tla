---------------------------- MODULE MCDonations ----------------------------
(* Donors alice and bob and the proposer in both phases, with all that can *)
(* go wrong between signalling and donation.                               *)
EXTENDS Donations

CONSTANTS alice, bob, carol, prop

MCAddr == {alice, bob, carol, prop}

(* The divisions up to 3 that lose a unit at 28 digits.                    *)
MCLossy == {<<1, 3, 3>>}

Plain(kind, at, who, address, amount) ==
  [kind |-> kind, place |-> at, sender |-> who, address |-> address, amount |-> amount,
   reserved |-> 0, reserve_address |-> who, timely |-> TRUE, spends |-> NoOutput]
Reserving(tx, amount, who) == [tx EXCEPT !.reserved = amount, !.reserve_address = who]
Early(tx) == [tx EXCEPT !.timely = FALSE]

(* alice signals in rounds 0 and 4, bob in round 0 and, to alice, in       *)
(* round 1.                                                                *)
Signallings ==
  {Plain("signalling", 0, alice, alice, 2), Plain("signalling", 0, bob, bob, 1),
   Plain("signalling", 2, bob, alice, 5), Plain("signalling", 9, alice, alice, 2)}

(* alice's lock can be unlocked by bob; bob reserves for carol, who locks  *)
(* less than her slot can be, and reserves again.                          *)
Locks ==
  {Reserving(Plain("locking", 1, alice, bob, 2), 1, alice),
   Early(Plain("locking", 1, bob, bob, 2)), Reserving(Plain("locking", 1, bob, bob, 2), 2, carol),
   Plain("locking", 3, carol, carol, 1)}

Gifts ==
  {Reserving(Plain("donation", 8, bob, prop, 2), 2, bob),
   Reserving(Plain("donation", 8, carol, prop, 1), 1, carol),
   Plain("donation", 10, bob, prop, 2), Plain("donation", 10, alice, prop, 2)}

MCTxs == Signallings \cup Locks \cup Gifts

(* What nothing refuses: priority after an early lock, a slot for the      *)
(* proposer, a donation to oneself.                                        *)
MCStrayTxs ==
  MCTxs \cup {Plain("signalling", 2, bob, carol, 1), Plain("signalling", 2, alice, prop, 1),
              Plain("donation", 8, bob, bob, 2)}

MCPlaces == {0, 1, 2, 3, 8, 9, 10, 17}
=============================================================================
