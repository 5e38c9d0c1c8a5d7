------------------------------ MODULE Bundles -------------------------------
(***************************************************************************)
(* How the parsers of AT and DT decks see a list of cards                  *)
(* (extended_utils.py).  A transaction with several receivers reaches the  *)
(* parser as several cards.  If it is an issue, the first of them is       *)
(* checked with what the whole transaction issues.                         *)
(*                                                                         *)
(* A card is a record with (at least) the fields txid, sender, type and    *)
(* amount.  Positions count from 1.                                        *)
(***************************************************************************)
EXTENDS Integers, Sequences, FiniteSets, Sums

(* A yielded pair whose second half is None. *)
NoBundle == -1

(* get_issuance_bundle: the last card of the bundle that card i is in ...  *)
LastOfBundle(cards, i) ==
  CHOOSE j \in i .. Len(cards) :
    /\ \A k \in i .. j - 1 : /\ cards[k].txid = cards[k + 1].txid
                             /\ cards[k].sender = cards[k + 1].sender
    /\ j < Len(cards) => \/ cards[j].txid # cards[j + 1].txid
                         \/ cards[j].sender # cards[j + 1].sender

(* ... and what the cards from i to there issue. *)
BundleValue(cards, i) ==
  Sum(i .. LastOfBundle(cards, i), [k \in DOMAIN cards |-> cards[k].amount])

(* Mutant: the position before which nothing is looked for is no longer    *)
(* looked at, either.                                                      *)
Bug_BundleAt(cards, i, last_processed_position) ==
  cards[i].type = "CardIssue" /\ i > last_processed_position

(* process_cards_by_bundle looks for a bundle at every issue that is not   *)
(* before last_processed_position.  The last card of a bundle is looked at *)
(* once more, and is alone.                                                *)
BundleAt(cards, i, last_processed_position) ==
  cards[i].type = "CardIssue" /\ i >= last_processed_position

(* The amount it yields with card i: None, except for the first card of a  *)
(* bundle of issues ...                                                    *)
BundleAmount(cards, i, last_processed_position) ==
  IF BundleAt(cards, i, last_processed_position) /\ LastOfBundle(cards, i) # i
    THEN BundleValue(cards, i) ELSE NoBundle

(* ... and the position it remembers for the cards after it.               *)
ProcessedPosition(cards, i, last_processed_position) ==
  IF BundleAt(cards, i, last_processed_position) THEN LastOfBundle(cards, i)
  ELSE last_processed_position

=============================================================================
