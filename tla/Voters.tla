------------------------------- MODULE Voters -------------------------------
(***************************************************************************)
(* The weights of the voters of a DT deck (dt_parser_utils.py).            *)
(*                                                                         *)
(* Voters and their weights are functions on the addresses seen so far.  A *)
(* card is a record with (at least) the fields txid, type, sender,         *)
(* receiver and amount: cards reach the parser with one receiver each.     *)
(***************************************************************************)
EXTENDS Integers, Sequences, FiniteSets, Sums

LOCAL INSTANCE SequencesExt

Nobody == [v \in {} |-> 0]

WeightOf(voters, a) == IF a \in DOMAIN voters THEN voters[a] ELSE 0

Added(voters, a, n) ==
  [v \in DOMAIN voters \cup {a} |->
     IF v = a THEN WeightOf(voters, a) + n ELSE voters[v]]

(* Division with truncation toward zero, as Decimal's // and int() do it.  *)
Truncated(n, d) == IF n >= 0 THEN n \div d ELSE -((-n) \div d)

(* What a card does to the weights when it is taken: an issue costs its    *)
(* sender nothing, and a burn credits nobody.                              *)
Taken(voters, card, unit) ==
  LET credited == IF card.type = "CardBurn" THEN voters
                  ELSE Added(voters, card.receiver, card.amount * unit)
  IN  IF card.type = "CardIssue" THEN credited
      ELSE Added(credited, card.sender, -(card.amount * unit))

(* The amount of the bundle that a card of the list is in. *)
AmountOfTx(cards, txid) ==
  Sum({i \in DOMAIN cards : cards[i].txid = txid},
      [i \in DOMAIN cards |-> cards[i].amount])

SeveralCards(cards, txid) ==
  \E i, j \in DOMAIN cards : i # j /\ cards[i].txid = txid /\ cards[j].txid = txid

(* Mutant: a transfer is only compared with the sender's weight if it is   *)
(* part of a bundle.                                                       *)
Bug_VotersStep(acc, card, cards) ==
  IF card.type = "CardIssue"
    THEN [acc EXCEPT !.voters = Taken(@, card, 1)]
  ELSE IF card.sender \notin DOMAIN acc.voters \/ card.txid \in acc.illegal
    THEN acc
  ELSE IF SeveralCards(cards, card.txid)
          /\ AmountOfTx(cards, card.txid) > acc.voters[card.sender]
    THEN [acc EXCEPT !.illegal = @ \cup {card.txid}]
  ELSE [acc EXCEPT !.voters = Taken(@, card, 1)]

(* update_voters, one card of the deck's own cards: a card the sender does *)
(* not cover is passed over, and so are the cards of a bundle the sender   *)
(* does not cover at the time the card is looked at.                       *)
VotersStep(acc, card, cards) ==
  IF card.type = "CardIssue"
    THEN [acc EXCEPT !.voters = Taken(@, card, 1)]
  ELSE IF \/ card.sender \notin DOMAIN acc.voters
          \/ card.txid \in acc.illegal
          \/ card.amount > acc.voters[card.sender]
    THEN acc
  ELSE IF SeveralCards(cards, card.txid)
          /\ AmountOfTx(cards, card.txid) > acc.voters[card.sender]
    THEN [acc EXCEPT !.illegal = @ \cup {card.txid}]
  ELSE [acc EXCEPT !.voters = Taken(@, card, 1)]

(* update_voters with the deck's own cards. *)
UpdatedVoters(voters, cards) ==
  LET after[i \in 0 .. Len(cards)] ==
        IF i = 0 THEN [voters |-> voters, illegal |-> {}]
        ELSE VotersStep(after[i - 1], cards[i], cards)
  IN  after[Len(cards)].voters

(* update_voters with the cards of the SDP deck, which are valid: a sender *)
(* can end below zero, since its weight may have been lowered meanwhile.   *)
UpdatedSdpVoters(voters, cards, unit) ==
  FoldLeft(LAMBDA v, card : Taken(v, card, unit), voters, cards)

(* get_sdp_weight in percent.                                              *)
SdpWeight(completed, periods) == Truncated((periods - completed) * 100, periods)

(* update_sdp_weight *)
Weighted(voters, percent, unit) ==
  [v \in DOMAIN voters |-> Truncated(voters[v] * percent, 100 * unit) * unit]

=============================================================================
