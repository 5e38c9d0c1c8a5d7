----------------------------- MODULE IssueModes -----------------------------
(***************************************************************************)
(* From the transactions of a deck to its valid cards:                     *)
(* __main__.find_all_valid_cards, pautils.card_bundle_parser, the types    *)
(* that CardTransfer.__init__ and extension_protocol give to cards, and    *)
(* validate_card_issue_modes with the parsers of card_parsers.             *)
(*                                                                         *)
(* A deck's issue mode is the set of its bits.  at_parser has a module of  *)
(* its own: here it keeps the claims that are marked valid, and fails on   *)
(* an issue without a donation_txid.  dt_parser is called the same way.    *)
(***************************************************************************)
EXTENDS Sublists

LOCAL INSTANCE SequencesExt
LOCAL INSTANCE FiniteSetsExt

CONSTANTS
  Issuer,    \* the deck's issuer
  Decks,     \* the decks looked at: their modes, and whether their data is that of an AT deck
  Txs,       \* the transactions to the deck that may be listed
  Lossy,     \* amounts a that int(a / 10^decimals * 10^decimals) makes one smaller
  MaxTxs     \* bound: transactions of the deck

CUSTOM == 1
ONCE == 2
MULTI == 4
MONO == 8
UNFLUSHABLE == 16

(* The bits validate_card_issue_modes goes through; 32 is part of          *)
(* SUBSCRIPTION (0x34), but no mode of its own.                            *)
SupportedModes == {CUSTOM, ONCE, MULTI, MONO, UNFLUSHABLE, 32}

ASSUME DecksAssumption ==
  \A deck \in Decks : deck.modes \subseteq SupportedModes /\ deck.at \in BOOLEAN

(* What a card's asset_specific_data may be: a claim the deck's parser     *)
(* accepts, or not; empty; a message with a txid of another length; no     *)
(* message at all.                                                         *)
DataKinds == {"valid", "invalid", "none", "other", "bad"}

ASSUME TxsAssumption ==
  \A tx \in Txs : /\ tx.data \in DataKinds /\ tx.decimals \in BOOLEAN
                  /\ tx.receivers # <<>> /\ DOMAIN tx.receivers = 1 .. Len(tx.receivers)
                  /\ Len(tx.receivers) \in Nat /\ DOMAIN tx.amounts = DOMAIN tx.receivers
                  /\ \A i \in DOMAIN tx.amounts : tx.amounts[i] \in Nat

VARIABLES
  deck,
  txs,      \* the transactions of the deck, as the provider lists them
  found,    \* their cards
  cards,    \* the cards that the modes seen so far leave
  todo,     \* the modes to come
  phase     \* "listing", "validating", "done" or "failed" (an exception is raised)

vars == <<deck, txs, found, cards, todo, phase>>

-----------------------------------------------------------------------------
(* Cards                                                                   *)

(* A deck with a parser of its own: CUSTOM is its only mode. *)
Custom == deck.at /\ deck.modes = {CUSTOM}

(* initialize_custom_card_attributes gives the card the deck's at_type.    *)
(* Without data, a KeyError is raised before it is set.                    *)
Extended(data) == Custom /\ data \in {"valid", "invalid", "other"}

IsClaim(data) == Extended(data) /\ data # "other"

(* CardTransfer.__init__: the card's type; an issue to the issuer raises   *)
(* InvalidCardIssue.                                                       *)
TypeOf(tx, receiver) ==
  IF IsClaim(tx.data) THEN "CardIssue"
  ELSE IF tx.sender = Issuer
    THEN IF receiver = Issuer THEN "Invalid" ELSE "CardIssue"
  ELSE IF receiver = Issuer THEN "CardBurn" ELSE "CardTransfer"

(* card_bundle_parser: the cards of a transaction, without the invalid     *)
(* ones.                                                                   *)
CardsOf(tx, txid) ==
  LET all == [i \in DOMAIN tx.receivers |->
                [txid |-> txid, cardseq |-> i, type |-> TypeOf(tx, tx.receivers[i]),
                 at_type |-> Extended(tx.data),
                 claim |-> IF IsClaim(tx.data) THEN tx.data ELSE "none",
                 amount |-> tx.amounts[i]]]
  IN  Only(all, {i \in DOMAIN all : all[i].type # "Invalid"})

-----------------------------------------------------------------------------
(* The parsers of card_parsers: the cards each of them leaves.             *)

IsIssue(c) == c.type = "CardIssue"

(* custom_parser with at_parser or dt_parser. *)
Claims(cs) == Only(cs, {i \in DOMAIN cs : IsIssue(cs[i]) => cs[i].claim = "valid"})

IssuesIn(cs) == {i \in DOMAIN cs : IsIssue(cs[i])}

(* Mutant: every card after the first issue is dropped with the others. *)
Bug_FirstIssue(cs) == SubSeq(cs, 1, Min(IssuesIn(cs)))

(* once_parser: all issues but the first one in the list are dropped.      *)
FirstIssue(cs) ==
  LET first == cs[Min(IssuesIn(cs))]
  IN  Only(cs, {i \in DOMAIN cs : IsIssue(cs[i]) => cs[i] = first})

(* mono_parser: the amounts are converted to a float and back.             *)
RoundTrip(a) == IF a \in Lossy THEN a - 1 ELSE a

(* Mutant: the cards are put in front of those before them. *)
Bug_MonoAmounts(cs) == Reverse(cs)

MonoAmounts(cs) == [i \in DOMAIN cs |-> [cs[i] EXCEPT !.amount = RoundTrip(@)]]

(* unflushable_parser *)
Issues(cs) == Only(cs, IssuesIn(cs))

-----------------------------------------------------------------------------
Init ==
  /\ deck \in Decks
  /\ txs = <<>> /\ found = <<>> /\ cards = <<>> /\ todo = {}
  /\ phase = "listing"

(* One more transaction of the deck in the list of the provider, which is  *)
(* in the order of the chain.                                              *)
List ==
  /\ phase = "listing" /\ Len(txs) < MaxTxs
  /\ \E tx \in Txs :
       /\ tx.decimals
       /\ txs' = Append(txs, tx)
       /\ found' = found \o CardsOf(tx, Len(txs) + 1)
  /\ UNCHANGED <<deck, cards, todo, phase>>

(* card_bundle_parser raises CardNumberOfDecimalsMismatch, which nobody    *)
(* catches, for a transaction with another number of decimals.             *)
ListMismatch ==
  /\ phase = "listing" /\ Len(txs) < MaxTxs
  /\ \E tx \in Txs : ~tx.decimals /\ txs' = Append(txs, tx)
  /\ phase' = "failed"
  /\ UNCHANGED <<deck, found, cards, todo>>

(* validate_card_issue_modes: no cards, no modes.                          *)
Validate ==
  /\ phase = "listing"
  /\ cards' = IF deck.modes = {} THEN <<>> ELSE found
  /\ todo' = IF found = <<>> THEN {} ELSE deck.modes
  /\ phase' = "validating"
  /\ UNCHANGED <<deck, txs, found>>

Mode == Min(todo)
Turn(i) == phase = "validating" /\ todo # {} /\ Mode = i

(* What a parser leaves goes to the next one, unless it is empty.          *)
Leave(cs) ==
  /\ cards' = cs
  /\ todo' = IF cs = <<>> THEN {} ELSE todo \ {Mode}
  /\ UNCHANGED <<deck, txs, found, phase>>

Fail == phase' = "failed" /\ UNCHANGED <<deck, txs, found, cards, todo>>

(* The parser of the deck's type is only chosen if the first card has an   *)
(* at_type.  No card of a deck with other modes has one, so the parsers of *)
(* those are called with the cards alone.                                  *)
WithParser == cards[1].at_type

(* at_parser reads the donation_txid of every issue.                       *)
NoDonationTxid == \E i \in DOMAIN cards : IsIssue(cards[i]) /\ cards[i].claim = "none"

CustomParser == Turn(CUSTOM) /\ WithParser /\ ~NoDonationTxid /\ Leave(Claims(cards))

(* An AttributeError, for the at_type of the first card or in the deck     *)
(* type's parser, is answered by calling custom_parser without a parser.   *)
CustomFallback == Turn(CUSTOM) /\ (~WithParser \/ NoDonationTxid) /\ Leave(cards)

(* once_parser: next() raises StopIteration if there is no issue. *)
Once ==
  /\ Turn(ONCE)
  /\ IF IssuesIn(cards) # {} THEN Leave(FirstIssue(cards)) ELSE Fail

Multi == Turn(MULTI) /\ Leave(cards)
Mono == Turn(MONO) /\ Leave(MonoAmounts(cards))
Unflushable == Turn(UNFLUSHABLE) /\ Leave(Issues(cards))

(* IssueMode(32) is a ValueError, the bit is skipped. *)
Unknown == Turn(32) /\ Leave(cards)

Return ==
  /\ phase = "validating" /\ todo = {}
  /\ phase' = "done" /\ UNCHANGED <<deck, txs, found, cards, todo>>

Next == \/ List \/ ListMismatch \/ Validate \/ CustomParser \/ CustomFallback
        \/ Once \/ Multi \/ Mono \/ Unflushable \/ Unknown \/ Return

Spec == Init /\ [][Next]_vars

-----------------------------------------------------------------------------
Done == phase = "done"

(* The card of the list that a valid one is, its amount aside.             *)
Same(c, d) == c.txid = d.txid /\ c.cardseq = d.cardseq /\ c.type = d.type
Kept(c) == \E i \in DOMAIN cards : Same(cards[i], c)

(* The modes of a deck without a parser of its own hold together, in       *)
(* whatever combination: a card is valid if and only if each single mode   *)
(* allows it in the whole list (the parsers are applied one after the      *)
(* other, and only to what the ones before have left).                     *)
ModesCombine ==
  Done /\ ~Custom =>
    \A i \in DOMAIN found :
      Kept(found[i]) <=>
        /\ deck.modes # {}
        /\ UNFLUSHABLE \in deck.modes => IsIssue(found[i])
        /\ ONCE \in deck.modes /\ IsIssue(found[i])
             => \A j \in 1 .. i - 1 : ~IsIssue(found[j])

(* No parser adds, repeats or reorders cards: DeckState sorts the cards it *)
(* gets, but takes each of them for one transaction's.                     *)
Subsequence ==
  Done => \A i, j \in DOMAIN cards :
            /\ \E k \in DOMAIN found : Same(cards[i], found[k])
            /\ i < j => \/ cards[i].txid < cards[j].txid
                        \/ /\ cards[i].txid = cards[j].txid
                           /\ cards[i].cardseq < cards[j].cardseq

-----------------------------------------------------------------------------
(* Statements of the code's comments that it does not keep.  A run shows   *)
(* the first one violated; the others can be put in its place.             *)

(* "Will be validated later by custom parser" (extension_protocol.py:77):  *)
(* the issues that come out of an AT or DT deck's list are valid claims,   *)
(* whatever the first card is, and though the deck's issuer may have made  *)
(* a plain transfer.                                                       *)
EveryClaimValidated ==
  Done /\ Custom =>
    \A i \in DOMAIN cards : IsIssue(cards[i]) => cards[i].claim = "valid"

(* "Only one issuance transaction from asset owner allowed" (once_parser): *)
(* one transaction issues, and all of it.                                  *)
OneIssueTransaction ==
  Done /\ ONCE \in deck.modes =>
    \A i, j \in DOMAIN found :
      (/\ IsIssue(found[i]) /\ IsIssue(found[j]) /\ found[i].txid = found[j].txid
       /\ Kept(found[i]))
         => Kept(found[j])

(* "All card transaction amounts are equal to 1" (mono_parser).            *)
MonoIsOne == Done /\ MONO \in deck.modes => \A i \in DOMAIN cards : cards[i].amount = 1

(* find_all_valid_cards "filters out" the cards that do not fit the deck:  *)
(* they do not keep it from finding the others.                            *)
NeverFails == phase # "failed"

=============================================================================
