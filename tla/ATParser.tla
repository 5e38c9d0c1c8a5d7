------------------------------ MODULE ATParser ------------------------------
(***************************************************************************)
(* The parser of AT decks (at/at_parser.py).  Such a deck's tokens are     *)
(* issued to whoever sent coins to the deck's tracked address (a donation, *)
(* or a proof of burn): the donor claims them with a CardIssue that names  *)
(* the donation transaction.                                               *)
(*                                                                         *)
(* The chain grows while the parser runs: the cards are those of the       *)
(* moment the parse began, but each donation is looked up in the chain     *)
(* when its claim is reached.  The chain is never reorganised here.        *)
(***************************************************************************)
EXTENDS Bundles

CONSTANTS
  Donations,    \* txids that cards refer to
  DonorOf,      \* find_tx_sender: the first input's address of each of them
  ValueOf,      \* what each of them pays to the tracked address, in coin units
  Factor,       \* deck_factor = multiplier * 10^decimals
  Unit,         \* coin units in a coin
  StartBlock,   \* deck.startblock and deck.endblock,
  EndBlock,     \*   NoLimit where the deck has none
  Txs,          \* the transactions to the deck that may be mined
  NoDonation,   \* for cards that are not issues
  MaxHeight     \* bound: blocks

NoLimit == 0
NotConfirmed == 0

ASSUME ChainAssumption ==
  /\ ValueOf \in [Donations -> Nat] /\ Factor \in Nat /\ Unit \in Nat \ {0}
  /\ StartBlock \in Nat /\ EndBlock \in Nat /\ MaxHeight \in Nat
  /\ NoDonation \notin Donations

ASSUME TxsAssumption ==
  \A tx \in Txs :
    /\ tx.amounts \in Seq(Nat) /\ tx.amounts # <<>>
    /\ tx.type \in {"CardIssue", "CardTransfer", "CardBurn"}
    /\ IF tx.type = "CardIssue" THEN tx.donation \in Donations
                                ELSE tx.donation = NoDonation

VARIABLES
  height,         \* the best block's height
  confirmed,      \* the block of each donation, or NotConfirmed
  chain,          \* the cards of all blocks, sorted by block, transaction and cardseq
  cards,          \* at_parser: the cards of this parse, sorted the same way
  pos,            \* ... the card being looked at, 0 between two parses
  last_processed_position,    \* process_cards_by_bundle, which yields the cards
  valid_cards, valid_bundles, used_issuance_tuples,
  parsed          \* the result of the last complete parse

vars == <<height, confirmed, chain, cards, pos, last_processed_position,
          valid_cards, valid_bundles, used_issuance_tuples, parsed>>
parser == <<cards, pos, last_processed_position,
            valid_cards, valid_bundles, used_issuance_tuples, parsed>>

-----------------------------------------------------------------------------
(* card_postprocess: one card for each receiver.                           *)
CardsOf(tx, block) ==
  [i \in 1 .. Len(tx.amounts) |->
     [txid |-> block, blocknum |-> block, sender |-> tx.sender, type |-> tx.type,
      donation_txid |-> tx.donation, amount |-> tx.amounts[i]]]

(* What a donation entitles its donor to.                                  *)
Entitlement(d) == (ValueOf[d] * Factor) \div Unit

(* Mutant: the card may be in a block before the donation's. *)
Bug_CheckDonation(card, issued) ==
  LET d == card.donation_txid IN
  /\ confirmed[d] # NotConfirmed
  /\ IF issued # 0 THEN Entitlement(d) = issued ELSE ValueOf[d] # 0
  /\ EndBlock # NoLimit => confirmed[d] <= EndBlock
  /\ StartBlock # NoLimit => confirmed[d] >= StartBlock

(* check_donation: what it raises no error for.  An issued amount of 0 is  *)
(* taken for an amount that was not given.                                 *)
CheckDonation(card, issued) ==
  LET d == card.donation_txid IN
  /\ confirmed[d] # NotConfirmed
  /\ IF issued # 0 THEN Entitlement(d) = issued ELSE ValueOf[d] # 0
  /\ card.blocknum >= confirmed[d]
  /\ EndBlock # NoLimit => confirmed[d] <= EndBlock
  /\ StartBlock # NoLimit => confirmed[d] >= StartBlock

(* Mutant: anyone may claim. *)
Bug_IsValidIssuance(card, issued) == CheckDonation(card, issued)

(* is_valid_issuance *)
IsValidIssuance(card, issued) ==
  /\ CheckDonation(card, issued)
  /\ card.sender = DonorOf[card.donation_txid]

-----------------------------------------------------------------------------
Init ==
  /\ height = 0 /\ confirmed = [d \in Donations |-> NotConfirmed]
  /\ chain = <<>> /\ cards = <<>> /\ pos = 0 /\ last_processed_position = 1
  /\ valid_cards = <<>> /\ valid_bundles = {} /\ used_issuance_tuples = {}
  /\ parsed = <<>>

(* Environment: a block with some of the donations and at most one         *)
(* transaction of the deck.                                                *)
Block ==
  /\ height < MaxHeight
  /\ height' = height + 1
  /\ \E D \in SUBSET {d \in Donations : confirmed[d] = NotConfirmed} :
       confirmed' = [d \in Donations |-> IF d \in D THEN height + 1 ELSE confirmed[d]]
  /\ \/ chain' = chain
     \/ \E tx \in Txs : chain' = chain \o CardsOf(tx, height + 1)
  /\ UNCHANGED parser

(* at_parser is called with the deck's cards, which it sorts.              *)
Start ==
  /\ pos = 0
  /\ cards' = chain /\ pos' = 1 /\ last_processed_position' = 1
  /\ valid_cards' = <<>> /\ valid_bundles' = {} /\ used_issuance_tuples' = {}
  /\ UNCHANGED <<height, confirmed, chain, parsed>>

Reached == pos \in 1 .. Len(cards)
card == cards[pos]

(* Mutant: the first card of a bundle is checked with its own amount. *)
Bug_Bundle == NoBundle

Bundle == BundleAmount(cards, pos, last_processed_position)
IssuedAmount == IF Bundle # NoBundle THEN Bundle ELSE card.amount

(* Mutant: claims are told apart by the transaction they come with. *)
Bug_Claim == <<card.txid, card.donation_txid>>

Claim == <<card.sender, card.donation_txid>>

(* The next card is asked for. *)
Advance ==
  /\ pos' = pos + 1
  /\ last_processed_position' = ProcessedPosition(cards, pos, last_processed_position)
  /\ UNCHANGED <<height, confirmed, chain, cards, parsed>>

(* Mutant: it is only remembered that there was a valid bundle. *)
Bug_BundlePart ==
  /\ Reached /\ card.type = "CardIssue" /\ valid_bundles # {}
  /\ valid_cards' = Append(valid_cards, card)
  /\ Advance /\ UNCHANGED <<valid_bundles, used_issuance_tuples>>

(* The other cards of a bundle whose first one was valid.                  *)
BundlePart ==
  /\ Reached /\ card.type = "CardIssue" /\ card.txid \in valid_bundles
  /\ valid_cards' = Append(valid_cards, card)
  /\ Advance /\ UNCHANGED <<valid_bundles, used_issuance_tuples>>

Unused == Claim \notin used_issuance_tuples

(* A claim for what was claimed before is ignored ...                      *)
Duplicate ==
  /\ Reached /\ card.type = "CardIssue" /\ card.txid \notin valid_bundles
  /\ ~Unused
  /\ Advance /\ UNCHANGED <<valid_cards, valid_bundles, used_issuance_tuples>>

Fresh == /\ Reached /\ card.type = "CardIssue" /\ card.txid \notin valid_bundles
         /\ Unused

(* ... any other one is valid ...                                          *)
ValidIssue ==
  /\ Fresh /\ IsValidIssuance(card, IssuedAmount)
  /\ valid_cards' = Append(valid_cards, card)
  /\ valid_bundles' =
       IF Bundle # NoBundle THEN valid_bundles \cup {card.txid} ELSE valid_bundles
  /\ used_issuance_tuples' = used_issuance_tuples \cup {Claim}
  /\ Advance

(* ... or not.                                                             *)
InvalidIssue ==
  /\ Fresh /\ ~IsValidIssuance(card, IssuedAmount)
  /\ Advance /\ UNCHANGED <<valid_cards, valid_bundles, used_issuance_tuples>>

(* Transfers and burns are left to DeckState.                              *)
Other ==
  /\ Reached /\ card.type # "CardIssue"
  /\ valid_cards' = Append(valid_cards, card)
  /\ Advance /\ UNCHANGED <<valid_bundles, used_issuance_tuples>>

(* return valid_cards *)
Return ==
  /\ pos > Len(cards)
  /\ pos' = 0 /\ parsed' = valid_cards
  /\ UNCHANGED <<height, confirmed, chain, cards, last_processed_position,
                 valid_cards, valid_bundles, used_issuance_tuples>>

Next == \/ Block \/ Start \/ BundlePart \/ Duplicate \/ ValidIssue \/ InvalidIssue
        \/ Other \/ Return

Spec == Init /\ [][Next]_vars

-----------------------------------------------------------------------------
Card ==
  LET cards_of(types, donations) ==
        [txid : 1 .. MaxHeight, blocknum : 1 .. MaxHeight,
         sender : {tx.sender : tx \in Txs}, type : types,
         donation_txid : donations, amount : Nat]
  IN  cards_of({"CardIssue"}, Donations)
        \cup cards_of({"CardTransfer", "CardBurn"}, {NoDonation})

(* Type invariant: what at_parser keeps between two cards, and the chain   *)
(* it reads.                                                               *)
TypeOK ==
  /\ height \in 0 .. MaxHeight
  /\ confirmed \in [Donations -> 0 .. MaxHeight]
  /\ chain \in Seq(Card) /\ cards \in Seq(Card) /\ pos \in Nat
  /\ last_processed_position \in Nat
  /\ valid_cards \in Seq(Card) /\ valid_bundles \subseteq 1 .. MaxHeight
  /\ used_issuance_tuples \subseteq {tx.sender : tx \in Txs} \X Donations
  /\ parsed \in Seq(Card)

IssuesOf(s) == {i \in DOMAIN s : s[i].type = "CardIssue"}

(* All the valid issues with which a donor claims a donation come with one *)
(* transaction, however the claims are bundled and repeated (the duplicate *)
(* check of at_parser is by tuple, its bundle check by txid).              *)
ClaimedOnce ==
  \A i, j \in IssuesOf(valid_cards) :
    (/\ valid_cards[i].sender = valid_cards[j].sender
     /\ valid_cards[i].donation_txid = valid_cards[j].donation_txid)
      => valid_cards[i].txid = valid_cards[j].txid

ClaimedOf(d) == {i \in IssuesOf(parsed) : parsed[i].donation_txid = d}

(* What a parse lets be issued for a donation is exactly what it entitles  *)
(* to, or nothing, over all the cards, transactions and bundles that name  *)
(* it: the amount check is made once for a bundle, and its other cards are *)
(* taken without one.                                                      *)
IssuedAsEntitled ==
  \A d \in Donations :
    Sum(ClaimedOf(d), [i \in DOMAIN parsed |-> parsed[i].amount])
      \in {0, Entitlement(d)}

(* Every valid issue is the donor's, for a donation within the deck's      *)
(* blocks that was in the chain when the card was mined, whatever was      *)
(* confirmed while the parser ran.                                         *)
ClaimsAreDue ==
  \A d \in Donations : \A i \in ClaimedOf(d) :
    /\ parsed[i].sender = DonorOf[d]
    /\ confirmed[d] \in 1 .. parsed[i].blocknum
    /\ EndBlock # NoLimit => confirmed[d] <= EndBlock
    /\ confirmed[d] >= StartBlock

IsPrefixOf(s, t) == Len(s) <= Len(t) /\ SubSeq(t, 1, Len(s)) = s

(* "Hanging" cards (at_parser.py:42), which become valid later than when   *)
(* they were issued, do not exist: a later parse only adds cards after     *)
(* those that an earlier one found, in the order of the chain.             *)
NoHangingCards == [][parsed' # parsed => IsPrefixOf(parsed, parsed')]_vars

(* The cards of the n-th block. *)
Mined(n) == {k \in DOMAIN chain : chain[k].txid = n}

(* A donor who claims a donation in time and in full, in as many cards as  *)
(* it takes, has it, unless an earlier claim was valid: claims by others,  *)
(* wrong claims and other bundles before it do not spoil it.               *)
HonestClaims ==
  parsed # <<>> =>
    \A k \in DOMAIN chain :
      LET n == chain[k].txid
          d == chain[k].donation_txid
      IN  (/\ n <= parsed[Len(parsed)].txid
           /\ chain[k].type = "CardIssue" /\ chain[k].sender = DonorOf[d]
           /\ confirmed[d] \in 1 .. n /\ confirmed[d] >= StartBlock
           /\ EndBlock # NoLimit => confirmed[d] <= EndBlock
           /\ Entitlement(d) # 0
           /\ Sum(Mined(n), [i \in DOMAIN chain |-> chain[i].amount]) = Entitlement(d))
            => \/ Sum({i \in ClaimedOf(d) : parsed[i].txid = n},
                      [i \in DOMAIN parsed |-> parsed[i].amount]) = Entitlement(d)
               \/ \E i \in ClaimedOf(d) : parsed[i].txid < n

(* The deck as a ledger of claims, one for each donation: it falls due     *)
(* when the donation is mined within the deck's blocks, and is settled and *)
(* issued by what the last parse found valid.                              *)
NotDue == -1
LedgerDue ==
  [d \in Donations |->
     IF /\ confirmed[d] # NotConfirmed /\ confirmed[d] >= StartBlock
        /\ EndBlock # NoLimit => confirmed[d] <= EndBlock
     THEN Entitlement(d) ELSE NotDue]
LedgerSettled == {d \in Donations : ClaimedOf(d) # {}}
LedgerIssued ==
  [d \in Donations |-> Sum(ClaimedOf(d), [i \in DOMAIN parsed |-> parsed[i].amount])]

Ledger == INSTANCE ClaimsLedger WITH
  Claims <- Donations, due <- LedgerDue, settled <- LedgerSettled, issued <- LedgerIssued

(* From parse to parse, at_parser keeps such a ledger: a donation is       *)
(* settled when it is due and only once, for what it entitles to or for    *)
(* nothing, and no later parse of a longer chain takes any of that back or *)
(* adds to it.                                                             *)
ImplementsClaimsLedger == Ledger!Spec

(* "The amount transferred to the tracked address must be equal to the     *)
(* expected amount" (at_parser.py:154): every donation claimed is issued   *)
(* in full.                                                                *)
FullClaims ==
  \A d \in Donations :
    ClaimedOf(d) # {} =>
      Sum(ClaimedOf(d), [i \in DOMAIN parsed |-> parsed[i].amount]) = Entitlement(d)

=============================================================================
