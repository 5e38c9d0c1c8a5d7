------------------------------ MODULE DTParser ------------------------------
(***************************************************************************)
(* The parser of a DT deck: dt_parser.py and class ParserState of          *)
(* dt_parser_state.py.                                                     *)
(*                                                                         *)
(* dt_parser walks over the deck's cards in chain order and over the       *)
(* epochs they fall in.  When an epoch is entered, epoch_init counts the   *)
(* votes of the proposals that start or end in it; a card that issues      *)
(* tokens is then valid if it claims the reward of a proposal that has     *)
(* ended.  One behaviour is one run of dt_parser: the chain it reads is    *)
(* chosen in Init, except for the cards, which are revealed transaction by *)
(* transaction, in the order of the sorted list.                           *)
(*                                                                         *)
(* Abstractions.  Blocks are only told apart by their epoch.  A claim is   *)
(* the transaction a card refers to: a proposal, for the proposer's own    *)
(* reward, or a donation.  The donation states, computed from the chain    *)
(* when the first card asks for them, come down to the donor of a donation *)
(* and the share of the proposal's reward that its slot is worth.  Of the  *)
(* votes of an epoch only each voter's last one counts (process_votes).    *)
(***************************************************************************)
EXTENDS Integers, Sequences, FiniteSets, Sums, Bundles, Voters

LOCAL INSTANCE SequencesExt

CONSTANTS
  Addr,            \* addresses
  Proposals,       \* first ProposalTransactions
  Donations,       \* DonationTransactions that have a donation state
  ProposalOf,      \* Donations -> Proposals
  Donor,           \* Donations -> Addr: donor_address of the donation state
  Proposers,       \* Proposals -> SUBSET Addr: valid_ptx.input_addresses
  ReqAmount,       \* Proposals -> req_amount
  RewardOf,        \* the reward of a claim whose proposal shares an epoch's
                   \*   reward with a set of proposals (see Rewards)
  EpochReward,     \* deck.epoch_reward in token units
  SdpPeriods,      \* deck.sdp_periods
  Unit,            \* 10 ** sdp_decimal_diff
  Chains,          \* the chains the parser may find
  Txs,             \* the card transactions that may be on the chain
  StartEpoch,      \* epoch of the deck spawn
  EndEpoch,        \* epoch of the current block height
  MaxEpoch,        \* bound: last epoch in which the chain has cards
  MaxTxs,          \* bound: number of card transactions
  VotingOver,      \* the height is past the first voting period of EndEpoch
  ForceContinue    \* the argument force_continue

Claims == Proposals \cup Donations
Ballots == [Addr -> {"yes", "no", "none"}]

(* What a chain holds besides the deck's cards: the proposals with the     *)
(* ballots of their two voting rounds, and the cards of the SDP deck.      *)
Chain ==
  [proposals : [Proposals ->
     [start_epoch : Nat, epoch_number : Nat, modified_to : SUBSET Nat,
      first : Ballots, second : Ballots]],
   sdp_cards : Seq([txid : Nat, epoch : Nat, type : {"CardIssue", "CardTransfer", "CardBurn"},
                    sender : Addr, receiver : Addr, amount : Nat])]

Tx == [type : {"CardIssue", "CardTransfer", "CardBurn"}, sender : Addr,
       receiver : Addr, amounts : Seq(Nat \ {0}), claim : Claims]

ASSUME ClaimsAssumption ==
  /\ Proposals \cap Donations = {}
  /\ ProposalOf \in [Donations -> Proposals] /\ Donor \in [Donations -> Addr]
  /\ Proposers \in [Proposals -> SUBSET Addr]
  /\ ReqAmount \in [Proposals -> Nat \ {0}] /\ EpochReward \in Nat
  /\ RewardOf \in [Claims \X SUBSET Proposals -> Nat]
ASSUME ChainAssumption == Txs \subseteq Tx /\ Chains \subseteq Chain
ASSUME BoundsAssumption ==
  /\ StartEpoch \in Nat /\ EndEpoch \in Nat /\ MaxEpoch \in Nat /\ MaxTxs \in Nat
  /\ SdpPeriods \in Nat \ {0} /\ Unit \in Nat \ {0}
  /\ VotingOver \in BOOLEAN /\ ForceContinue \in BOOLEAN

VARIABLES
  chain,                 \* the proposals, their votes and the SDP cards
  cards,                 \* the deck's cards, as far as they have been read
  looked,                \* how many of them the loop has looked at
  last_processed_position,    \* process_cards_by_bundle, which yields the cards
  epoch,                 \* pst.epoch
  epoch_initialized,
  valid_epoch_cards, valid_bundles, valid_cards,
  used_issuance_tuples,
  end_epoch, state,      \* of each proposal
  sharing,               \* proposals that share the epoch's reward; {} while
                         \*   dist_factor is None
  approved_proposals, valid_proposals,
  epochs_with_completed_proposals,
  sdp_voters, dpod_voters, enabled_voters,
  pc

chainVars == <<chain, cards, looked, last_processed_position>>
loopVars == <<epoch, epoch_initialized>>
cardVars == <<valid_epoch_cards, valid_bundles, valid_cards, used_issuance_tuples>>
proposalVars == <<end_epoch, state, sharing, approved_proposals, valid_proposals,
                  epochs_with_completed_proposals>>
voterVars == <<sdp_voters, dpod_voters, enabled_voters>>
vars == <<chainVars, loopVars, cardVars, proposalVars, voterVars, pc>>

-----------------------------------------------------------------------------
Start(p) == chain.proposals[p].start_epoch

Init ==
  /\ chain \in Chains
  /\ cards = <<>> /\ looked = 0 /\ last_processed_position = 1
  /\ epoch = StartEpoch /\ epoch_initialized = FALSE
  /\ valid_epoch_cards = <<>> /\ valid_bundles = {} /\ valid_cards = <<>>
  /\ used_issuance_tuples = {}
  /\ end_epoch = [p \in Proposals |-> Start(p) + chain.proposals[p].epoch_number + 1]
  /\ state = [p \in Proposals |-> "active"]
  /\ sharing = [p \in Proposals |-> {}]
  /\ approved_proposals = {} /\ valid_proposals = {}
  /\ epochs_with_completed_proposals = 0
  /\ sdp_voters = Nobody /\ dpod_voters = Nobody /\ enabled_voters = Nobody
  /\ pc = "loop"

-----------------------------------------------------------------------------
(* Entering an epoch: ParserState.epoch_init *)

(* get_sdp_epoch_cards: the SDP cards of the epoch before, or all of them  *)
(* before the start epoch.                                                 *)
SdpEpochCards ==
  SelectSeq(chain.sdp_cards,
            LAMBDA c : c.epoch < epoch /\ (epoch = StartEpoch \/ c.epoch = epoch - 1))

(* update_enabled_voters: the two weights of a voter are added. *)
Enabled(enabled, sdp, dpod) ==
  [v \in DOMAIN enabled \cup DOMAIN sdp \cup DOMAIN dpod |->
     WeightOf(sdp, v) + WeightOf(dpod, v)]

(* process_votes: more weight for the proposal than against it. *)
InFavour(ballots, enabled) ==
  LET weight(vote) == Sum({v \in DOMAIN enabled : ballots[v] = vote /\ enabled[v] > 0}, enabled)
                      - Sum({v \in DOMAIN enabled : ballots[v] = vote /\ enabled[v] < 0},
                            [v \in DOMAIN enabled |-> -enabled[v]])
  IN  weight("yes") > weight("no")

(* modify: the end epoch of an approved proposal, set again if its last    *)
(* modification changes the number of epochs.                              *)
EndOnApproval(p) ==
  LET data == chain.proposals[p]
      changes == data.modified_to \ {data.epoch_number}
  IN  IF changes = {} THEN end_epoch[p]
      ELSE data.start_epoch + (CHOOSE n \in changes : TRUE)

(* Mutant: a proposal counts as ending in every epoch up to its last one. *)
Bug_Ending(approved) == {p \in approved : end_epoch'[p] >= epoch}

(* The approved proposals that end in the epoch, after modify. *)
Ending(approved) == {p \in approved : end_epoch'[p] = epoch}

EpochInit ==
  LET sdpCards == SdpEpochCards
      sdp == IF sdpCards = <<>> THEN sdp_voters
             ELSE UpdatedSdpVoters(sdp_voters, sdpCards, Unit)
      enabled == IF sdpCards = <<>> THEN enabled_voters
                 ELSE Enabled(enabled_voters, sdp, dpod_voters)
      \* update_approved_proposals
      starting == {p \in Proposals : Start(p) = epoch /\ (epoch < EndEpoch \/ VotingOver)}
      approved == {p \in starting : InFavour(chain.proposals[p].first, enabled)}
      \* update_valid_ending_proposals
      ending == Ending(approved_proposals \cup approved)
      valid == {p \in ending : InFavour(chain.proposals[p].second, enabled)}
      completed == {p \in valid : epoch < EndEpoch /\ sharing[p] = {}}
  IN  /\ enabled_voters' = enabled
      /\ approved_proposals' = approved_proposals \cup approved
      /\ end_epoch' = [p \in Proposals |->
                         IF p \in approved THEN EndOnApproval(p) ELSE end_epoch[p]]
      /\ valid_proposals' = valid_proposals \cup valid
      /\ sharing' = [p \in Proposals |-> IF p \in completed THEN valid ELSE sharing[p]]
      /\ state' = [p \in Proposals |->
                     IF p \in completed THEN "completed"
                     ELSE IF p \in (starting \ approved) \cup (ending \ valid)
                     THEN "abandoned" ELSE state[p]]
      /\ epochs_with_completed_proposals' =
           epochs_with_completed_proposals + (IF valid = {} THEN 0 ELSE 1)
      /\ sdp_voters' =
           IF valid = {} THEN sdp
           ELSE Weighted(sdp, SdpWeight(epochs_with_completed_proposals', SdpPeriods), Unit)
      /\ UNCHANGED dpod_voters

(* epoch_postprocess *)
EpochPostprocess ==
  /\ dpod_voters' = UpdatedVoters(dpod_voters, valid_epoch_cards)
  /\ enabled_voters' = Enabled(enabled_voters, sdp_voters, dpod_voters')
  /\ valid_cards' = valid_cards \o valid_epoch_cards
  /\ UNCHANGED sdp_voters

-----------------------------------------------------------------------------
(* Checking a card: ParserState.check_card *)

ProposalOfClaim(claim) == IF claim \in Proposals THEN claim ELSE ProposalOf[claim]

(* Mutant: the other proposals that end in the epoch are left out. *)
Bug_Reward(claim) == RewardOf[<<claim, {ProposalOfClaim(claim)}>>]

(* The reward of a claim: ds.reward or proposer_reward, once the           *)
(* distribution factor is known.                                           *)
Reward(claim) == RewardOf[<<claim, sharing[ProposalOfClaim(claim)]>>]

(* The sender may make the claim: validate_proposer_issuance and check C   *)
(* of validate_donation_issuance.                                          *)
Entitled(sender, claim) ==
  IF claim \in Proposals THEN sender \in Proposers[claim] ELSE sender = Donor[claim]

(* Mutant: a claim is not remembered. *)
Bug_Accepts(card, amount) ==
  LET p == ProposalOfClaim(card.claim)
  IN  /\ p \in valid_proposals
      /\ Entitled(card.sender, card.claim)
      /\ sharing[p] # {} /\ amount = Reward(card.claim)

Accepts(card, amount) ==
  LET p == ProposalOfClaim(card.claim)
  IN  /\ <<card.sender, card.claim>> \notin used_issuance_tuples
      /\ p \in valid_proposals
      /\ Entitled(card.sender, card.claim)
      /\ sharing[p] # {} /\ amount = Reward(card.claim)

-----------------------------------------------------------------------------
(* The loop of dt_parser *)

(* The cards that transaction tx brings in, in the order of their cardseq. *)
CardsOf(tx, n, e) ==
  [i \in DOMAIN tx.amounts |->
     [txid |-> n, cardseq |-> i, type |-> tx.type, sender |-> tx.sender,
      receiver |-> tx.receiver, amount |-> tx.amounts[i],
      claim |-> tx.claim, epoch |-> e]]

(* Transactions and epoch of the cards read so far. *)
TxCount == IF cards = <<>> THEN 0 ELSE cards[Len(cards)].txid
LastEpoch == IF cards = <<>> THEN 0 ELSE cards[Len(cards)].epoch

(* The next transaction of the sorted list. *)
Read ==
  /\ pc = "loop" /\ looked = Len(cards) /\ TxCount < MaxTxs
  /\ \E tx \in Txs, e \in LastEpoch .. MaxEpoch :
       cards' = cards \o CardsOf(tx, TxCount + 1, e)
  /\ UNCHANGED <<chain, looked, last_processed_position, loopVars, cardVars, proposalVars,
                 voterVars, pc>>

(* The next card is in an epoch the parser processes. *)
Looking == pc = "loop" /\ looked < Len(cards) /\ cards[looked + 1].epoch <= EndEpoch

card_epoch == cards[looked + 1].epoch

(* What process_cards_by_bundle yields with it, before it goes on.         *)
Bundle == BundleAmount(cards, looked + 1, last_processed_position)
NextCard ==
  /\ looked' = looked + 1
  /\ last_processed_position' = ProcessedPosition(cards, looked + 1, last_processed_position)

(* Mutant: the collected cards are kept. *)
Bug_Postprocess ==
  /\ Looking /\ card_epoch > epoch /\ valid_epoch_cards # <<>>
  /\ EpochPostprocess
  /\ epoch' = epoch + 1
  /\ UNCHANGED <<chainVars, epoch_initialized, valid_epoch_cards, valid_bundles,
                 used_issuance_tuples, proposalVars, pc>>

(* The epoch of the valid cards collected so far is over. *)
Postprocess ==
  /\ Looking /\ card_epoch > epoch /\ valid_epoch_cards # <<>>
  /\ EpochPostprocess
  /\ epoch' = epoch + 1
  /\ valid_epoch_cards' = <<>>
  /\ UNCHANGED <<chainVars, epoch_initialized, valid_bundles, used_issuance_tuples,
                 proposalVars, pc>>

(* process_cardless_epochs, one epoch of it; the card's epoch is the next  *)
(* one at the end.                                                         *)
Cardless ==
  /\ Looking /\ card_epoch > epoch /\ valid_epoch_cards = <<>>
  /\ EpochInit
  /\ epoch' = epoch + 1
  /\ epoch_initialized' = FALSE
  /\ UNCHANGED <<chainVars, cardVars, pc>>

EnterEpoch ==
  /\ Looking /\ card_epoch = epoch /\ ~epoch_initialized
  /\ EpochInit
  /\ epoch_initialized' = TRUE
  /\ UNCHANGED <<chainVars, epoch, cardVars, pc>>

(* A card in the epoch that is being processed: a further part of a valid  *)
(* bundle is appended, and a card is appended if check_card accepts it.    *)
Card ==
  /\ Looking /\ card_epoch = epoch /\ epoch_initialized
  /\ LET card == cards[looked + 1]
         amount == IF Bundle = NoBundle THEN card.amount ELSE Bundle
         issue == card.type = "CardIssue"
         part == issue /\ card.txid \in valid_bundles
         valid == issue => Accepts(card, amount)
     IN  /\ valid_epoch_cards' = valid_epoch_cards \o
              (IF part THEN <<card>> ELSE <<>>) \o (IF valid THEN <<card>> ELSE <<>>)
         /\ valid_bundles' = IF valid /\ Bundle # NoBundle
                             THEN valid_bundles \cup {card.txid} ELSE valid_bundles
         /\ used_issuance_tuples' =
              IF valid /\ issue
              THEN used_issuance_tuples \cup {<<card.sender, card.claim>>}
              ELSE used_issuance_tuples
  /\ NextCard
  /\ UNCHANGED <<chain, cards, loopVars, valid_cards, proposalVars,
                 voterVars, pc>>

(* A card from before the start epoch. *)
TooEarly ==
  /\ Looking /\ card_epoch < epoch
  /\ NextCard
  /\ UNCHANGED <<chain, cards, loopVars, cardVars, proposalVars,
                 voterVars, pc>>

(* Mutant: the cards of the last epoch are left behind. *)
Bug_EndLoop ==
  /\ pc = "loop"
  /\ looked < Len(cards) => card_epoch > EndEpoch
  /\ pc' = IF ForceContinue /\ epoch < EndEpoch THEN "continue" ELSE "done"
  /\ UNCHANGED <<chainVars, loopVars, cardVars, voterVars, proposalVars>>

(* The loop ends with the list, or at a card after the end epoch; cards    *)
(* collected since the last epoch change are postprocessed.                *)
EndLoop ==
  /\ pc = "loop"
  /\ looked < Len(cards) => card_epoch > EndEpoch
  /\ IF valid_epoch_cards # <<>> THEN EpochPostprocess
     ELSE UNCHANGED <<voterVars, valid_cards>>
  /\ pc' = IF ForceContinue /\ epoch < EndEpoch THEN "continue" ELSE "done"
  /\ UNCHANGED <<chainVars, loopVars, valid_epoch_cards, valid_bundles,
                 used_issuance_tuples, proposalVars>>

(* force_continue: process_cardless_epochs to the end epoch.               *)
Continue ==
  /\ pc = "continue"
  /\ EpochInit
  /\ IF epoch = EndEpoch THEN pc' = "done" /\ UNCHANGED epoch
     ELSE epoch' = epoch + 1 /\ UNCHANGED pc
  /\ UNCHANGED <<chainVars, epoch_initialized, cardVars>>

Next == \/ Read \/ Postprocess \/ Cardless \/ EnterEpoch \/ Card \/ TooEarly
        \/ EndLoop \/ Continue

Spec == Init /\ [][Next]_vars

-----------------------------------------------------------------------------
(* Properties *)

(* The cards found valid so far; the last ones collected are in            *)
(* valid_cards when the loop has ended.                                    *)
AllValid == IF pc = "loop" THEN valid_cards \o valid_epoch_cards ELSE valid_cards

Issues(list) == {i \in DOMAIN list : list[i].type = "CardIssue"}
Amounts(list) == [i \in DOMAIN list |-> list[i].amount]

(* What the accepted issues of one sender for one claim add up to. *)
Issued(sender, claim) ==
  Sum({i \in Issues(AllValid) : AllValid[i].sender = sender /\ AllValid[i].claim = claim},
      Amounts(AllValid))

(* The first card of each issue is checked with what its transaction       *)
(* issues in all, every other card with its own amount: no bundle is       *)
(* missed and none runs over into the next transaction, however the        *)
(* transactions before it are made (process_cards_by_bundle's generator    *)
(* state, last_processed_position, is shared by all of them).              *)
BundlesFound ==
  looked < Len(cards) =>
    LET card == cards[looked + 1]
        ofTx == {j \in DOMAIN cards : cards[j].txid = card.txid}
    IN  Bundle = IF card.type = "CardIssue" /\ card.cardseq = 1 /\ Cardinality(ofTx) > 1
                 THEN Sum(ofTx, Amounts(cards)) ELSE NoBundle

(* Between two transactions, a donor or proposer has been given its reward *)
(* exactly once, or nothing, whatever bundles of issues it has sent: the   *)
(* parts of a valid bundle, the sub-cards of an invalid one and repeated   *)
(* claims go through valid_bundles and used_issuance_tuples together.      *)
RewardedOnce ==
  looked = Len(cards) =>
    \A sender \in Addr, claim \in Claims :
      Issued(sender, claim) =
        IF <<sender, claim>> \in used_issuance_tuples THEN Reward(claim) ELSE 0

(* An issue is valid only in or after the epoch in which its proposal      *)
(* ended, and only once that epoch is over at the current height.          *)
NotBeforeTheEnd ==
  \A i \in Issues(AllValid) :
    LET p == ProposalOfClaim(AllValid[i].claim)
    IN  /\ p \in valid_proposals
        /\ end_epoch[p] <= AllValid[i].epoch /\ end_epoch[p] < EndEpoch

(* The valid cards keep the order of the chain, and none is there twice,   *)
(* which DeckState relies on.                                              *)
InChainOrder ==
  \A i, j \in DOMAIN AllValid :
    i < j => \/ AllValid[i].txid < AllValid[j].txid
             \/ /\ AllValid[i].txid = AllValid[j].txid
                /\ AllValid[i].cardseq < AllValid[j].cardseq

(* At the end, every transfer and burn from the epochs that were processed *)
(* is among the valid cards ("CardTransfers are always valid", check_card).*)
TransfersKept ==
  pc = "done" =>
    \A i \in DOMAIN cards :
      (cards[i].type # "CardIssue" /\ cards[i].epoch \in StartEpoch .. EndEpoch) =>
        \E j \in DOMAIN valid_cards : valid_cards[j] = cards[i]

(* The rewards of one proposal add up to its exact part of the epoch's     *)
(* reward at most, or to less than one unit more, which the rounding of    *)
(* the quotients can add: in whatever order donors and proposer claim      *)
(* them, and whatever other proposals end meanwhile.                       *)
TotalReward ==
  \A p \in Proposals : sharing[p] # {} =>
    LET issued == Sum({i \in Issues(AllValid) : ProposalOfClaim(AllValid[i].claim) = p},
                      Amounts(AllValid))
    IN  (issued - 1) * Sum(sharing[p], ReqAmount) < EpochReward * ReqAmount[p]

(* The cards still to come of bundles found valid, and with them all that  *)
(* a sender is issued for a claim.                                         *)
Coming(sender, claim) ==
  {k \in looked + 1 .. Len(cards) :
     /\ cards[k].type = "CardIssue" /\ cards[k].txid \in valid_bundles
     /\ cards[k].sender = sender /\ cards[k].claim = claim}
InAll(sender, claim) == Issued(sender, claim) + Sum(Coming(sender, claim), Amounts(cards))

(* The deck as a ledger of claims, one for each sender and what it may     *)
(* refer to: the claim of whom is entitled falls due when the epoch's      *)
(* reward is distributed.                                                  *)
NotDue == -1
LedgerDue ==
  [k \in Addr \X Claims |->
     IF Entitled(k[1], k[2]) /\ sharing[ProposalOfClaim(k[2])] # {}
     THEN Reward(k[2]) ELSE NotDue]
LedgerIssued == [k \in Addr \X Claims |-> InAll(k[1], k[2])]

Ledger == INSTANCE ClaimsLedger WITH
  Claims <- Addr \X Claims,
  due <- LedgerDue, settled <- used_issuance_tuples, issued <- LedgerIssued

(* Card by card, dt_parser keeps such a ledger: a reward stays what it was *)
(* when it fell due, whatever proposals end later, and is issued at once   *)
(* with the first card of the claim and never again.                       *)
ImplementsClaimsLedger == Ledger!Spec

AmountOf(list, type) == Sum({i \in DOMAIN list : list[i].type = type}, Amounts(list))

(* The votes of the deck's own tokens: nobody votes with less than nothing *)
(* and all together with no more than has been issued, less at most what   *)
(* has been burned.  Each valid card is handed to update_voters, over      *)
(* three ways out of an epoch, once and no more, and moves weight only if  *)
(* its sender has it.                                                      *)
WeightsAreTokens ==
  LET issued == AmountOf(valid_cards, "CardIssue")
  IN  /\ \A v \in DOMAIN dpod_voters : dpod_voters[v] >= 0
      /\ Total(dpod_voters) <= issued
      /\ issued <= Total(dpod_voters) + AmountOf(valid_cards, "CardBurn")

-----------------------------------------------------------------------------
(* Statements of the code's comments that it does not keep.  A run shows   *)
(* the first one violated; the others can be put in its place.             *)

(* The votes of each proposal are counted when its start epoch is entered: *)
(* once that epoch is over, the proposal is approved or abandoned.         *)
VotesCounted ==
  \A p \in Proposals :
    Start(p) \in StartEpoch .. epoch - 1 =>
      p \in approved_proposals \/ state[p] = "abandoned"

(* The proposals that end in the same epoch share one epoch's reward, so   *)
(* their distribution factors add up to one.                               *)
OneDistribution ==
  \A p, q \in Proposals :
    (sharing[p] # {} /\ sharing[q] # {} /\ end_epoch[p] = end_epoch[q]) =>
      sharing[p] = sharing[q]

(* A bundle is valid as a whole or not at all.                             *)
BundlesWhole ==
  looked = Len(cards) =>
    \A i, j \in DOMAIN cards :
      (cards[i].type = "CardIssue" /\ cards[i].txid = cards[j].txid) =>
        ((\E k \in DOMAIN AllValid : AllValid[k] = cards[i])
           <=> (\E k \in DOMAIN AllValid : AllValid[k] = cards[j]))

(* The cards of a transfer only count if the sender's weight covers the    *)
(* "bundle amount" (dt_parser_utils.py:187): when it is the only one of    *)
(* its epoch and covered, it moves what it says.                           *)
CoveredBundlesCount ==
  [][\A sender \in DOMAIN dpod_voters :
       LET sent == AmountOf(valid_epoch_cards, "CardTransfer")
       IN  (/\ valid_cards' # valid_cards
            /\ \A i \in DOMAIN valid_epoch_cards :
                 /\ valid_epoch_cards[i].type = "CardTransfer"
                 /\ valid_epoch_cards[i].txid = valid_epoch_cards[1].txid
                 /\ valid_epoch_cards[i].sender = sender
                 /\ valid_epoch_cards[i].receiver # sender
            /\ sent <= dpod_voters[sender])
           => dpod_voters'[sender] = dpod_voters[sender] - sent]_vars

(* A proposal is approved with the weights that the voters have then.      *)
CurrentWeights ==
  [][(/\ approved_proposals' # approved_proposals
      /\ epochs_with_completed_proposals' = epochs_with_completed_proposals)
       => enabled_voters' = Enabled(enabled_voters', sdp_voters', dpod_voters')]_vars

(* SDP tokens that are issued once and not moved weigh what the schedule   *)
(* says of the number of epochs with completed proposals.                  *)
SdpSchedule ==
  LET weight == SdpWeight(epochs_with_completed_proposals, SdpPeriods)
  IN  (weight > 0 /\ Len(chain.sdp_cards) = 1) =>
        \A v \in DOMAIN sdp_voters :
          sdp_voters[v] = Truncated(chain.sdp_cards[1].amount * weight, 100)

=============================================================================
