--------------------------- MODULE DTParserProofs ---------------------------
(***************************************************************************)
(* Proofs about DTParser for all chains, cards and epochs: the valid cards *)
(* keep the order of the chain, none is there twice and no transfer is     *)
(* missing; every bundle is found; an issue is only valid when its         *)
(* proposal has ended, a claim is paid once and in full, and the claims of *)
(* a proposal stay within its part of the reward; and the voters' weights  *)
(* are the balances of the holders.                                        *)
(***************************************************************************)
EXTENDS DTParser, CollectionsTheorems, TLAPS

(* A sequence, whatever it consists of.                                    *)
IsList(s) == s \in Seq({s[i] : i \in DOMAIN s})

IsCard(c) ==
  /\ c.txid \in Nat \ {0} /\ c.cardseq \in Nat \ {0} /\ c.epoch \in Nat
  /\ c.type \in {"CardIssue", "CardTransfer", "CardBurn"}
  /\ c.sender \in Addr /\ c.receiver \in Addr /\ c.claim \in Claims
  /\ c.amount \in Nat \ {0}
Earlier(c, d) == c.txid < d.txid \/ (c.txid = d.txid /\ c.cardseq < d.cardseq)
OneTx(c, d) ==
  c.txid = d.txid =>
    c.epoch = d.epoch /\ c.type = d.type /\ c.sender = d.sender /\ c.claim = d.claim

CardsSound ==
  /\ IsList(cards)
  /\ \A i \in DOMAIN cards : IsCard(cards[i])
  /\ \A i, j \in DOMAIN cards : (i < j => Earlier(cards[i], cards[j])) /\ OneTx(cards[i], cards[j])
  /\ \A i, j \in DOMAIN cards : i < j => cards[i].epoch <= cards[j].epoch
  /\ \A i \in DOMAIN cards : cards[i].cardseq > 1 =>
       i - 1 \in DOMAIN cards /\ cards[i - 1].txid = cards[i].txid
  /\ looked \in 0 .. Len(cards)

(* What the end epoch of a proposal is before and after its approval.      *)
Changes(p) == chain.proposals[p].modified_to \ {chain.proposals[p].epoch_number}
FirstEnd(p) == Start(p) + chain.proposals[p].epoch_number + 1
FinalEnd(p) == IF Changes(p) = {} THEN FirstEnd(p) ELSE Start(p) + (CHOOSE n \in Changes(p) : TRUE)

(* A proposal that shares in an epoch's reward has ended, in an epoch that *)
(* is over, and its end does not move any more.                            *)
EpochsSound ==
  /\ chain \in Chains /\ epoch \in Nat
  /\ end_epoch \in [Proposals -> Nat] /\ sharing \in [Proposals -> SUBSET Proposals]
  /\ approved_proposals \subseteq Proposals /\ valid_proposals \subseteq approved_proposals
  /\ \A p \in Proposals :
       /\ end_epoch[p] = IF p \in approved_proposals THEN FinalEnd(p) ELSE FirstEnd(p)
       /\ sharing[p] # {} =>
            p \in valid_proposals /\ end_epoch[p] <= epoch /\ end_epoch[p] < EndEpoch

(* An issue whose proposal had ended in the card's epoch.                  *)
Due(c) ==
  c.type = "CardIssue" =>
    LET p == ProposalOfClaim(c.claim)
    IN  p \in Proposals /\ sharing[p] # {} /\ end_epoch[p] <= c.epoch

(* The cards of a valid bundle are due, and their claim is used.           *)
BundlesSound ==
  \A t \in valid_bundles :
    /\ \E i \in DOMAIN cards : cards[i].txid = t
    /\ \A i \in DOMAIN cards : cards[i].txid = t =>
         /\ Due(cards[i])
         /\ cards[i].type = "CardIssue" =>
              <<cards[i].sender, cards[i].claim>> \in used_issuance_tuples

ValidSound ==
  /\ IsList(valid_cards) /\ IsList(valid_epoch_cards)
  /\ \A i \in DOMAIN AllValid :
       /\ \E j \in 1 .. looked : AllValid[i] = cards[j]
       /\ Due(AllValid[i])

IInv == CardsSound /\ EpochsSound /\ BundlesSound /\ ValidSound /\ InChainOrder

-----------------------------------------------------------------------------
(* The second invariant, on top of the first one. *)

(* The epoch never gets past the next card's, except for cards from before *)
(* the start, and the loop ends with the end epoch.                        *)
WalkSound ==
  /\ epoch >= StartEpoch
  /\ (pc = "loop" /\ epoch # StartEpoch) =>
       /\ epoch <= LastEpoch
       /\ \A k \in looked + 1 .. Len(cards) : epoch <= cards[k].epoch
  /\ pc # "loop" => \A k \in looked + 1 .. Len(cards) : cards[k].epoch > EndEpoch

(* The generator remembers the last card of an issue's transaction as soon *)
(* as it has yielded the first one.                                        *)
GeneratorSound == Remembers(cards, looked, last_processed_position)

(* Transfers that were looked at are valid. *)
TransfersSound ==
  \A i \in 1 .. looked : (cards[i].type # "CardIssue" /\ cards[i].epoch >= StartEpoch) =>
    \E j \in DOMAIN AllValid : AllValid[j] = cards[i]

(* Used claims have been made by their claimants and have a reward, which  *)
(* does not change any more; a valid bundle is not from before the start.  *)
UsedSound ==
  /\ \A s \in Addr, c \in Claims :
       <<s, c>> \in used_issuance_tuples =>
         sharing[ProposalOfClaim(c)] # {} /\ Entitled(s, c)
  /\ \A t \in valid_bundles : \A i \in DOMAIN cards :
       cards[i].txid = t => cards[i].epoch >= StartEpoch

(* The valid issues with which a sender makes a claim, and the cards still *)
(* to come of a bundle found valid, issue the reward, if any.              *)
Deserved(s, c) == IF <<s, c>> \in used_issuance_tuples THEN Reward(c) ELSE 0
AddsUp == \A s \in Addr, c \in Claims : InAll(s, c) = Deserved(s, c)

(* Valid issues are made by those who may make the claim. *)
SendersSound ==
  \A i \in Issues(AllValid) : Entitled(AllValid[i].sender, AllValid[i].claim)

Inv2 == /\ WalkSound /\ GeneratorSound /\ TransfersSound /\ UsedSound /\ AddsUp
        /\ SendersSound

-----------------------------------------------------------------------------
(* Sequences.                                                              *)

LEMMA ListOfFunction ==
  ASSUME NEW n \in Nat, NEW f, f = [i \in 1 .. n |-> f[i]]
  PROVE  IsList(f) /\ Len(f) = n /\ DOMAIN f = 1 .. n
<1>1. DOMAIN f = 1 .. n
  OBVIOUS
<1>2. f \in [1 .. n -> {f[i] : i \in DOMAIN f}]
  BY <1>1
<1>3. f \in Seq({f[i] : i \in DOMAIN f})
  BY <1>2
<1> QED BY <1>1, <1>3 DEF IsList

LEMMA ListDomain ==
  ASSUME NEW s, IsList(s)
  PROVE  Len(s) \in Nat /\ DOMAIN s = 1 .. Len(s)
BY DEF IsList

LEMMA ListConcat ==
  ASSUME NEW s, NEW t, IsList(s), IsList(t)
  PROVE  /\ IsList(s \o t)
         /\ Len(s \o t) = Len(s) + Len(t)
         /\ \A i \in 1 .. Len(s) : (s \o t)[i] = s[i]
         /\ \A i \in (Len(s) + 1) .. (Len(s) + Len(t)) : (s \o t)[i] = t[i - Len(s)]
<1> DEFINE S == {s[i] : i \in DOMAIN s} \cup {t[i] : i \in DOMAIN t}
<1>1. s \in Seq(S) /\ t \in Seq(S)
  BY DEF IsList
<1> HIDE DEF S
<1>2. s \o t \in Seq(S) /\ Len(s \o t) = Len(s) + Len(t) /\ Len(s) \in Nat /\ Len(t) \in Nat
  BY <1>1
<1>3. \A i \in 1 .. (Len(s) + Len(t)) : (s \o t)[i] = IF i <= Len(s) THEN s[i] ELSE t[i - Len(s)]
  BY <1>1
<1>4. ASSUME NEW u \in Seq(S) PROVE IsList(u)
  <2>1. Len(u) \in Nat /\ DOMAIN u = 1 .. Len(u)
    OBVIOUS
  <2>2. u = [i \in 1 .. Len(u) |-> u[i]]
    OBVIOUS
  <2> QED BY <2>1, <2>2, ListOfFunction
<1>5. IsList(s \o t)
  BY <1>2, <1>4
<1> QED BY <1>2, <1>3, <1>5

LEMMA ListEmpty == IsList(<<>>) /\ Len(<<>>) = 0
BY DEF IsList

LEMMA ListSingle ==
  ASSUME NEW c
  PROVE  IsList(<<c>>) /\ Len(<<c>>) = 1 /\ <<c>>[1] = c
BY DEF IsList

LEMMA ListConcatEmpty ==
  ASSUME NEW s, IsList(s)
  PROVE  s \o <<>> = s
<1>1. s \in Seq({s[i] : i \in DOMAIN s})
  BY DEF IsList
<1> QED BY <1>1

-----------------------------------------------------------------------------
(* The epochs.                                                             *)

(* What a step may not take away from a proposal: a share of a reward, and *)
(* its end epoch once it has one.                                          *)
SharesKept ==
  \A p \in Proposals : sharing[p] # {} => sharing'[p] = sharing[p] /\ end_epoch'[p] = end_epoch[p]

(* What the chain says of a proposal.                                      *)
LEMMA ChainNumbers ==
  ASSUME chain \in Chains, NEW p \in Proposals
  PROVE  Start(p) \in Nat /\ FirstEnd(p) \in Nat /\ FinalEnd(p) \in Nat
<1>1. /\ chain.proposals[p].start_epoch \in Nat /\ chain.proposals[p].epoch_number \in Nat
      /\ chain.proposals[p].modified_to \in SUBSET Nat
  <2>1. chain \in Chain
    BY ChainAssumption
  <2> QED BY <2>1 DEF Chain
<1>2. Changes(p) # {} => (CHOOSE n \in Changes(p) : TRUE) \in Nat
  BY <1>1 DEF Changes
<1> QED BY <1>1, <1>2 DEF Start, FirstEnd, FinalEnd

(* Approving a proposal again does not move its end.                       *)
LEMMA ApprovalEnd ==
  ASSUME chain \in Chains, NEW p \in Proposals,
         end_epoch[p] = FirstEnd(p) \/ end_epoch[p] = FinalEnd(p)
  PROVE  EndOnApproval(p) = FinalEnd(p)
BY DEF EndOnApproval, FinalEnd, Changes, Start

LEMMA EpochInitSound ==
  ASSUME EpochsSound, EpochInit, chain' = chain, epoch' \in {epoch, epoch + 1}
  PROVE  EpochsSound' /\ SharesKept
<1>1. PICK approved \in SUBSET Proposals, valid \in SUBSET Proposals,
           completed \in SUBSET Proposals :
        /\ completed \subseteq valid
        /\ \A p \in valid :
             p \in approved_proposals \cup approved /\ end_epoch'[p] = epoch
        /\ \A p \in completed : epoch < EndEpoch /\ sharing[p] = {}
        /\ approved_proposals' = approved_proposals \cup approved
        /\ end_epoch' = [p \in Proposals |->
                           IF p \in approved THEN EndOnApproval(p) ELSE end_epoch[p]]
        /\ valid_proposals' = valid_proposals \cup valid
        /\ sharing' = [p \in Proposals |-> IF p \in completed THEN valid ELSE sharing[p]]
  <2> DEFINE sdpCards == SdpEpochCards
             sdp == IF sdpCards = <<>> THEN sdp_voters
                    ELSE UpdatedSdpVoters(sdp_voters, sdpCards, Unit)
             enabled == IF sdpCards = <<>> THEN enabled_voters
                        ELSE Enabled(enabled_voters, sdp, dpod_voters)
             starting == {p \in Proposals : Start(p) = epoch /\ (epoch < EndEpoch \/ VotingOver)}
             approved == {p \in starting : InFavour(chain.proposals[p].first, enabled)}
             ending == Ending(approved_proposals \cup approved)
             valid == {p \in ending : InFavour(chain.proposals[p].second, enabled)}
             completed == {p \in valid : epoch < EndEpoch /\ sharing[p] = {}}
  <2>1. /\ approved_proposals' = approved_proposals \cup approved
        /\ end_epoch' = [p \in Proposals |->
                           IF p \in approved THEN EndOnApproval(p) ELSE end_epoch[p]]
        /\ valid_proposals' = valid_proposals \cup valid
        /\ sharing' = [p \in Proposals |-> IF p \in completed THEN valid ELSE sharing[p]]
    BY Zenon DEF EpochInit
  <2>2. approved \in SUBSET Proposals
    OBVIOUS
  <2>3. \A p \in valid : p \in approved_proposals \cup approved /\ end_epoch'[p] = epoch
    BY DEF Ending
  <2>4. valid \in SUBSET Proposals
    BY <2>2, <2>3 DEF EpochsSound
  <2>5. completed \subseteq valid /\ \A p \in completed : epoch < EndEpoch /\ sharing[p] = {}
    OBVIOUS
  <2>6. completed \in SUBSET Proposals
    BY <2>4, <2>5
  <2> HIDE DEF approved, valid, completed
  <2> QED BY <2>1, <2>2, <2>3, <2>4, <2>5, <2>6, ZenonT(40)
<1>2. \A p \in Proposals :
        end_epoch'[p] = IF p \in approved_proposals' THEN FinalEnd(p) ELSE FirstEnd(p)
  <2> SUFFICES ASSUME NEW p \in Proposals
               PROVE  end_epoch'[p] = IF p \in approved_proposals' THEN FinalEnd(p) ELSE FirstEnd(p)
    OBVIOUS
  <2>1. EndOnApproval(p) = FinalEnd(p)
    BY ApprovalEnd DEF EpochsSound
  <2>2. end_epoch[p] = IF p \in approved_proposals THEN FinalEnd(p) ELSE FirstEnd(p)
    BY DEF EpochsSound
  <2> QED BY <1>1, <2>1, <2>2
<1>3. \A p \in Proposals : FirstEnd(p) \in Nat /\ FinalEnd(p) \in Nat
  BY ChainNumbers DEF EpochsSound
<1>4. \A p \in Proposals : p \in approved_proposals => end_epoch'[p] = end_epoch[p]
  BY <1>1, <1>2 DEF EpochsSound
<1>5. SharesKept
  BY <1>1, <1>4 DEF SharesKept, EpochsSound
<1>6. ASSUME NEW p \in Proposals, sharing'[p] # {}
      PROVE  p \in valid_proposals' /\ end_epoch'[p] <= epoch' /\ end_epoch'[p] < EndEpoch
  <2>1. epoch \in Nat /\ epoch <= epoch'
    BY DEF EpochsSound
  <2>2. CASE p \in completed
    BY <1>1, <2>1, <2>2
  <2>3. CASE p \notin completed
    <3>1. /\ p \in valid_proposals /\ p \in approved_proposals
          /\ end_epoch[p] <= epoch /\ end_epoch[p] < EndEpoch /\ end_epoch[p] \in Nat
      BY <1>1, <1>6, <2>3 DEF EpochsSound
    <3> QED BY <1>1, <1>4, <2>1, <3>1
  <2> QED BY <2>2, <2>3
<1>7. /\ end_epoch' \in [Proposals -> Nat] /\ sharing' \in [Proposals -> SUBSET Proposals]
      /\ approved_proposals' \subseteq Proposals /\ valid_proposals' \subseteq approved_proposals'
  <2>1. \A p \in Proposals : end_epoch'[p] \in Nat
    BY <1>2, <1>3
  <2> QED BY <1>1, <2>1 DEF EpochsSound
<1>8. chain' \in Chains /\ epoch' \in Nat
  BY DEF EpochsSound
<1>9. \A p \in Proposals : FirstEnd(p)' = FirstEnd(p) /\ FinalEnd(p)' = FinalEnd(p)
  BY DEF FirstEnd, FinalEnd, Changes, Start
<1> QED BY <1>2, <1>5, <1>6, <1>7, <1>8, <1>9 DEF EpochsSound

-----------------------------------------------------------------------------
(* The cards.                                                              *)

(* The next transaction's cards come after those read so far.              *)
LEMMA ReadCards ==
  ASSUME CardsSound, NEW tx \in Txs, NEW e \in LastEpoch .. MaxEpoch,
         cards' = cards \o CardsOf(tx, TxCount + 1, e), looked' = looked
  PROVE  /\ CardsSound'
         /\ DOMAIN cards \subseteq DOMAIN cards'
         /\ \A i \in DOMAIN cards : cards'[i] = cards[i]
         /\ \A i \in DOMAIN cards' \ DOMAIN cards, j \in DOMAIN cards :
              cards'[i].txid # cards[j].txid
         /\ \A i \in DOMAIN cards' \ DOMAIN cards : cards'[i].epoch >= LastEpoch
         /\ LastEpoch' >= LastEpoch /\ LastEpoch' \in Nat
         /\ Len(cards') \in Nat /\ DOMAIN cards' = 1 .. Len(cards')
         /\ Len(cards') = Len(cards) + Len(tx.amounts)
         /\ \A i \in DOMAIN cards' \ DOMAIN cards : cards'[i].type = tx.type
<1> DEFINE new == CardsOf(tx, TxCount + 1, e)
           all == cards \o new
<1>1. /\ tx.amounts \in Seq(Nat \ {0}) /\ tx.sender \in Addr /\ tx.receiver \in Addr
      /\ tx.claim \in Claims
  BY ChainAssumption DEF Tx
<1>0. tx.type \in {"CardIssue", "CardTransfer", "CardBurn"}
  BY ChainAssumption DEF Tx
<1>2. Len(cards) \in Nat /\ DOMAIN cards = 1 .. Len(cards)
  BY ListDomain DEF CardsSound
<1>3. /\ TxCount \in Nat /\ LastEpoch \in Nat
      /\ \A i \in DOMAIN cards : cards[i].txid <= TxCount /\ cards[i].epoch <= LastEpoch
  <2>1. CASE cards = <<>>
    BY <2>1 DEF TxCount, LastEpoch
  <2>2. CASE cards # <<>>
    <3>1. Len(cards) \in DOMAIN cards
      <4>1. Len(cards) # 0
        BY <2>2 DEF CardsSound, IsList
      <4> QED BY <1>2, <4>1
    <3>2. IsCard(cards[Len(cards)])
      BY <3>1 DEF CardsSound
    <3>4. ASSUME NEW i \in DOMAIN cards PROVE cards[i].epoch <= cards[Len(cards)].epoch
      <4>1. i = Len(cards) \/ i < Len(cards)
        BY <1>2
      <4>2. cards[Len(cards)].epoch \in Nat
        BY <3>1 DEF CardsSound, IsCard
      <4> QED BY <3>1, <4>1, <4>2 DEF CardsSound
    <3>3. ASSUME NEW i \in DOMAIN cards PROVE cards[i].txid <= cards[Len(cards)].txid
      <4>1. i = Len(cards) \/ Earlier(cards[i], cards[Len(cards)])
        BY <1>2, <3>1 DEF CardsSound
      <4>2. cards[i].txid \in Nat
        BY DEF CardsSound, IsCard
      <4> QED BY <3>2, <4>1, <4>2 DEF Earlier, IsCard
    <3> QED BY <2>2, <3>2, <3>3, <3>4 DEF TxCount, LastEpoch, IsCard
  <2> QED BY <2>1, <2>2
<1>4. e \in Nat /\ e >= LastEpoch
  BY <1>3, BoundsAssumption
<1>5. /\ IsList(new) /\ Len(new) \in Nat /\ DOMAIN new = 1 .. Len(new)
      /\ Len(new) = Len(tx.amounts)
      /\ \A i \in DOMAIN new :
           /\ new[i].txid = TxCount + 1 /\ new[i].cardseq = i /\ new[i].epoch = e
           /\ new[i].type = tx.type /\ new[i].sender = tx.sender /\ new[i].claim = tx.claim
           /\ new[i].receiver = tx.receiver /\ new[i].amount = tx.amounts[i]
  <2>1. Len(tx.amounts) \in Nat /\ DOMAIN tx.amounts = 1 .. Len(tx.amounts)
    BY <1>1
  <2>2. new = [i \in 1 .. Len(tx.amounts) |-> new[i]]
    BY <2>1 DEF CardsOf
  <2>3. IsList(new) /\ Len(new) = Len(tx.amounts) /\ DOMAIN new = 1 .. Len(tx.amounts)
    BY <2>1, <2>2, ListOfFunction
  <2> QED BY <2>1, <2>3 DEF CardsOf
<1>6. /\ IsList(all) /\ Len(all) = Len(cards) + Len(new)
      /\ \A i \in 1 .. Len(cards) : all[i] = cards[i]
      /\ \A i \in (Len(cards) + 1) .. (Len(cards) + Len(new)) : all[i] = new[i - Len(cards)]
  BY <1>5, ListConcat DEF CardsSound
<1>7. Len(all) \in Nat /\ DOMAIN all = 1 .. Len(all)
  BY <1>6, ListDomain
<1> HIDE DEF new, all
<1>8. cards' = all
  BY DEF all, new
<1>10. ASSUME NEW i \in DOMAIN new
       PROVE  IsCard(new[i])
  <2>1. i \in Nat \ {0} /\ tx.amounts[i] \in Nat \ {0}
    BY <1>1, <1>5, <1>10
  <2> QED BY <1>0, <1>1, <1>3, <1>4, <1>5, <1>10, <2>1, SMTT(30) DEF IsCard
<1>11. ASSUME NEW i \in 1 .. Len(all)
       PROVE  /\ IsCard(all[i])
              /\ i \in DOMAIN cards => all[i] = cards[i]
              /\ i \notin DOMAIN cards =>
                   /\ all[i].txid = TxCount + 1 /\ all[i].cardseq = i - Len(cards)
                   /\ all[i].epoch = e /\ all[i].type = tx.type /\ all[i].sender = tx.sender
                   /\ all[i].claim = tx.claim
  <2>1. CASE i \in DOMAIN cards
    BY <1>2, <1>6, <2>1 DEF CardsSound
  <2>2. CASE i \notin DOMAIN cards
    <3>1. i \in (Len(cards) + 1) .. (Len(cards) + Len(new)) /\ i - Len(cards) \in DOMAIN new
      BY <1>2, <1>5, <1>6, <2>2
    <3>2. all[i] = new[i - Len(cards)]
      BY <1>6, <3>1
    <3> QED BY <1>5, <1>10, <2>2, <3>1, <3>2, SMTT(30)
  <2> QED BY <2>1, <2>2
<1>12. ASSUME NEW i \in 1 .. Len(all), NEW j \in 1 .. Len(all)
       PROVE  (i < j => Earlier(all[i], all[j])) /\ OneTx(all[i], all[j])
  <2>1. CASE i \in DOMAIN cards /\ j \in DOMAIN cards
    BY <1>11, <2>1 DEF CardsSound
  <2>2. CASE i \in DOMAIN cards /\ j \notin DOMAIN cards
    <3>1. all[i].txid <= TxCount /\ all[j].txid = TxCount + 1 /\ all[i].txid \in Nat
      BY <1>3, <1>11, <2>2 DEF IsCard
    <3> QED BY <1>3, <3>1 DEF Earlier, OneTx
  <2>3. CASE i \notin DOMAIN cards /\ j \in DOMAIN cards
    <3>1. all[j].txid <= TxCount /\ all[i].txid = TxCount + 1 /\ all[j].txid \in Nat /\ ~(i < j)
      BY <1>2, <1>3, <1>7, <1>11, <2>3, SMTT(30) DEF IsCard
    <3> QED BY <1>3, <3>1 DEF OneTx
  <2>4. CASE i \notin DOMAIN cards /\ j \notin DOMAIN cards
    BY <1>2, <1>11, <2>4 DEF Earlier, OneTx
  <2> QED BY <2>1, <2>2, <2>3, <2>4
<1>13. ASSUME NEW i \in DOMAIN all, NEW j \in DOMAIN all, i < j
       PROVE  all[i].epoch <= all[j].epoch
  <2>1. CASE i \in DOMAIN cards /\ j \in DOMAIN cards
    BY <1>7, <1>11, <1>13, <2>1 DEF CardsSound
  <2>2. CASE i \in DOMAIN cards /\ j \notin DOMAIN cards
    <3>1. all[i].epoch <= LastEpoch /\ all[j].epoch = e /\ all[i].epoch \in Nat
      BY <1>3, <1>7, <1>11, <2>2 DEF IsCard
    <3> QED BY <1>3, <1>4, <3>1
  <2>3. CASE i \notin DOMAIN cards
    <3>1. j \notin DOMAIN cards
      BY <1>2, <1>7, <1>13, <2>3
    <3> QED BY <1>4, <1>7, <1>11, <2>3, <3>1
  <2> QED BY <2>1, <2>2, <2>3
<1>14. ASSUME NEW i \in DOMAIN all, all[i].cardseq > 1
       PROVE  i - 1 \in DOMAIN all /\ all[i - 1].txid = all[i].txid
  <2>1. CASE i \in DOMAIN cards
    <3>1. i - 1 \in DOMAIN cards /\ cards[i - 1].txid = cards[i].txid
      BY <1>7, <1>11, <1>14, <2>1 DEF CardsSound
    <3>2. i - 1 \in 1 .. Len(all)
      BY <1>2, <1>5, <1>6, <3>1
    <3> QED BY <1>7, <1>11, <2>1, <3>1, <3>2
  <2>2. CASE i \notin DOMAIN cards
    <3>1. i - Len(cards) > 1 /\ i \in 1 .. Len(all) /\ all[i].txid = TxCount + 1
      BY <1>7, <1>11, <1>14, <2>2
    <3>2. i - 1 \in 1 .. Len(all) /\ i - 1 \notin DOMAIN cards
      BY <1>2, <1>7, <3>1
    <3> QED BY <1>7, <1>11, <3>1, <3>2
  <2> QED BY <2>1, <2>2
<1>15. looked' \in 0 .. Len(cards')
  BY <1>2, <1>5, <1>6, <1>8 DEF CardsSound
<1>16. CardsSound'
  BY <1>6, <1>7, <1>8, <1>11, <1>12, <1>13, <1>14, <1>15 DEF CardsSound
<1>17. DOMAIN cards \subseteq DOMAIN cards' /\ \A i \in DOMAIN cards : cards'[i] = cards[i]
  BY <1>2, <1>5, <1>6, <1>7, <1>8
<1>18. \A i \in DOMAIN cards' \ DOMAIN cards, j \in DOMAIN cards : cards'[i].txid # cards[j].txid
  <2> SUFFICES ASSUME NEW i \in DOMAIN cards' \ DOMAIN cards, NEW j \in DOMAIN cards
               PROVE  cards'[i].txid # cards[j].txid
    OBVIOUS
  <2>1. cards'[i].txid = TxCount + 1
    BY <1>7, <1>8, <1>11
  <2>2. cards[j].txid <= TxCount /\ cards[j].txid \in Nat
    BY <1>3 DEF CardsSound, IsCard
  <2> QED BY <1>3, <2>1, <2>2
<1>19. \A i \in DOMAIN cards' \ DOMAIN cards : cards'[i].epoch >= LastEpoch
  <2>1. \A i \in DOMAIN cards' \ DOMAIN cards : cards'[i].epoch = e
    BY <1>7, <1>8, <1>11
  <2> QED BY <1>4, <2>1
<1>20. LastEpoch' >= LastEpoch /\ LastEpoch' \in Nat
  <2>1. CASE cards' = <<>>
    <3>1. Len(cards) = 0
      BY <1>2, <1>5, <1>6, <1>8, <2>1
    <3> QED BY <2>1, <3>1 DEF CardsSound, IsList, LastEpoch
  <2>2. CASE cards' # <<>>
    <3>1. Len(cards') # 0
      BY <1>6, <1>8, <2>2 DEF IsList
    <3>2. Len(cards') \in DOMAIN cards' /\ LastEpoch' = cards'[Len(cards')].epoch
      BY <1>7, <1>8, <2>2, <3>1 DEF LastEpoch
    <3>3. cards'[Len(cards')].epoch \in Nat
      BY <1>16, <3>2 DEF CardsSound, IsCard
    <3>4. CASE Len(cards') \in DOMAIN cards
      <4>1. Len(cards') = Len(cards) /\ cards # <<>>
        <5>1. Len(cards') = Len(cards) + Len(new) /\ Len(cards') \in 1 .. Len(cards)
          BY <1>2, <1>6, <1>8, <3>4
        <5>2. Len(cards) \in Nat /\ Len(new) \in Nat
          BY <1>2, <1>5
        <5>3. Len(cards) # 0 /\ Len(cards') = Len(cards)
          BY <5>1, <5>2
        <5>4. cards # <<>>
          BY <5>3
        <5> QED BY <5>3, <5>4
      <4>2. LastEpoch = cards[Len(cards)].epoch
        BY <4>1 DEF LastEpoch
      <4>3. cards'[Len(cards')] = cards[Len(cards)]
        BY <1>17, <3>4, <4>1
      <4> QED BY <3>2, <3>3, <4>2, <4>3
    <3>5. CASE Len(cards') \notin DOMAIN cards
      BY <1>19, <3>2, <3>3, <3>5
    <3> QED BY <3>4, <3>5
  <2> QED BY <2>1, <2>2
<1>21. Len(cards') = Len(cards) + Len(tx.amounts)
  BY <1>5, <1>6, <1>8
<1>22. \A i \in DOMAIN cards' \ DOMAIN cards : cards'[i].type = tx.type
  BY <1>7, <1>8, <1>11
<1> QED BY <1>7, <1>8, <1>16, <1>17, <1>18, <1>19, <1>20, <1>21, <1>22

-----------------------------------------------------------------------------
(* What a step keeps.                                                      *)

LEMMA EpochsKept ==
  ASSUME EpochsSound, UNCHANGED <<chain, proposalVars>>, epoch' \in {epoch, epoch + 1}
  PROVE  EpochsSound' /\ SharesKept
<1>1. epoch' \in Nat /\ epoch <= epoch'
  BY DEF EpochsSound
<1>2. ASSUME NEW p \in Proposals
      PROVE  /\ FirstEnd(p)' = FirstEnd(p) /\ FinalEnd(p)' = FinalEnd(p)
             /\ sharing[p] # {} => end_epoch[p] <= epoch'
  BY <1>1 DEF EpochsSound, FirstEnd, FinalEnd, Changes, Start
<1> QED BY <1>1, <1>2 DEF EpochsSound, SharesKept, proposalVars

LEMMA DueKept ==
  ASSUME SharesKept, NEW c, Due(c), c.type = "CardIssue"
  PROVE  LET p == ProposalOfClaim(c.claim)
         IN  p \in Proposals /\ sharing'[p] # {} /\ end_epoch'[p] <= c.epoch
BY DEF SharesKept, Due

LEMMA BundlesKept ==
  ASSUME BundlesSound, SharesKept, UNCHANGED <<valid_bundles, used_issuance_tuples>>,
         DOMAIN cards \subseteq DOMAIN cards',
         \A i \in DOMAIN cards : cards'[i] = cards[i],
         \A i \in DOMAIN cards' \ DOMAIN cards, j \in DOMAIN cards :
           cards'[i].txid # cards[j].txid
  PROVE  BundlesSound'
<1> SUFFICES ASSUME NEW t \in valid_bundles
             PROVE  /\ \E i \in DOMAIN cards' : cards'[i].txid = t
                    /\ \A i \in DOMAIN cards' : cards'[i].txid = t =>
                         /\ Due(cards[i])'
                         /\ cards'[i].type = "CardIssue" =>
                              <<cards'[i].sender, cards'[i].claim>> \in used_issuance_tuples'
  BY DEF BundlesSound
<1>1. PICK j \in DOMAIN cards : cards[j].txid = t
  BY DEF BundlesSound
<1>2. j \in DOMAIN cards' /\ cards'[j].txid = t
  BY <1>1
<1>3. ASSUME NEW i \in DOMAIN cards', cards'[i].txid = t
      PROVE  /\ Due(cards[i])'
             /\ cards'[i].type = "CardIssue" =>
                  <<cards'[i].sender, cards'[i].claim>> \in used_issuance_tuples'
  <2>1. i \in DOMAIN cards /\ cards'[i] = cards[i]
    BY <1>1, <1>3
  <2>2. /\ Due(cards[i])
        /\ cards[i].type = "CardIssue" =>
             <<cards[i].sender, cards[i].claim>> \in used_issuance_tuples
    BY <1>3, <2>1 DEF BundlesSound
  <2>3. Due(cards[i])'
    BY <2>1, <2>2, DueKept DEF Due
  <2> QED BY <2>1, <2>2, <2>3
<1> QED BY <1>2, <1>3

(* A step that finds no card valid.                                        *)
LEMMA ValidKept ==
  ASSUME CardsSound, ValidSound, InChainOrder, SharesKept, AllValid' = AllValid,
         IsList(valid_cards'), IsList(valid_epoch_cards'),
         looked' \in Nat, looked <= looked',
         \A i \in DOMAIN cards : cards'[i] = cards[i]
  PROVE  ValidSound' /\ InChainOrder'
<1>1. ASSUME NEW i \in DOMAIN AllValid'
      PROVE  /\ \E j \in 1 .. looked' : (AllValid[i] = cards[j])'
             /\ Due(AllValid[i])'
  <2>1. PICK j \in 1 .. looked : AllValid[i] = cards[j]
    BY <1>1 DEF ValidSound
  <2>2. j \in DOMAIN cards /\ j \in 1 .. looked'
    BY <2>1, ListDomain DEF CardsSound
  <2>3. AllValid'[i] = cards'[j]
    BY <2>1, <2>2
  <2>4. Due(AllValid[i]) /\ AllValid'[i] = AllValid[i]
    BY <1>1 DEF ValidSound
  <2>5. Due(AllValid[i])'
    BY <2>4, DueKept DEF Due
  <2> QED BY <2>2, <2>3, <2>5
<1>2. ValidSound'
  BY <1>1 DEF ValidSound
<1>3. InChainOrder'
  BY DEF InChainOrder
<1> QED BY <1>2, <1>3

-----------------------------------------------------------------------------
(* The actions.                                                            *)

LEMMA InitSound == Init => IInv
<1> SUFFICES ASSUME Init PROVE IInv
  OBVIOUS
<1> USE DEF Init
<1>1. IsList(<<>>) /\ Len(<<>>) = 0 /\ DOMAIN <<>> = {}
  BY ListEmpty, ListDomain
<1>2. AllValid = <<>>
  BY ListConcatEmpty, ListEmpty DEF AllValid
<1>3. CardsSound
  BY <1>1 DEF CardsSound
<1>4. EpochsSound
  <2>1. epoch \in Nat
    BY BoundsAssumption
  <2>2. \A p \in Proposals : end_epoch[p] = FirstEnd(p) /\ FirstEnd(p) \in Nat
    BY ChainNumbers DEF FirstEnd
  <2> QED BY <2>1, <2>2 DEF EpochsSound
<1> QED BY <1>1, <1>2, <1>3, <1>4 DEF IInv, BundlesSound, ValidSound, InChainOrder

LEMMA ReadSound == IInv /\ Read => IInv'
<1> SUFFICES ASSUME IInv, Read PROVE IInv'
  OBVIOUS
<1> USE DEF IInv
<1>1. PICK tx \in Txs, e \in LastEpoch .. MaxEpoch :
        cards' = cards \o CardsOf(tx, TxCount + 1, e)
  BY DEF Read
<1>2. UNCHANGED <<chain, looked, loopVars, cardVars, proposalVars, voterVars, pc>>
  BY DEF Read
<1>3. /\ CardsSound'
      /\ DOMAIN cards \subseteq DOMAIN cards'
      /\ \A i \in DOMAIN cards : cards'[i] = cards[i]
      /\ \A i \in DOMAIN cards' \ DOMAIN cards, j \in DOMAIN cards :
           cards'[i].txid # cards[j].txid
  BY <1>1, <1>2, ReadCards
<1>4. EpochsSound' /\ SharesKept
  BY <1>2, EpochsKept DEF loopVars
<1>5. BundlesSound'
  BY <1>2, <1>3, <1>4, BundlesKept DEF cardVars
<1>6. AllValid' = AllValid /\ IsList(valid_cards') /\ IsList(valid_epoch_cards')
  BY <1>2 DEF AllValid, cardVars, ValidSound
<1>7. looked' \in Nat /\ looked <= looked'
  BY <1>2, ListDomain DEF CardsSound
<1>8. ValidSound' /\ InChainOrder'
  BY <1>3, <1>4, <1>6, <1>7, ValidKept
<1> QED BY <1>3, <1>4, <1>5, <1>8

(* The steps that read no card, find none valid and forget none.           *)
LEMMA QuietSound ==
  ASSUME IInv, EpochsSound', SharesKept, cards' = cards, AllValid' = AllValid,
         IsList(valid_cards'), IsList(valid_epoch_cards'),
         UNCHANGED <<valid_bundles, used_issuance_tuples>>,
         looked' = looked \/ (looked' = looked + 1 /\ looked < Len(cards))
  PROVE  IInv'
<1> USE DEF IInv
<1>1. Len(cards) \in Nat /\ looked \in 0 .. Len(cards) /\ looked' \in 0 .. Len(cards)
  BY ListDomain DEF CardsSound
<1>2. CardsSound'
  BY <1>1 DEF CardsSound
<1>3. \A i \in DOMAIN cards : cards'[i] = cards[i]
  OBVIOUS
<1>4. BundlesSound'
  BY <1>3, BundlesKept
<1>5. ValidSound' /\ InChainOrder'
  BY <1>1, <1>3, ValidKept
<1> QED BY <1>2, <1>4, <1>5

LEMMA PostprocessSound == IInv /\ Postprocess => IInv'
<1> SUFFICES ASSUME IInv, Postprocess PROVE IInv'
  OBVIOUS
<1> USE DEF Postprocess
<1>1. EpochsSound' /\ SharesKept
  BY EpochsKept DEF IInv, chainVars
<1>2. /\ valid_cards' = valid_cards \o valid_epoch_cards /\ valid_epoch_cards' = <<>>
      /\ pc = "loop" /\ pc' = "loop" /\ IsList(valid_cards) /\ IsList(valid_epoch_cards)
  BY DEF EpochPostprocess, Looking, IInv, ValidSound
<1>3. IsList(valid_cards') /\ IsList(valid_epoch_cards')
  BY <1>2, ListConcat, ListEmpty
<1>4. AllValid' = AllValid
  BY <1>2, <1>3, ListConcatEmpty DEF AllValid
<1> QED BY <1>1, <1>3, <1>4, QuietSound DEF chainVars

LEMMA EndLoopSound == IInv /\ EndLoop => IInv'
<1> SUFFICES ASSUME IInv, EndLoop PROVE IInv'
  OBVIOUS
<1> USE DEF EndLoop
<1>1. EpochsSound' /\ SharesKept
  BY EpochsKept DEF IInv, chainVars, loopVars
<1>2. IsList(valid_cards) /\ IsList(valid_epoch_cards) /\ valid_epoch_cards' = valid_epoch_cards
  BY DEF IInv, ValidSound
<1>3. valid_cards' = valid_cards \o valid_epoch_cards
  <2>1. CASE valid_epoch_cards # <<>>
    BY <2>1 DEF EpochPostprocess
  <2>2. CASE valid_epoch_cards = <<>>
    BY <1>2, <2>2, ListConcatEmpty
  <2> QED BY <2>1, <2>2
<1>4. pc = "loop" /\ pc' # "loop"
  OBVIOUS
<1>5. AllValid' = AllValid /\ IsList(valid_cards') /\ IsList(valid_epoch_cards')
  BY <1>2, <1>3, <1>4, ListConcat DEF AllValid
<1> QED BY <1>1, <1>5, QuietSound DEF chainVars

(* Entering an epoch, with cards, without or after the last one.           *)
LEMMA EnterSound ==
  ASSUME IInv, EpochInit, UNCHANGED <<chainVars, cardVars>>, epoch' \in {epoch, epoch + 1},
         pc' = pc \/ (pc # "loop" /\ pc' # "loop")
  PROVE  IInv'
<1>1. EpochsSound' /\ SharesKept
  BY EpochInitSound DEF IInv, chainVars
<1>2. AllValid' = AllValid /\ IsList(valid_cards') /\ IsList(valid_epoch_cards')
  BY DEF AllValid, cardVars, IInv, ValidSound
<1> QED BY <1>1, <1>2, QuietSound DEF chainVars, cardVars

LEMMA TooEarlySound == IInv /\ TooEarly => IInv'
<1> SUFFICES ASSUME IInv, TooEarly PROVE IInv'
  OBVIOUS
<1> USE DEF TooEarly, NextCard
<1>1. EpochsSound' /\ SharesKept
  BY EpochsKept DEF IInv, loopVars
<1>2. AllValid' = AllValid /\ IsList(valid_cards') /\ IsList(valid_epoch_cards')
  BY DEF AllValid, cardVars, IInv, ValidSound
<1> QED BY <1>1, <1>2, QuietSound DEF Looking, cardVars

(* The card of the epoch that is looked at, and what becomes of it.  A     *)
(* further part of a valid bundle is appended for that reason only: the    *)
(* claim of the bundle has been used, so check_card cannot accept the part *)
(* as well.                                                                *)
TheCard == cards[looked + 1]
Checked == IF Bundle = NoBundle THEN TheCard.amount ELSE Bundle
Part == TheCard.type = "CardIssue" /\ TheCard.txid \in valid_bundles
Accepted == TheCard.type = "CardIssue" => Accepts(TheCard, Checked)

AllValidGrows(c) ==
  /\ IsList(AllValid') /\ Len(AllValid) \in Nat /\ DOMAIN AllValid = 1 .. Len(AllValid)
  /\ DOMAIN AllValid' = 1 .. (Len(AllValid) + 1)
  /\ \A i \in 1 .. Len(AllValid) : AllValid'[i] = AllValid[i]
  /\ AllValid'[Len(AllValid) + 1] = c

LEMMA CardAppends ==
  ASSUME IInv, Card
  PROVE  /\ Looking /\ card_epoch = epoch /\ looked' = looked + 1
         /\ UNCHANGED <<chain, cards, loopVars, valid_cards, proposalVars, voterVars, pc>>
         /\ looked \in Nat /\ looked + 1 \in DOMAIN cards /\ DOMAIN cards = 1 .. Len(cards)
         /\ Len(cards) \in Nat /\ looked < Len(cards)
         /\ IsCard(TheCard) /\ TheCard.epoch = epoch
         /\ Part => Due(TheCard) /\ <<TheCard.sender, TheCard.claim>> \in used_issuance_tuples
         /\ Accepted => Due(TheCard)
         /\ Part => ~Accepted
         /\ valid_bundles' = IF Accepted /\ Bundle # NoBundle
                             THEN valid_bundles \cup {TheCard.txid} ELSE valid_bundles
         /\ used_issuance_tuples' =
              IF Accepted /\ TheCard.type = "CardIssue"
              THEN used_issuance_tuples \cup {<<TheCard.sender, TheCard.claim>>}
              ELSE used_issuance_tuples
         /\ ~Part /\ ~Accepted =>
              AllValid' = AllValid /\ valid_epoch_cards' = valid_epoch_cards
         /\ Part \/ Accepted =>
              AllValidGrows(TheCard) /\ valid_epoch_cards' = valid_epoch_cards \o <<TheCard>>
<1> DEFINE issue == TheCard.type = "CardIssue"
<1>1. /\ Looking /\ card_epoch = epoch /\ looked' = looked + 1
      /\ UNCHANGED <<chain, cards, loopVars, valid_cards, proposalVars, voterVars, pc>>
  BY DEF Card, NextCard
<1>2. /\ valid_epoch_cards' = valid_epoch_cards \o
              (IF Part THEN <<TheCard>> ELSE <<>>) \o (IF Accepted THEN <<TheCard>> ELSE <<>>)
      /\ valid_bundles' = IF Accepted /\ Bundle # NoBundle
                          THEN valid_bundles \cup {TheCard.txid} ELSE valid_bundles
      /\ used_issuance_tuples' = IF Accepted /\ issue
                                 THEN used_issuance_tuples \cup {<<TheCard.sender, TheCard.claim>>}
                                 ELSE used_issuance_tuples
  BY Zenon DEF Card, TheCard, Checked, Part, Accepted
<1>3. /\ looked \in Nat /\ looked + 1 \in DOMAIN cards /\ DOMAIN cards = 1 .. Len(cards)
      /\ Len(cards) \in Nat /\ looked < Len(cards)
  <2>1. Len(cards) \in Nat /\ DOMAIN cards = 1 .. Len(cards) /\ looked \in 0 .. Len(cards)
    BY ListDomain DEF IInv, CardsSound
  <2> QED BY <1>1, <2>1 DEF Looking
<1>4. IsCard(TheCard) /\ TheCard.epoch = epoch
  BY <1>1, <1>3 DEF IInv, CardsSound, card_epoch, TheCard
<1>6. /\ Part => Due(TheCard) /\ <<TheCard.sender, TheCard.claim>> \in used_issuance_tuples
      /\ Accepted => Due(TheCard)
      /\ Part => ~Accepted
  <2>1. Part => Due(TheCard) /\ <<TheCard.sender, TheCard.claim>> \in used_issuance_tuples
    BY <1>3 DEF IInv, BundlesSound, Part, TheCard
  <2>2. ASSUME Accepted, issue
        PROVE  Due(TheCard) /\ <<TheCard.sender, TheCard.claim>> \notin used_issuance_tuples
    <3> DEFINE p == ProposalOfClaim(TheCard.claim)
    <3>1. /\ <<TheCard.sender, TheCard.claim>> \notin used_issuance_tuples
          /\ p \in valid_proposals /\ sharing[p] # {}
      BY <2>2 DEF Accepts, Accepted
    <3>2. p \in Proposals /\ end_epoch[p] <= epoch
      BY <3>1 DEF IInv, EpochsSound
    <3> QED BY <1>4, <3>1, <3>2 DEF Due
  <2>3. Accepted => Due(TheCard)
    BY <2>2 DEF Due
  <2> QED BY <2>1, <2>2, <2>3 DEF Part
<1>7. IsList(valid_cards) /\ IsList(valid_epoch_cards) /\ valid_cards' = valid_cards
  BY <1>1 DEF IInv, ValidSound
<1>8. AllValid = valid_cards \o valid_epoch_cards /\ AllValid' = valid_cards \o valid_epoch_cards'
  BY <1>1 DEF AllValid, Looking
<1>9. IsList(<<>>) /\ IsList(<<TheCard>>) /\ IsList(valid_epoch_cards \o <<TheCard>>)
  BY <1>7, ListEmpty, ListSingle, ListConcat, SMTT(30)
<1> HIDE DEF issue
<1>11. CASE ~Part /\ ~Accepted
  <2>1. valid_epoch_cards' = valid_epoch_cards
    BY <1>2, <1>7, <1>11, ListConcatEmpty
  <2>2. AllValid' = AllValid
    BY <1>8, <2>1
  <2> QED BY <1>1, <1>2, <1>3, <1>4, <1>6, <1>11, <2>1, <2>2 DEF issue
<1>12. CASE Part \/ Accepted
  <2>1. valid_epoch_cards' = valid_epoch_cards \o <<TheCard>>
    <3>1. (valid_epoch_cards \o <<>>) \o <<TheCard>> = valid_epoch_cards \o <<TheCard>>
      BY <1>7, ListConcatEmpty
    <3>2. (valid_epoch_cards \o <<TheCard>>) \o <<>> = valid_epoch_cards \o <<TheCard>>
      BY <1>9, ListConcatEmpty
    <3> QED BY <1>2, <1>6, <1>12, <3>1, <3>2
  <2>3. /\ IsList(AllValid') /\ Len(AllValid) \in Nat /\ DOMAIN AllValid = 1 .. Len(AllValid)
        /\ DOMAIN AllValid' = 1 .. (Len(AllValid) + 1)
        /\ \A i \in 1 .. Len(AllValid) : AllValid'[i] = AllValid[i]
        /\ AllValid'[Len(AllValid) + 1] = TheCard
    <3>1. /\ IsList(AllValid) /\ Len(AllValid) = Len(valid_cards) + Len(valid_epoch_cards)
          /\ \A i \in 1 .. Len(valid_cards) : AllValid[i] = valid_cards[i]
          /\ \A i \in (Len(valid_cards) + 1) .. (Len(valid_cards) + Len(valid_epoch_cards)) :
               AllValid[i] = valid_epoch_cards[i - Len(valid_cards)]
      BY <1>7, <1>8, ListConcat
    <3>2. /\ Len(valid_epoch_cards') = Len(valid_epoch_cards) + 1
          /\ \A i \in 1 .. Len(valid_epoch_cards) : valid_epoch_cards'[i] = valid_epoch_cards[i]
          /\ valid_epoch_cards'[Len(valid_epoch_cards) + 1] = TheCard
      <4>1. Len(valid_epoch_cards) \in Nat /\ Len(<<TheCard>>) = 1 /\ <<TheCard>>[1] = TheCard
        BY <1>7, ListDomain, ListSingle
      <4>2. /\ Len(valid_epoch_cards') = Len(valid_epoch_cards) + 1
            /\ \A i \in 1 .. Len(valid_epoch_cards) : valid_epoch_cards'[i] = valid_epoch_cards[i]
            /\ \A i \in (Len(valid_epoch_cards) + 1) .. (Len(valid_epoch_cards) + 1) :
                 valid_epoch_cards'[i] = <<TheCard>>[i - Len(valid_epoch_cards)]
        BY <1>7, <1>9, <2>1, <4>1, ListConcat
      <4> QED BY <4>1, <4>2
    <3>3. /\ IsList(AllValid')
          /\ Len(AllValid') = Len(valid_cards) + Len(valid_epoch_cards')
          /\ \A i \in 1 .. Len(valid_cards) : AllValid'[i] = valid_cards[i]
          /\ \A i \in (Len(valid_cards) + 1) .. (Len(valid_cards) + Len(valid_epoch_cards')) :
               AllValid'[i] = valid_epoch_cards'[i - Len(valid_cards)]
      BY <1>7, <1>8, <1>9, <2>1, ListConcat
    <3>4. Len(valid_cards) \in Nat /\ Len(valid_epoch_cards) \in Nat
      BY <1>7, ListDomain
    <3>5. /\ DOMAIN AllValid = 1 .. Len(AllValid) /\ DOMAIN AllValid' = 1 .. Len(AllValid')
      BY <3>1, <3>3, ListDomain
    <3>6. \A i \in 1 .. Len(AllValid) : AllValid'[i] = AllValid[i]
      <4> SUFFICES ASSUME NEW i \in 1 .. Len(AllValid) PROVE AllValid'[i] = AllValid[i]
        OBVIOUS
      <4>1. CASE i <= Len(valid_cards)
        BY <3>1, <3>3, <3>4, <4>1
      <4>2. CASE i > Len(valid_cards)
        <5> DEFINE k == i - Len(valid_cards)
        <5>1. k \in 1 .. Len(valid_epoch_cards)
          BY <3>1, <3>4, <4>2
        <5>2. i \in (Len(valid_cards) + 1) .. (Len(valid_cards) + Len(valid_epoch_cards))
          BY <3>1, <3>4, <4>2
        <5>3. i \in (Len(valid_cards) + 1) .. (Len(valid_cards) + Len(valid_epoch_cards'))
          BY <3>2, <3>4, <5>2
        <5>4. AllValid[i] = valid_epoch_cards[k] /\ AllValid'[i] = valid_epoch_cards'[k]
          BY <3>1, <3>3, <5>2, <5>3
        <5>5. valid_epoch_cards'[k] = valid_epoch_cards[k]
          BY <3>2, <5>1
        <5> QED BY <5>4, <5>5
      <4> QED BY <3>1, <3>4, <4>1, <4>2
    <3>7. AllValid'[Len(AllValid) + 1] = TheCard
      BY <3>1, <3>2, <3>3, <3>4
    <3> QED BY <3>1, <3>2, <3>3, <3>4, <3>5, <3>6, <3>7
  <2> QED BY <1>1, <1>2, <1>3, <1>4, <1>6, <1>12, <2>1, <2>3 DEF issue, AllValidGrows
<1> QED BY <1>11, <1>12

LEMMA CardSound == IInv /\ Card => IInv'
<1> SUFFICES ASSUME IInv, Card PROVE IInv'
  OBVIOUS
<1>1. UNCHANGED <<chain, cards, loopVars, valid_cards, proposalVars, voterVars, pc>>
      /\ looked' = looked + 1
  BY CardAppends
<1>2. /\ valid_bundles' = IF Accepted /\ Bundle # NoBundle
                          THEN valid_bundles \cup {TheCard.txid} ELSE valid_bundles
      /\ used_issuance_tuples' =
           IF Accepted /\ TheCard.type = "CardIssue"
           THEN used_issuance_tuples \cup {<<TheCard.sender, TheCard.claim>>}
           ELSE used_issuance_tuples
  BY CardAppends
<1>3. /\ looked \in Nat /\ looked + 1 \in DOMAIN cards /\ DOMAIN cards = 1 .. Len(cards)
      /\ Len(cards) \in Nat /\ looked < Len(cards)
  BY CardAppends
<1>5. EpochsSound' /\ SharesKept
  BY <1>1, EpochsKept DEF IInv, loopVars
<1>6. (Part \/ Accepted => Due(TheCard)) /\ (Part => ~Accepted)
  BY CardAppends
<1>7. IsList(valid_cards) /\ IsList(valid_epoch_cards) /\ valid_cards' = valid_cards
  BY <1>1 DEF IInv, ValidSound
<1>9. IsList(valid_epoch_cards \o <<TheCard>>)
  BY <1>7, ListSingle, ListConcat
<1>10. (Due(TheCard) /\ TheCard.type = "CardIssue") =>
         LET p == ProposalOfClaim(TheCard.claim)
         IN  p \in Proposals /\ sharing'[p] # {} /\ end_epoch'[p] <= TheCard.epoch
  BY <1>5, DueKept
<1>11. CASE ~Part /\ ~Accepted
  <2>1. AllValid' = AllValid /\ valid_epoch_cards' = valid_epoch_cards
    BY <1>11, CardAppends
  <2> QED BY <1>1, <1>2, <1>3, <1>5, <1>7, <1>11, <2>1, QuietSound
<1>12. CASE Part \/ Accepted
  <2>1. valid_epoch_cards' = valid_epoch_cards \o <<TheCard>>
    BY <1>12, CardAppends
  <2>2. Due(TheCard)
    BY <1>6, <1>12
  <2>3. /\ IsList(AllValid') /\ Len(AllValid) \in Nat /\ DOMAIN AllValid = 1 .. Len(AllValid)
        /\ DOMAIN AllValid' = 1 .. (Len(AllValid) + 1)
        /\ \A i \in 1 .. Len(AllValid) : AllValid'[i] = AllValid[i]
        /\ AllValid'[Len(AllValid) + 1] = TheCard
    BY <1>12, CardAppends DEF AllValidGrows
  <2>4. CardsSound'
    BY <1>1, <1>3 DEF IInv, CardsSound
  <2>5. used_issuance_tuples \subseteq used_issuance_tuples'
    BY <1>2
  <2>6. BundlesSound'
    <3> SUFFICES ASSUME NEW t \in valid_bundles'
                 PROVE  /\ \E i \in DOMAIN cards : cards[i].txid = t
                        /\ \A i \in DOMAIN cards : cards[i].txid = t =>
                             /\ Due(cards[i])'
                             /\ cards[i].type = "CardIssue" =>
                                  <<cards[i].sender, cards[i].claim>> \in used_issuance_tuples'
      BY <1>1 DEF BundlesSound
    <3>1. CASE t \in valid_bundles
      <4>1. \E i \in DOMAIN cards : cards[i].txid = t
        BY <3>1 DEF IInv, BundlesSound
      <4>2. ASSUME NEW i \in DOMAIN cards, cards[i].txid = t
            PROVE  /\ Due(cards[i])'
                   /\ cards[i].type = "CardIssue" =>
                        <<cards[i].sender, cards[i].claim>> \in used_issuance_tuples'
        <5>1. Due(cards[i]) /\ (cards[i].type = "CardIssue" =>
                 <<cards[i].sender, cards[i].claim>> \in used_issuance_tuples)
          BY <3>1, <4>2 DEF IInv, BundlesSound
        <5>2. Due(cards[i])'
          BY <1>1, <1>5, <5>1, DueKept DEF Due
        <5> QED BY <2>5, <5>1, <5>2
      <4> QED BY <4>1, <4>2
    <3>2. CASE t \notin valid_bundles
      <4>1. t = TheCard.txid /\ Accepted
        BY <1>2, <3>2
      <4>2. \E i \in DOMAIN cards : cards[i].txid = t
        BY <1>3, <4>1 DEF TheCard
      <4>3. ASSUME NEW i \in DOMAIN cards, cards[i].txid = t
            PROVE  /\ Due(cards[i])'
                   /\ cards[i].type = "CardIssue" =>
                        <<cards[i].sender, cards[i].claim>> \in used_issuance_tuples'
        <5>1. /\ cards[i].epoch = TheCard.epoch /\ cards[i].type = TheCard.type
              /\ cards[i].sender = TheCard.sender /\ cards[i].claim = TheCard.claim
          BY <1>3, <4>1, <4>3 DEF IInv, CardsSound, OneTx, TheCard
        <5>2. Due(cards[i])'
          BY <1>1, <1>10, <2>2, <5>1 DEF Due
        <5>3. cards[i].type = "CardIssue" =>
                <<cards[i].sender, cards[i].claim>> \in used_issuance_tuples'
          BY <1>2, <4>1, <5>1
        <5> QED BY <5>2, <5>3
      <4> QED BY <4>2, <4>3
    <3> QED BY <3>1, <3>2
  <2>7. ASSUME NEW i \in 1 .. Len(AllValid)
        PROVE  \E j \in 1 .. looked : AllValid'[i] = cards[j]
    BY <2>3 DEF IInv, ValidSound
  <2>8. ASSUME NEW i \in DOMAIN AllValid'
        PROVE  /\ \E j \in 1 .. looked' : (AllValid[i] = cards[j])'
               /\ Due(AllValid[i])'
    <3>1. CASE i \in 1 .. Len(AllValid)
      <4>1. PICK j \in 1 .. looked : AllValid'[i] = cards[j]
        BY <2>7, <3>1
      <4>2. j \in 1 .. looked' /\ (AllValid[i] = cards[j])'
        BY <1>1, <1>3, <4>1
      <4>3. Due(AllValid[i]) /\ AllValid'[i] = AllValid[i]
        BY <2>3, <3>1 DEF IInv, ValidSound
      <4>4. Due(AllValid[i])'
        BY <1>5, <4>3, DueKept DEF Due
      <4> QED BY <4>2, <4>4
    <3>2. CASE i = Len(AllValid) + 1
      <4>1. AllValid'[i] = TheCard /\ looked + 1 \in 1 .. looked'
        BY <1>1, <1>3, <2>3, <3>2
      <4>2. cards'[looked + 1] = TheCard
        BY <1>1 DEF TheCard
      <4>3. \E j \in 1 .. looked' : (AllValid[i] = cards[j])'
        BY <4>1, <4>2
      <4>4. Due(AllValid[i])'
        BY <1>10, <2>2, <4>1 DEF Due
      <4> QED BY <4>3, <4>4
    <3> QED BY <2>3, <3>1, <3>2
  <2>9. ValidSound'
    BY <1>7, <1>9, <2>1, <2>8 DEF ValidSound
  <2>10. InChainOrder'
    <3> SUFFICES ASSUME NEW i \in DOMAIN AllValid', NEW j \in DOMAIN AllValid', i < j
                 PROVE  Earlier(AllValid'[i], AllValid'[j])
      BY DEF InChainOrder, Earlier
    <3>1. CASE j \in 1 .. Len(AllValid)
      <4>1. i \in 1 .. Len(AllValid)
        BY <2>3, <3>1
      <4> QED BY <2>3, <3>1, <4>1 DEF IInv, InChainOrder, Earlier
    <3>2. CASE j = Len(AllValid) + 1
      <4>1. i \in 1 .. Len(AllValid)
        BY <2>3, <3>2
      <4>2. PICK k \in 1 .. looked : AllValid'[i] = cards[k]
        BY <2>7, <4>1
      <4>3. k \in DOMAIN cards /\ k < looked + 1
        BY <1>3, <4>2
      <4>4. Earlier(cards[k], TheCard)
        BY <1>3, <4>3 DEF IInv, CardsSound, TheCard
      <4> QED BY <2>3, <3>2, <4>2, <4>4 DEF Earlier
    <3> QED BY <2>3, <3>1, <3>2
  <2> QED BY <1>5, <2>4, <2>6, <2>9, <2>10 DEF IInv
<1> QED BY <1>11, <1>12

LEMMA StepSound == IInv /\ [Next]_vars => IInv'
<1> SUFFICES ASSUME IInv, [Next]_vars PROVE IInv'
  OBVIOUS
<1>1. CASE Read
  BY <1>1, ReadSound
<1>2. CASE Postprocess
  BY <1>2, PostprocessSound
<1>3. CASE Cardless
  BY <1>3, EnterSound DEF Cardless
<1>4. CASE EnterEpoch
  BY <1>4, EnterSound DEF EnterEpoch, chainVars
<1>5. CASE Card
  BY <1>5, CardSound
<1>6. CASE TooEarly
  BY <1>6, TooEarlySound
<1>7. CASE EndLoop
  BY <1>7, EndLoopSound
<1>8. CASE Continue
  BY <1>8, EnterSound DEF Continue
<1>9. CASE UNCHANGED vars
  <2>1. EpochsSound' /\ SharesKept
    BY <1>9, EpochsKept DEF IInv, vars, chainVars, loopVars
  <2>2. AllValid' = AllValid /\ IsList(valid_cards') /\ IsList(valid_epoch_cards')
    BY <1>9 DEF vars, cardVars, AllValid, IInv, ValidSound
  <2> QED BY <1>9, <2>1, <2>2, QuietSound DEF vars, chainVars, cardVars
<1> QED BY <1>1, <1>2, <1>3, <1>4, <1>5, <1>6, <1>7, <1>8, <1>9 DEF Next

(* The parser's state is sound in every reachable state, whatever chain it *)
(* reads: dist_factor is only set for proposals that have ended, and the   *)
(* valid cards are a part of the cards looked at.                          *)
THEOREM AlwaysSound == Spec => []IInv
<1>1. Init => IInv
  BY InitSound
<1>2. IInv /\ [Next]_vars => IInv'
  BY StepSound
<1> QED BY <1>1, <1>2, PTL DEF Spec

-----------------------------------------------------------------------------
(* The second invariant: the walk over the epochs.                         *)

(* The cards, as numbers. *)
LEMMA CardNumbers ==
  ASSUME IInv
  PROVE  /\ Len(cards) \in Nat /\ DOMAIN cards = 1 .. Len(cards) /\ looked \in 0 .. Len(cards)
         /\ \A i \in 1 .. Len(cards) : cards[i].epoch \in Nat /\ cards[i].txid \in Nat
         /\ \A i, j \in 1 .. Len(cards) : i < j => cards[i].epoch <= cards[j].epoch
         /\ epoch \in Nat /\ EndEpoch \in Nat /\ StartEpoch \in Nat
BY ListDomain, BoundsAssumption DEF IInv, CardsSound, IsCard, EpochsSound

LEMMA LastEpochBounds ==
  ASSUME IInv
  PROVE  /\ LastEpoch \in Nat
         /\ \A i \in 1 .. Len(cards) : cards[i].epoch <= LastEpoch
<1>1. CASE cards = <<>>
  <2>1. Len(cards) = 0
    BY <1>1
  <2> QED BY <1>1, <2>1, CardNumbers DEF LastEpoch
<1>2. CASE cards # <<>>
  <2>1. Len(cards) \in 1 .. Len(cards)
    <3>1. Len(cards) # 0
      BY <1>2 DEF IInv, CardsSound, IsList
    <3> QED BY <3>1, CardNumbers
  <2>2. /\ Len(cards) \in Nat
        /\ \A i \in 1 .. Len(cards) : cards[i].epoch \in Nat
        /\ \A i, j \in 1 .. Len(cards) : i < j => cards[i].epoch <= cards[j].epoch
    BY CardNumbers
  <2>3. cards[Len(cards)].epoch \in Nat
    BY <2>1, <2>2
  <2>4. \A i \in 1 .. Len(cards) : cards[i].epoch <= cards[Len(cards)].epoch
    <3> SUFFICES ASSUME NEW i \in 1 .. Len(cards)
                 PROVE  cards[i].epoch <= cards[Len(cards)].epoch
      OBVIOUS
    <3>1. i = Len(cards) \/ i < Len(cards)
      BY <2>2
    <3> QED BY <2>1, <2>2, <2>3, <3>1
  <2> QED BY <1>2, <2>3, <2>4 DEF LastEpoch
<1> QED BY <1>1, <1>2

(* The loop only goes on to an epoch that the next card has reached.       *)
LEMMA NextEpoch ==
  ASSUME IInv, WalkSound, Looking, card_epoch > epoch, UNCHANGED <<cards, looked, pc>>,
         epoch' = epoch + 1
  PROVE  WalkSound'
<1>1. looked + 1 \in 1 .. Len(cards) /\ pc = "loop"
  BY CardNumbers DEF Looking
<1>2. \A k \in looked + 1 .. Len(cards) :
        k \in 1 .. Len(cards) /\ (k = looked + 1 \/ looked + 1 < k)
  BY CardNumbers
<1>3. cards[looked + 1].epoch \in Nat /\ cards[looked + 1].epoch > epoch /\ epoch \in Nat
  BY <1>1, CardNumbers DEF card_epoch
<1>4. \A k \in looked + 1 .. Len(cards) : epoch + 1 <= cards[k].epoch
  BY <1>1, <1>2, <1>3, CardNumbers
<1>5. epoch + 1 <= LastEpoch
  BY <1>1, <1>3, LastEpochBounds
<1>6. LastEpoch' = LastEpoch
  BY DEF LastEpoch
<1>7. epoch' >= StartEpoch
  BY <1>3, CardNumbers DEF WalkSound
<1> QED BY <1>1, <1>4, <1>5, <1>6, <1>7 DEF WalkSound

(* Steps within an epoch, or after the loop. *)
LEMMA SameEpoch ==
  ASSUME IInv, WalkSound, cards' = cards, pc' = pc \/ (pc' = "done" /\ pc # "loop"),
         looked' \in {looked, looked + 1},
         epoch' = epoch \/ (epoch' = epoch + 1 /\ pc # "loop")
  PROVE  WalkSound'
<1>1. \A k \in looked' + 1 .. Len(cards) : k \in looked + 1 .. Len(cards)
  BY CardNumbers
<1>2. LastEpoch' = LastEpoch
  BY DEF LastEpoch
<1>3. epoch' >= StartEpoch
  BY CardNumbers DEF WalkSound
<1> QED BY <1>1, <1>2, <1>3 DEF WalkSound

LEMMA WalkStep ==
  ASSUME IInv, WalkSound, [Next]_vars
  PROVE  WalkSound'
<1>1. CASE Read
  <2>1. PICK tx \in Txs, e \in LastEpoch .. MaxEpoch :
          cards' = cards \o CardsOf(tx, TxCount + 1, e)
    BY <1>1 DEF Read
  <2>2. UNCHANGED <<looked, epoch, pc>> /\ pc = "loop" /\ looked = Len(cards)
    BY <1>1 DEF Read, loopVars
  <2>3. /\ \A i \in DOMAIN cards' \ DOMAIN cards : cards'[i].epoch >= LastEpoch
        /\ LastEpoch' >= LastEpoch /\ LastEpoch' \in Nat
        /\ Len(cards') \in Nat /\ DOMAIN cards' = 1 .. Len(cards')
    <3>1. CardsSound
      BY DEF IInv
    <3> QED BY <2>1, <2>2, <3>1, ReadCards
  <2>4. \A k \in looked + 1 .. Len(cards') : k \in DOMAIN cards' \ DOMAIN cards
    BY <2>2, <2>3, CardNumbers
  <2>5. \A k \in looked + 1 .. Len(cards') : cards'[k].epoch >= LastEpoch
    BY <2>3, <2>4
  <2>6. epoch # StartEpoch => epoch <= LastEpoch
    BY <2>2 DEF WalkSound
  <2>7. epoch \in Nat /\ LastEpoch \in Nat
    BY CardNumbers, LastEpochBounds
  <2>8. \A k \in looked + 1 .. Len(cards') : cards'[k].epoch \in Nat
    <3>1. CardsSound /\ CardsSound'
      BY <2>1, <2>2, ReadCards DEF IInv
    <3> QED BY <2>3, <2>4, <3>1 DEF CardsSound, IsCard
  <2>9. epoch # StartEpoch =>
          epoch <= LastEpoch' /\ \A k \in looked + 1 .. Len(cards') : epoch <= cards'[k].epoch
    BY <2>3, <2>5, <2>6, <2>7, <2>8
  <2> QED BY <2>2, <2>9 DEF WalkSound
<1>2. CASE Postprocess
  BY <1>2, NextEpoch DEF Postprocess, chainVars
<1>3. CASE Cardless
  BY <1>3, NextEpoch DEF Cardless, chainVars
<1>4. CASE EnterEpoch \/ Card \/ TooEarly \/ UNCHANGED vars
  <2>1. cards' = cards /\ epoch' = epoch /\ pc' = pc /\ looked' \in {looked, looked + 1}
    <3>1. CASE EnterEpoch
      BY <3>1 DEF EnterEpoch, chainVars
    <3>2. CASE Card
      BY <3>2, CardAppends DEF loopVars
    <3>3. CASE TooEarly
      BY <3>3 DEF TooEarly, NextCard, loopVars
    <3>4. CASE UNCHANGED vars
      BY <3>4 DEF vars, chainVars, loopVars
    <3> QED BY <1>4, <3>1, <3>2, <3>3, <3>4
  <2>2. /\ cards' = cards /\ looked' \in {looked, looked + 1}
        /\ pc' = pc \/ (pc' = "done" /\ pc # "loop")
        /\ epoch' = epoch \/ (epoch' = epoch + 1 /\ pc # "loop")
    BY <2>1
  <2> QED BY <2>2, SameEpoch
<1>5. CASE EndLoop
  <2>1. /\ UNCHANGED <<cards, looked, epoch>> /\ pc = "loop" /\ pc' # "loop"
        /\ looked < Len(cards) => card_epoch > EndEpoch
    BY <1>5 DEF EndLoop, chainVars, loopVars
  <2>2. ASSUME NEW k \in looked + 1 .. Len(cards)
        PROVE  cards[k].epoch > EndEpoch
    <3>1. looked < Len(cards) /\ looked + 1 \in 1 .. Len(cards) /\ k \in 1 .. Len(cards)
          /\ (k = looked + 1 \/ looked + 1 < k)
      BY CardNumbers
    <3>2. cards[looked + 1].epoch > EndEpoch
      BY <2>1, <3>1 DEF card_epoch
    <3>3. /\ cards[looked + 1].epoch \in Nat /\ cards[k].epoch \in Nat /\ EndEpoch \in Nat
          /\ looked + 1 < k => cards[looked + 1].epoch <= cards[k].epoch
      BY <3>1, CardNumbers
    <3> QED BY <3>1, <3>2, <3>3
  <2> QED BY <2>1, <2>2 DEF WalkSound
<1>6. CASE Continue
  <2>1. /\ UNCHANGED <<cards, looked>> /\ pc = "continue" /\ epoch' \in {epoch, epoch + 1}
        /\ pc' \in {"continue", "done"}
    BY <1>6 DEF Continue, chainVars
  <2>2. /\ pc # "loop" /\ cards' = cards /\ looked' \in {looked, looked + 1}
        /\ pc' = pc \/ (pc' = "done" /\ pc # "loop")
        /\ epoch' = epoch \/ (epoch' = epoch + 1 /\ pc # "loop")
    BY <2>1
  <2> QED BY <2>2, SameEpoch
<1> QED BY <1>1, <1>2, <1>3, <1>4, <1>5, <1>6 DEF Next

-----------------------------------------------------------------------------
(* The second invariant: the bundles.                                      *)

LEMMA CardsByTransaction ==
  ASSUME IInv
  PROVE  /\ ByTransaction(cards)
         /\ \A i, j \in 1 .. Len(cards) : i < j => cards[i].txid <= cards[j].txid
         /\ \A i, j \in 1 .. Len(cards) :
              cards[i].txid = cards[j].txid =>
                /\ cards[i].type = cards[j].type /\ cards[i].sender = cards[j].sender
                /\ cards[i].claim = cards[j].claim /\ cards[i].epoch = cards[j].epoch
<1>1. DOMAIN cards = 1 .. Len(cards) /\ \A i \in 1 .. Len(cards) : cards[i].txid \in Nat
  BY CardNumbers
<1>2. \A i, j \in 1 .. Len(cards) : i < j => cards[i].txid <= cards[j].txid
  <2> SUFFICES ASSUME NEW i \in 1 .. Len(cards), NEW j \in 1 .. Len(cards), i < j
               PROVE  cards[i].txid <= cards[j].txid
    OBVIOUS
  <2>1. Earlier(cards[i], cards[j])
    BY <1>1 DEF IInv, CardsSound
  <2> QED BY <1>1, <2>1 DEF Earlier
<1>3. \A i, j \in 1 .. Len(cards) :
        cards[i].txid = cards[j].txid =>
          /\ cards[i].type = cards[j].type /\ cards[i].sender = cards[j].sender
          /\ cards[i].claim = cards[j].claim /\ cards[i].epoch = cards[j].epoch
  BY <1>1 DEF IInv, CardsSound, OneTx
<1> QED BY <1>1, <1>2, <1>3 DEF ByTransaction

LEMMA CardTypes == IInv => OneType(cards)
BY CardsByTransaction DEF OneType

LEMMA GeneratorNext ==
  ASSUME IInv, GeneratorSound, looked < Len(cards), NextCard, cards' = cards
  PROVE  GeneratorSound'
<1>1. /\ looked \in Nat /\ Len(cards) \in Nat /\ ByTransaction(cards) /\ OneType(cards)
      /\ Remembers(cards, looked, last_processed_position)
  BY CardNumbers, CardsByTransaction, CardTypes DEF GeneratorSound
<1>2. Remembers(cards, looked + 1,
                ProcessedPosition(cards, looked + 1, last_processed_position))
  BY <1>1, RemembersNext
<1> QED BY <1>2 DEF NextCard, GeneratorSound

LEMMA GeneratorStep ==
  ASSUME IInv, GeneratorSound, [Next]_vars
  PROVE  GeneratorSound'
<1>1. CASE Read
  <2>1. PICK tx \in Txs, e \in LastEpoch .. MaxEpoch :
          cards' = cards \o CardsOf(tx, TxCount + 1, e)
    BY <1>1 DEF Read
  <2>2. looked' = looked /\ last_processed_position' = last_processed_position
        /\ looked = Len(cards)
    BY <1>1 DEF Read
  <2>3. /\ DOMAIN cards \subseteq DOMAIN cards'
        /\ \A i \in DOMAIN cards : cards'[i] = cards[i]
        /\ \A i \in DOMAIN cards' \ DOMAIN cards, j \in DOMAIN cards :
             cards'[i].txid # cards[j].txid
        /\ Len(cards') \in Nat /\ DOMAIN cards' = 1 .. Len(cards')
    <3>1. CardsSound
      BY DEF IInv
    <3> QED BY <2>1, <2>2, <3>1, ReadCards
  <2>4. Len(cards) \in Nat /\ DOMAIN cards = 1 .. Len(cards)
    BY CardNumbers
  <2>5. CASE looked # 0 /\ cards[looked].type = "CardIssue"
    <3>1. last_processed_position = looked /\ looked \in DOMAIN cards
      BY <2>2, <2>4, <2>5 DEF GeneratorSound, Remembers
    <3>2. cards'[looked] = cards[looked] /\ looked \in looked .. Len(cards')
      BY <2>3, <2>4, <3>1
    <3>3. looked < Len(cards') => cards'[looked + 1].txid # cards'[looked].txid
      <4> SUFFICES ASSUME looked < Len(cards')
                   PROVE  cards'[looked + 1].txid # cards'[looked].txid
        OBVIOUS
      <4>1. looked + 1 \in DOMAIN cards' \ DOMAIN cards
        BY <2>2, <2>3, <2>4
      <4> QED BY <2>3, <3>1, <3>2, <4>1
    <3> QED BY <2>2, <2>5, <3>1, <3>2, <3>3 DEF GeneratorSound, Remembers
  <2>6. CASE ~(looked # 0 /\ cards[looked].type = "CardIssue")
    <3>1. looked # 0 => cards'[looked] = cards[looked]
      BY <2>2, <2>3, <2>4
    <3> QED BY <2>2, <2>6, <3>1 DEF GeneratorSound, Remembers
  <2> QED BY <2>5, <2>6
<1>2. CASE Card
  <2>1. NextCard /\ looked < Len(cards) /\ cards' = cards
    BY <1>2 DEF Card, Looking
  <2> QED BY <2>1, GeneratorNext
<1>3. CASE TooEarly
  <2>1. NextCard /\ looked < Len(cards) /\ cards' = cards
    BY <1>3 DEF TooEarly, Looking
  <2> QED BY <2>1, GeneratorNext
<1>4. CASE Postprocess \/ Cardless \/ EnterEpoch \/ EndLoop \/ Continue \/ UNCHANGED vars
  <2>1. UNCHANGED chainVars
    BY <1>4 DEF Postprocess, Cardless, EnterEpoch, EndLoop, Continue, vars
  <2> QED BY <2>1 DEF chainVars, GeneratorSound, Remembers
<1> QED BY <1>1, <1>2, <1>3, <1>4 DEF Next

(* The generator finds the bundle of every transaction, and no other.      *)
LEMMA FoundBundles ==
  ASSUME IInv, GeneratorSound
  PROVE  BundlesFound
<1> SUFFICES ASSUME looked < Len(cards)
             PROVE  LET card == cards[looked + 1]
                        ofTx == {j \in DOMAIN cards : cards[j].txid = card.txid}
                    IN  Bundle = IF card.type = "CardIssue" /\ card.cardseq = 1
                                    /\ Cardinality(ofTx) > 1
                                 THEN Sum(ofTx, Amounts(cards)) ELSE NoBundle
  BY DEF BundlesFound
<1> DEFINE i == looked + 1
           ofTx == {j \in DOMAIN cards : cards[j].txid = cards[i].txid}
           end == LastOfBundle(cards, i)
<1>1. /\ looked \in Nat /\ Len(cards) \in Nat /\ i \in 1 .. Len(cards) /\ i \in Nat
      /\ looked # 0 => looked \in 1 .. Len(cards)
      /\ DOMAIN cards = 1 .. Len(cards)
  BY CardNumbers
<1>2. cards[i].cardseq \in Nat \ {0}
  BY <1>1 DEF IInv, CardsSound, IsCard
<1>3. end \in i .. Len(cards)
  BY <1>1, BundleEnds
<1>4. \A k \in i .. Len(cards) : cards[k].txid = cards[i].txid <=> k <= end
  BY <1>1, CardsByTransaction, BundleOfTransaction
<1>8. Bundle = IF /\ cards[i].type = "CardIssue"
                  /\ looked # 0 => cards[looked].txid # cards[i].txid
                  /\ end # i
               THEN BundleValue(cards, i) ELSE NoBundle
  BY <1>1, CardsByTransaction, CardTypes, BundleFound DEF Bundle, GeneratorSound
<1>5. CASE cards[i].type # "CardIssue"
  BY <1>5, <1>8
<1>6. CASE cards[i].type = "CardIssue" /\ cards[i].cardseq = 1
  <2>1. ASSUME NEW j \in 1 .. Len(cards), j < i
        PROVE  cards[j].txid # cards[i].txid
    <3>1. Earlier(cards[j], cards[i]) /\ cards[j].cardseq \in Nat \ {0}
      BY <1>1, <2>1 DEF IInv, CardsSound, IsCard
    <3> QED BY <1>6, <3>1, <1>1, <2>1, CardNumbers DEF Earlier
  <2>2. ofTx = i .. end
    <3>1. \A j \in ofTx : j \in i .. end
      BY <1>1, <1>3, <1>4, <2>1
    <3>2. \A j \in i .. end : j \in ofTx
      BY <1>1, <1>3, <1>4
    <3> QED BY <3>1, <3>2
  <2>3. Cardinality(ofTx) > 1 <=> end # i
    <3> HIDE DEF end, ofTx
    <3>1. i \in Int /\ end \in Int /\ i <= end
      BY <1>1, <1>3
    <3>2. Cardinality(i .. end) = end - i + 1
      BY <3>1, FS_Interval
    <3>3. Cardinality(ofTx) = end - i + 1
      BY <2>2, <3>2
    <3> HIDE DEF i
    <3> QED BY <3>1, <3>3
  <2>4. looked # 0 => cards[looked].txid # cards[i].txid
    BY <1>1, <2>1
  <2>5. Bundle = IF end # i THEN Sum(i .. end, Amounts(cards)) ELSE NoBundle
    BY <1>6, <1>8, <2>4 DEF BundleValue, Amounts
  <2> HIDE DEF end, ofTx
  <2>6. Bundle = IF Cardinality(ofTx) > 1 THEN Sum(ofTx, Amounts(cards)) ELSE NoBundle
    BY <2>2, <2>3, <2>5
  <2> QED BY <1>6, <2>6 DEF ofTx
<1>7. CASE cards[i].type = "CardIssue" /\ cards[i].cardseq # 1
  <2>1. cards[i].cardseq > 1
    BY <1>2, <1>7
  <2>2. i - 1 \in 1 .. Len(cards) /\ cards[i - 1].txid = cards[i].txid
    BY <1>1, <2>1 DEF IInv, CardsSound
  <2>3. looked # 0 /\ cards[looked].txid = cards[i].txid
    BY <1>1, <2>2
  <2> QED BY <1>7, <1>8, <2>3
<1> QED BY <1>5, <1>6, <1>7

-----------------------------------------------------------------------------
(* The second invariant: transfers, claims and their senders.              *)

LEMMA ClaimHasProposal ==
  ASSUME NEW c \in Claims
  PROVE  ProposalOfClaim(c) \in Proposals
BY ClaimsAssumption DEF ProposalOfClaim, Claims

(* The steps that check no card.                                           *)
LEMMA QuietStep ==
  ASSUME IInv, [Next]_vars, ~Card
  PROVE  /\ AllValid' = AllValid /\ SharesKept
         /\ valid_bundles' = valid_bundles /\ used_issuance_tuples' = used_issuance_tuples
         /\ Read \/ TooEarly \/ (cards' = cards /\ looked' = looked)
<1>1. CASE Read \/ TooEarly \/ UNCHANGED vars
  <2>1. /\ UNCHANGED <<chain, loopVars, cardVars, proposalVars, voterVars, pc>>
        /\ Read \/ TooEarly \/ (cards' = cards /\ looked' = looked)
    BY <1>1 DEF Read, TooEarly, vars, chainVars
  <2>2. SharesKept
    BY <2>1, EpochsKept DEF IInv, loopVars
  <2> QED BY <2>1, <2>2 DEF AllValid, cardVars
<1>2. CASE Postprocess
  <2>1. SharesKept
    BY <1>2, EpochsKept DEF IInv, Postprocess, chainVars
  <2>2. /\ valid_cards' = valid_cards \o valid_epoch_cards /\ valid_epoch_cards' = <<>>
        /\ pc = "loop" /\ pc' = "loop" /\ IsList(valid_cards) /\ IsList(valid_epoch_cards)
    BY <1>2 DEF Postprocess, EpochPostprocess, Looking, IInv, ValidSound
  <2>3. AllValid' = AllValid
    BY <2>2, ListConcat, ListConcatEmpty DEF AllValid
  <2> QED BY <1>2, <2>1, <2>3 DEF Postprocess, chainVars
<1>3. CASE Cardless \/ EnterEpoch \/ Continue
  <2>1. /\ EpochInit /\ UNCHANGED <<chainVars, cardVars>> /\ epoch' \in {epoch, epoch + 1}
        /\ pc' = pc \/ (pc # "loop" /\ pc' # "loop")
    BY <1>3 DEF Cardless, EnterEpoch, Continue
  <2>2. SharesKept
    BY <2>1, EpochInitSound DEF IInv, chainVars
  <2> QED BY <2>1, <2>2 DEF AllValid, cardVars, chainVars
<1>4. CASE EndLoop
  <2>1. SharesKept
    BY <1>4, EpochsKept DEF IInv, EndLoop, chainVars, loopVars
  <2>2. /\ IsList(valid_cards) /\ valid_epoch_cards' = valid_epoch_cards
        /\ pc = "loop" /\ pc' # "loop"
    BY <1>4 DEF EndLoop, IInv, ValidSound
  <2>3. valid_cards' = valid_cards \o valid_epoch_cards
    <3>1. CASE valid_epoch_cards # <<>>
      BY <1>4, <3>1 DEF EndLoop, EpochPostprocess
    <3>2. CASE valid_epoch_cards = <<>>
      BY <1>4, <2>2, <3>2, ListConcatEmpty DEF EndLoop
    <3> QED BY <3>1, <3>2
  <2>4. AllValid' = AllValid
    BY <2>2, <2>3 DEF AllValid
  <2> QED BY <1>4, <2>1, <2>4 DEF EndLoop, chainVars
<1> QED BY <1>1, <1>2, <1>3, <1>4 DEF Next

(* What every step keeps: shares, cards and valid cards.                   *)
LEMMA ListsGrow ==
  ASSUME IInv, [Next]_vars
  PROVE  /\ SharesKept
         /\ \A i \in 1 .. Len(cards) : i \in DOMAIN cards' /\ cards'[i] = cards[i]
         /\ \A j \in DOMAIN AllValid : j \in DOMAIN AllValid' /\ AllValid'[j] = AllValid[j]
<1>1. CASE Card
  <2>1. SharesKept
    BY <1>1, EpochsKept, CardAppends DEF IInv, loopVars
  <2>2. cards' = cards /\ DOMAIN cards = 1 .. Len(cards)
    BY <1>1, CardAppends
  <2>3. CASE Part \/ Accepted
    <3>1. AllValidGrows(TheCard)
      BY <1>1, <2>3, CardAppends
    <3>2. /\ Len(AllValid) \in Nat /\ DOMAIN AllValid = 1 .. Len(AllValid)
          /\ DOMAIN AllValid' = 1 .. (Len(AllValid) + 1)
          /\ \A j \in 1 .. Len(AllValid) : AllValid'[j] = AllValid[j]
      BY <3>1 DEF AllValidGrows
    <3>3. \A j \in DOMAIN AllValid : j \in DOMAIN AllValid' /\ AllValid'[j] = AllValid[j]
      BY <3>2
    <3> QED BY <2>1, <2>2, <3>3
  <2>4. CASE ~Part /\ ~Accepted
    <3>1. AllValid' = AllValid
      BY <1>1, <2>4, CardAppends
    <3> QED BY <2>1, <2>2, <3>1
  <2> QED BY <2>3, <2>4
<1>2. CASE Read
  <2>1. PICK tx \in Txs, e \in LastEpoch .. MaxEpoch :
          cards' = cards \o CardsOf(tx, TxCount + 1, e)
    BY <1>2 DEF Read
  <2>2. looked' = looked /\ CardsSound
    BY <1>2 DEF Read, IInv
  <2>3. DOMAIN cards \subseteq DOMAIN cards' /\ \A i \in DOMAIN cards : cards'[i] = cards[i]
    BY <2>1, <2>2, ReadCards
  <2>4. AllValid' = AllValid /\ SharesKept
    <3>0. ~(looked < Len(cards))
      BY <1>2, CardNumbers DEF Read
    <3>1. ~Card
      BY <3>0 DEF Card, Looking
    <3> QED BY <3>1, QuietStep
  <2> QED BY <2>3, <2>4, CardNumbers
<1>3. CASE ~Card /\ ~Read
  <2>1. AllValid' = AllValid /\ SharesKept /\ cards' = cards
    BY <1>3, QuietStep DEF TooEarly
  <2> QED BY <2>1, CardNumbers
<1> QED BY <1>1, <1>2, <1>3

(* A card that is skipped is from before the start.                        *)
LEMMA SkippedBeforeStart ==
  ASSUME IInv, WalkSound, TooEarly
  PROVE  ~(cards[looked + 1].epoch >= StartEpoch)
<1>1. looked + 1 \in looked + 1 .. Len(cards) /\ looked + 1 \in 1 .. Len(cards) /\ pc = "loop"
  BY CardNumbers DEF TooEarly, Looking
<1>2. cards[looked + 1].epoch < epoch
  BY DEF TooEarly, card_epoch
<1>3. epoch # StartEpoch => epoch <= cards[looked + 1].epoch
  BY <1>1 DEF WalkSound
<1>4. /\ cards[looked + 1].epoch \in Nat /\ epoch \in Nat /\ StartEpoch \in Nat
  BY <1>1, CardNumbers
<1> QED BY <1>2, <1>3, <1>4

LEMMA TransfersStep ==
  ASSUME IInv, WalkSound, TransfersSound, [Next]_vars
  PROVE  TransfersSound'
<1> SUFFICES ASSUME NEW i \in 1 .. looked', cards'[i].type # "CardIssue",
                    cards'[i].epoch >= StartEpoch
             PROVE  \E j \in DOMAIN AllValid' : AllValid'[j] = cards'[i]
  BY DEF TransfersSound
<1>1. looked \in Nat /\ looked \in 0 .. Len(cards) /\ Len(cards) \in Nat
  BY CardNumbers
<1>2. CASE i \in 1 .. looked
  <2>1. i \in 1 .. Len(cards)
    BY <1>1, <1>2
  <2>2. cards'[i] = cards[i]
    BY <2>1, ListsGrow
  <2>3. PICK j \in DOMAIN AllValid : AllValid[j] = cards[i]
    BY <1>2, <2>2 DEF TransfersSound
  <2> QED BY <2>2, <2>3, ListsGrow
<1>3. CASE i \notin 1 .. looked
  <2>1. Card \/ TooEarly
    <3>1. looked' # looked
      BY <1>3
    <3> QED BY <3>1, QuietStep DEF Read
  <2>2. i = looked + 1
    <3>1. looked' = looked + 1
      BY <2>1 DEF Card, TooEarly, NextCard
    <3> QED BY <1>1, <1>3, <3>1
  <2>3. cards' = cards
    BY <2>1 DEF Card, TooEarly
  <2>4. CASE Card
    <3>1. TheCard = cards'[i]
      BY <2>2, <2>3 DEF TheCard
    <3>2. Accepted
      BY <3>1 DEF Accepted
    <3>3. AllValidGrows(TheCard)
      BY <2>4, <3>2, CardAppends
    <3> QED BY <3>1, <3>3 DEF AllValidGrows
  <2>5. CASE TooEarly
    BY <2>2, <2>3, <2>5, SkippedBeforeStart
  <2> QED BY <2>1, <2>4, <2>5
<1> QED BY <1>2, <1>3

LEMMA UsedStep ==
  ASSUME IInv, WalkSound, UsedSound, [Next]_vars
  PROVE  UsedSound'
<1>1. ASSUME NEW s \in Addr, NEW c \in Claims, <<s, c>> \in used_issuance_tuples'
      PROVE  sharing'[ProposalOfClaim(c)] # {} /\ Entitled(s, c)
  <2>1. sharing[ProposalOfClaim(c)] # {} /\ Entitled(s, c)
    <3>1. CASE <<s, c>> \in used_issuance_tuples
      BY <3>1 DEF UsedSound
    <3>2. CASE <<s, c>> \notin used_issuance_tuples
      <4>1. Card
        BY <1>1, <3>2, QuietStep
      <4>2. Accepted /\ TheCard.type = "CardIssue" /\ <<s, c>> = <<TheCard.sender, TheCard.claim>>
        BY <1>1, <3>2, <4>1, CardAppends
      <4> QED BY <4>2 DEF Accepted, Accepts
    <3> QED BY <3>1, <3>2
  <2>2. sharing'[ProposalOfClaim(c)] = sharing[ProposalOfClaim(c)]
    BY <2>1, ClaimHasProposal, ListsGrow DEF SharesKept
  <2> QED BY <2>1, <2>2
<1>2. ASSUME NEW t \in valid_bundles', NEW i \in DOMAIN cards', cards'[i].txid = t
      PROVE  cards'[i].epoch >= StartEpoch
  <2>1. CASE t \in valid_bundles /\ Read
    <3>1. PICK tx \in Txs, e \in LastEpoch .. MaxEpoch :
            cards' = cards \o CardsOf(tx, TxCount + 1, e)
      BY <2>1 DEF Read
    <3>2. looked' = looked /\ CardsSound
      BY <2>1 DEF Read, IInv
    <3>3. /\ \A k \in DOMAIN cards : cards'[k] = cards[k]
          /\ \A k \in DOMAIN cards' \ DOMAIN cards, j \in DOMAIN cards :
               cards'[k].txid # cards[j].txid
      BY <3>1, <3>2, ReadCards
    <3>4. PICK j \in DOMAIN cards : cards[j].txid = t
      BY <2>1 DEF IInv, BundlesSound
    <3>5. i \in DOMAIN cards /\ cards'[i] = cards[i]
      BY <1>2, <3>3, <3>4
    <3> QED BY <1>2, <2>1, <3>5 DEF UsedSound
  <2>2. CASE t \in valid_bundles /\ ~Read
    <3>1. cards' = cards
      BY <2>2, QuietStep, CardAppends DEF TooEarly
    <3> QED BY <1>2, <2>2, <3>1 DEF UsedSound
  <2>3. CASE t \notin valid_bundles
    <3>1. Card
      BY <2>3, QuietStep
    <3>2. t = TheCard.txid /\ cards' = cards
      BY <2>3, <3>1, CardAppends
    <3>3. looked + 1 \in DOMAIN cards /\ TheCard.epoch = epoch
      BY <3>1, CardAppends
    <3>4. cards'[i].epoch = epoch
      BY <1>2, <3>2, <3>3 DEF IInv, CardsSound, OneTx, TheCard
    <3> QED BY <3>4 DEF WalkSound
  <2> QED BY <2>1, <2>2, <2>3
<1> QED BY <1>1, <1>2 DEF UsedSound, ProposalOfClaim, Entitled

LEMMA SendersStep ==
  ASSUME IInv, UsedSound, SendersSound, [Next]_vars
  PROVE  SendersSound'
<1> SUFFICES ASSUME NEW i \in DOMAIN AllValid', AllValid'[i].type = "CardIssue"
             PROVE  Entitled(AllValid'[i].sender, AllValid'[i].claim)
  BY DEF SendersSound, Issues, Entitled
<1>1. CASE i \in DOMAIN AllValid
  <2>1. AllValid'[i] = AllValid[i]
    BY <1>1, ListsGrow
  <2> QED BY <1>1, <2>1 DEF SendersSound, Issues
<1>2. CASE i \notin DOMAIN AllValid
  <2>1. Card /\ (Part \/ Accepted)
    BY <1>2, QuietStep, CardAppends
  <2>2. AllValidGrows(TheCard) /\ IsCard(TheCard)
    BY <2>1, CardAppends
  <2>3. AllValid'[i] = TheCard
    BY <1>2, <2>2 DEF AllValidGrows
  <2>4. CASE Accepted
    BY <2>3, <2>4 DEF Accepted, Accepts
  <2>5. CASE Part
    <3>1. <<TheCard.sender, TheCard.claim>> \in used_issuance_tuples
      BY <2>1, <2>5, CardAppends
    <3> QED BY <2>2, <2>3, <3>1 DEF UsedSound, IsCard
  <2> QED BY <2>1, <2>4, <2>5
<1> QED BY <1>1, <1>2

-----------------------------------------------------------------------------
(* The second invariant: what is issued for a claim. *)

(* A list of cards, as amounts. *)
LEMMA AmountsAreNumbers ==
  ASSUME NEW s, IsList(s), \A i \in DOMAIN s : s[i].amount \in Nat, NEW T \in SUBSET (DOMAIN s)
  PROVE  Numbers(T, Amounts(s)) /\ \A i \in T : Amounts(s)[i] = s[i].amount
<1>1. \A i \in T : Amounts(s)[i] = s[i].amount /\ Amounts(s)[i] \in Nat
  BY DEF Amounts
<1>2. IsFiniteSet(T)
  <2>1. DOMAIN s = 1 .. Len(s) /\ Len(s) \in Nat
    BY ListDomain
  <2>2. IsFiniteSet(1 .. Len(s))
    BY <2>1, FS_Interval
  <2> QED BY <2>1, <2>2, FS_Subset
<1> QED BY <1>1, <1>2 DEF Numbers

LEMMA ValidAmounts ==
  ASSUME IInv
  PROVE  IsList(AllValid) /\ \A i \in DOMAIN AllValid : AllValid[i].amount \in Nat
<1>1. IsList(AllValid)
  BY ListConcat DEF IInv, ValidSound, AllValid
<1>2. ASSUME NEW i \in DOMAIN AllValid
      PROVE  AllValid[i].amount \in Nat
  <2>1. PICK j \in 1 .. looked : AllValid[i] = cards[j]
    BY DEF IInv, ValidSound
  <2>2. j \in DOMAIN cards
    BY CardNumbers
  <2> QED BY <2>1, <2>2 DEF IInv, CardsSound, IsCard
<1> QED BY <1>1, <1>2

GivenTo(s, c) == {i \in Issues(AllValid) : AllValid[i].sender = s /\ AllValid[i].claim = c}

(* What a card adds to the valid issues of a sender for a claim. *)
IssuedBy(card, s, c) ==
  IF card.type = "CardIssue" /\ card.sender = s /\ card.claim = c THEN card.amount ELSE 0

LEMMA GivenGrows ==
  ASSUME IInv, Card, Part \/ Accepted, NEW s, NEW c
  PROVE  Issued(s, c)' = Issued(s, c) + IssuedBy(TheCard, s, c)
<1> DEFINE new == Len(AllValid) + 1
           f == Amounts(AllValid)
           g == Amounts(AllValid')
           G == GivenTo(s, c)
           H == {i \in Issues(AllValid') : AllValid'[i].sender = s /\ AllValid'[i].claim = c}
<1>1. /\ IsList(AllValid') /\ DOMAIN AllValid \subseteq DOMAIN AllValid'
      /\ \A i \in DOMAIN AllValid : AllValid'[i] = AllValid[i]
      /\ new \in DOMAIN AllValid' /\ new \notin DOMAIN AllValid /\ AllValid'[new] = TheCard
      /\ \A i \in DOMAIN AllValid' : i \in DOMAIN AllValid \/ i = new
  <2>1. AllValidGrows(TheCard)
    BY CardAppends
  <2>2. /\ IsList(AllValid') /\ Len(AllValid) \in Nat /\ DOMAIN AllValid = 1 .. Len(AllValid)
        /\ DOMAIN AllValid' = 1 .. new
        /\ \A i \in 1 .. Len(AllValid) : AllValid'[i] = AllValid[i]
        /\ AllValid'[new] = TheCard
    BY <2>1 DEF AllValidGrows
  <2>3. DOMAIN AllValid \subseteq DOMAIN AllValid' /\ new \in DOMAIN AllValid'
    BY <2>2
  <2>4. new \notin DOMAIN AllValid
    BY <2>2
  <2>5. \A i \in DOMAIN AllValid' : i \in DOMAIN AllValid \/ i = new
    BY <2>2
  <2> HIDE DEF new
  <2> QED BY <2>2, <2>3, <2>4, <2>5
<1>2. Issued(s, c) = Sum(G, f) /\ Issued(s, c)' = Sum(H, g)
  BY DEF Issued, GivenTo
<1>3. /\ IsList(AllValid) /\ \A i \in DOMAIN AllValid : AllValid[i].amount \in Nat
      /\ TheCard.amount \in Nat
  BY ValidAmounts, CardAppends DEF IsCard
<1> HIDE DEF new
<1>4. \A i \in DOMAIN AllValid' : AllValid'[i].amount \in Nat
  BY <1>1, <1>3
<1>5. G \in SUBSET (DOMAIN AllValid) /\ H \in SUBSET (DOMAIN AllValid')
  BY DEF GivenTo, Issues
<1>6. Numbers(G, f) /\ \A i \in G : f[i] = AllValid[i].amount
  BY <1>3, <1>5, AmountsAreNumbers
<1>7. Numbers(H, g) /\ \A i \in H : g[i] = AllValid'[i].amount
  BY <1>1, <1>4, <1>5, AmountsAreNumbers
<1>8. G \subseteq H /\ \A i \in H : i \in G \/ i = new
  BY <1>1 DEF GivenTo, Issues
<1>9. new \in H <=> (TheCard.type = "CardIssue" /\ TheCard.sender = s /\ TheCard.claim = c)
  BY <1>1 DEF Issues
<1>10. new \notin G
  BY <1>1, <1>5
<1> HIDE DEF f, g, G, H
<1>11. \A i \in G : g[i] = f[i]
  BY <1>1, <1>5, <1>6, <1>7, <1>8
<1>12. Sum(G, f) = Sum(G, g) /\ Sum(G, f) \in Nat
  BY <1>6, <1>11, SumAgree, SumType
<1>13. CASE new \in H
  <2>1. H = G \cup {new} /\ g[new] = TheCard.amount /\ g[new] \in Nat
    BY <1>1, <1>3, <1>7, <1>8, <1>13
  <2>2. Numbers(G, g)
    BY <1>7, <1>8, SumSubset
  <2>3. Sum(G \cup {new}, g) = Sum(G, g) + g[new]
    BY <1>10, <2>1, <2>2, SumAdd
  <2> QED BY <1>2, <1>9, <1>12, <1>13, <2>1, <2>3 DEF IssuedBy
<1>14. CASE new \notin H
  <2>1. H = G
    BY <1>8, <1>14
  <2> QED BY <1>2, <1>9, <1>12, <1>14, <2>1 DEF IssuedBy
<1> QED BY <1>13, <1>14

LEMMA ComingInCards ==
  ASSUME IInv, NEW s, NEW c
  PROVE  /\ Coming(s, c) \in SUBSET (DOMAIN cards) /\ Numbers(Coming(s, c), Amounts(cards))
         /\ Issued(s, c) \in Nat /\ Sum(Coming(s, c), Amounts(cards)) \in Nat
<1>1. IsList(cards) /\ \A i \in DOMAIN cards : cards[i].amount \in Nat
  BY DEF IInv, CardsSound, IsCard
<1>2. \A k \in looked + 1 .. Len(cards) : k \in DOMAIN cards
  BY CardNumbers
<1>3. Coming(s, c) \in SUBSET (DOMAIN cards)
  BY <1>2 DEF Coming
<1>4. Numbers(Coming(s, c), Amounts(cards))
  BY <1>1, <1>3, AmountsAreNumbers
<1>5. GivenTo(s, c) \in SUBSET (DOMAIN AllValid)
  BY DEF GivenTo, Issues
<1>6. Numbers(GivenTo(s, c), Amounts(AllValid))
  BY <1>5, ValidAmounts, AmountsAreNumbers
<1>7. Issued(s, c) = Sum(GivenTo(s, c), Amounts(AllValid))
  BY DEF Issued, GivenTo
<1> QED BY <1>3, <1>4, <1>6, <1>7, SumType

(* The card that is looked at does not come any more. *)
LEMMA ComingShrinks ==
  ASSUME IInv, looked < Len(cards), looked' = looked + 1, cards' = cards,
         valid_bundles' = valid_bundles, NEW s, NEW c
  PROVE  Sum(Coming(s, c), Amounts(cards)) =
           Sum(Coming(s, c), Amounts(cards))'
           + (IF TheCard.txid \in valid_bundles THEN IssuedBy(TheCard, s, c) ELSE 0)
<1> DEFINE i == looked + 1
<1>1. /\ i \in 1 .. Len(cards) /\ DOMAIN cards = 1 .. Len(cards) /\ i \in looked + 1 .. Len(cards)
      /\ \A k : k \in i + 1 .. Len(cards) <=> (k \in looked + 1 .. Len(cards) /\ k # i)
  BY CardNumbers
<1>2. Coming(s, c)' = Coming(s, c) \ {i}
  BY <1>1 DEF Coming
<1>3. i \in Coming(s, c) <=>
        /\ TheCard.type = "CardIssue" /\ TheCard.txid \in valid_bundles
        /\ TheCard.sender = s /\ TheCard.claim = c
  BY <1>1 DEF Coming, TheCard
<1>4. Numbers(Coming(s, c), Amounts(cards)) /\ Sum(Coming(s, c), Amounts(cards)) \in Nat
  BY ComingInCards
<1>5. Sum(Coming(s, c), Amounts(cards))' = Sum(Coming(s, c) \ {i}, Amounts(cards))
  BY <1>2
<1>6. CASE i \in Coming(s, c)
  <2>1. Amounts(cards)[i] = TheCard.amount
    BY <1>1 DEF Amounts, TheCard
  <2> DEFINE S == Coming(s, c)
             f == Amounts(cards)
  <2> HIDE DEF S, f, i
  <2>2. i \in S /\ Numbers(S, f) /\ f[i] = TheCard.amount
    BY <1>4, <1>6, <2>1 DEF S, f
  <2>3. Sum(S, f) = Sum(S \ {i}, f) + TheCard.amount
    <3>1. Sum(S, f) = Sum(S \ {i}, f) + f[i]
      BY <2>2, SumRemove
    <3> QED BY <2>2, <3>1
  <2>4. IssuedBy(TheCard, s, c) = TheCard.amount /\ TheCard.txid \in valid_bundles
    BY <1>3, <1>6 DEF IssuedBy
  <2> QED BY <1>5, <2>3, <2>4 DEF S, f
<1>7. CASE i \notin Coming(s, c)
  <2>1. Coming(s, c) \ {i} = Coming(s, c)
    BY <1>7
  <2>2. (IF TheCard.txid \in valid_bundles THEN IssuedBy(TheCard, s, c) ELSE 0) = 0
    BY <1>3, <1>7 DEF IssuedBy
  <2>3. Sum(Coming(s, c), Amounts(cards))' = Sum(Coming(s, c), Amounts(cards))
    BY <1>5, <2>1
  <2> HIDE DEF i
  <2> QED BY <1>4, <2>2, <2>3
<1> QED BY <1>6, <1>7

(* Rewards that were given stay what they are.                             *)
LEMMA DeservedKept ==
  ASSUME IInv, UsedSound, [Next]_vars, NEW s \in Addr, NEW c \in Claims,
         <<s, c>> \in used_issuance_tuples' <=> <<s, c>> \in used_issuance_tuples
  PROVE  Deserved(s, c)' = Deserved(s, c)
<1>1. <<s, c>> \in used_issuance_tuples =>
        sharing'[ProposalOfClaim(c)] = sharing[ProposalOfClaim(c)]
  BY ClaimHasProposal, ListsGrow DEF UsedSound, SharesKept
<1>2. <<s, c>> \in used_issuance_tuples => Reward(c)' = Reward(c)
  BY <1>1 DEF Reward, ProposalOfClaim
<1> QED BY <1>2 DEF Deserved

(* Cards that are read belong to no valid bundle, and a card that is       *)
(* skipped to none either.                                                 *)
LEMMA AddsUpQuiet ==
  ASSUME IInv, WalkSound, UsedSound, AddsUp, [Next]_vars, ~Card
  PROVE  AddsUp'
<1> SUFFICES ASSUME NEW s \in Addr, NEW c \in Claims
             PROVE  InAll(s, c)' = Deserved(s, c)'
  BY DEF AddsUp
<1>1. /\ AllValid' = AllValid /\ valid_bundles' = valid_bundles
      /\ used_issuance_tuples' = used_issuance_tuples
      /\ Read \/ TooEarly \/ (cards' = cards /\ looked' = looked)
  BY QuietStep
<1>2. Deserved(s, c)' = Deserved(s, c)
  BY <1>1, DeservedKept
<1>3. Issued(s, c)' = Issued(s, c)
  BY <1>1 DEF Issued
<1>4. Sum(Coming(s, c), Amounts(cards))' = Sum(Coming(s, c), Amounts(cards))
  <2>1. CASE cards' = cards /\ looked' = looked
    BY <1>1, <2>1 DEF Coming
  <2>2. CASE TooEarly
    <3>1. /\ looked < Len(cards) /\ looked' = looked + 1 /\ cards' = cards
      BY <2>2 DEF TooEarly, Looking, NextCard
    <3>2. TheCard.txid \notin valid_bundles
      <4>1. looked + 1 \in DOMAIN cards
        BY <3>1, CardNumbers
      <4> QED BY <2>2, <4>1, SkippedBeforeStart DEF UsedSound, TheCard
    <3>3. Sum(Coming(s, c), Amounts(cards)) = Sum(Coming(s, c), Amounts(cards))' + 0
      BY <1>1, <3>1, <3>2, ComingShrinks
    <3>4. Coming(s, c)' \subseteq Coming(s, c)
      BY <1>1, <3>1, CardNumbers DEF Coming
    <3>5. Sum(Coming(s, c)', Amounts(cards)) \in Nat
      BY <3>4, ComingInCards, SumSubset, SumType
    <3> QED BY <3>1, <3>3, <3>5
  <2>3. CASE Read
    <3>1. PICK tx \in Txs, e \in LastEpoch .. MaxEpoch :
            cards' = cards \o CardsOf(tx, TxCount + 1, e)
      BY <2>3 DEF Read
    <3>2. looked' = looked /\ looked = Len(cards) /\ CardsSound
      BY <2>3 DEF Read, IInv
    <3>3. /\ \A k \in DOMAIN cards' \ DOMAIN cards, j \in DOMAIN cards :
               cards'[k].txid # cards[j].txid
          /\ Len(cards') \in Nat /\ DOMAIN cards' = 1 .. Len(cards')
      BY <3>1, <3>2, ReadCards
    <3>4. Coming(s, c) = {}
      BY <3>2, CardNumbers DEF Coming
    <3>5. ASSUME NEW k \in looked + 1 .. Len(cards')
          PROVE  cards'[k].txid \notin valid_bundles
      <4>1. k \in DOMAIN cards' \ DOMAIN cards
        BY <3>2, <3>3, CardNumbers
      <4> QED BY <3>3, <4>1 DEF IInv, BundlesSound
    <3>6. Coming(s, c)' = {}
      BY <1>1, <3>2, <3>5 DEF Coming
    <3> QED BY <3>4, <3>6, SumEmpty
  <2> QED BY <1>1, <2>1, <2>2, <2>3
<1> QED BY <1>2, <1>3, <1>4 DEF AddsUp, InAll

(* A card that makes no new claim changes no total.                        *)
LEMMA AddsUpOther ==
  ASSUME IInv, UsedSound, AddsUp, [Next]_vars, Card,
         ~(Accepted /\ TheCard.type = "CardIssue")
  PROVE  AddsUp'
<1> SUFFICES ASSUME NEW s \in Addr, NEW c \in Claims
             PROVE  InAll(s, c)' = Deserved(s, c)'
  BY DEF AddsUp
<1>1. Accepted => Bundle = NoBundle
  BY DEF Accepted, Bundle, BundleAmount, BundleAt, TheCard
<1>2. /\ valid_bundles' = valid_bundles /\ used_issuance_tuples' = used_issuance_tuples
      /\ looked < Len(cards) /\ looked' = looked + 1 /\ cards' = cards
      /\ TheCard.amount \in Nat
  BY <1>1, CardAppends DEF IsCard
<1>3. Deserved(s, c)' = Deserved(s, c)
  BY <1>2, DeservedKept
<1> DEFINE I == Issued(s, c)
           C == Sum(Coming(s, c), Amounts(cards))
           b == IssuedBy(TheCard, s, c)
<1>4. C = C' + (IF TheCard.txid \in valid_bundles THEN b ELSE 0)
  BY <1>2, ComingShrinks
<1>5. I \in Nat /\ C \in Nat /\ b \in Nat
  BY <1>2, ComingInCards DEF IssuedBy
<1>6. C' \in Nat
  <2>1. Coming(s, c)' \subseteq Coming(s, c)
    BY <1>2, CardNumbers DEF Coming
  <2>2. Sum(Coming(s, c)', Amounts(cards)) \in Nat
    BY <2>1, ComingInCards, SumSubset, SumType
  <2> QED BY <1>2, <2>2
<1>7. I' = I + (IF Part \/ Accepted THEN b ELSE 0)
  <2>1. CASE Part \/ Accepted
    BY <2>1, GivenGrows
  <2>2. CASE ~Part /\ ~Accepted
    <3>1. AllValid' = AllValid
      BY <2>2, CardAppends
    <3>2. I' = I
      BY <3>1 DEF Issued
    <3> QED BY <1>5, <2>2, <3>2
  <2> QED BY <2>1, <2>2
<1>8. b = 0 \/ ((Part \/ Accepted) <=> TheCard.txid \in valid_bundles)
  BY DEF Part, IssuedBy
<1>9. I' + C' = I + C
  <2> HIDE DEF I, C, b
  <2> QED BY <1>4, <1>5, <1>6, <1>7, <1>8
<1> QED BY <1>3, <1>9 DEF AddsUp, InAll

(* A claim found valid has not been made before; what is still to come of  *)
(* it are the other cards of its bundle, or nothing.                       *)
LEMMA ComingAfterClaim ==
  ASSUME IInv, AddsUp, [Next]_vars, Card, Accepted, TheCard.type = "CardIssue",
         NEW s \in Addr, NEW c \in Claims, s = TheCard.sender, c = TheCard.claim
  PROVE  /\ Issued(s, c) = 0
         /\ Coming(s, c)' = IF Bundle = NoBundle THEN {}
                            ELSE looked + 2 .. LastOfBundle(cards, looked + 1)
<1> DEFINE i == looked + 1
           end == LastOfBundle(cards, i)
<1>1. /\ looked \in Nat /\ i \in 1 .. Len(cards) /\ DOMAIN cards = 1 .. Len(cards)
      /\ Len(cards) \in Nat /\ looked' = i /\ cards' = cards
      /\ valid_bundles' = IF Bundle # NoBundle THEN valid_bundles \cup {TheCard.txid}
                          ELSE valid_bundles
      /\ TheCard = cards[i]
  BY CardAppends DEF TheCard
<1>2. <<s, c>> \notin used_issuance_tuples
  BY DEF Accepted, Accepts
<1>3. Issued(s, c) = 0
  <2>1. Issued(s, c) + Sum(Coming(s, c), Amounts(cards)) = 0
    BY <1>2 DEF AddsUp, InAll, Deserved
  <2> QED BY <2>1, ComingInCards
<1>4. \A k \in i + 1 .. Len(cards) : k \in 1 .. Len(cards) /\ k \in i .. Len(cards)
  BY <1>1
<1>5. ASSUME NEW k \in i + 1 .. Len(cards)
      PROVE  ~(/\ cards[k].type = "CardIssue" /\ cards[k].txid \in valid_bundles
               /\ cards[k].sender = s /\ cards[k].claim = c)
  BY <1>1, <1>2, <1>4 DEF IInv, BundlesSound
<1>6. Coming(s, c)' =
        {k \in i + 1 .. Len(cards) :
           /\ cards[k].type = "CardIssue" /\ cards[k].txid \in valid_bundles'
           /\ cards[k].sender = s /\ cards[k].claim = c}
  BY <1>1 DEF Coming
<1>7. CASE Bundle = NoBundle
  BY <1>1, <1>3, <1>5, <1>6, <1>7
<1>8. CASE Bundle # NoBundle
  <2>1. end \in i .. Len(cards)
    BY <1>1, BundleEnds
  <2>2. \A k \in i + 1 .. Len(cards) : cards[k].txid = TheCard.txid <=> k <= end
    BY <1>1, <1>4, CardsByTransaction, BundleOfTransaction
  <2> HIDE DEF end
  <2>3. ASSUME NEW k \in i + 1 .. Len(cards)
        PROVE  (/\ cards[k].type = "CardIssue" /\ cards[k].txid \in valid_bundles'
                /\ cards[k].sender = s /\ cards[k].claim = c) <=> k <= end
    <3>1. CASE cards[k].txid = TheCard.txid
      <4>1. /\ cards[k].type = "CardIssue" /\ cards[k].sender = s /\ cards[k].claim = c
        BY <1>1, <1>4, <3>1, CardsByTransaction
      <4> QED BY <1>1, <1>8, <2>2, <3>1, <4>1
    <3>2. CASE cards[k].txid # TheCard.txid
      BY <1>1, <1>5, <1>8, <2>2, <3>2
    <3> QED BY <3>1, <3>2
  <2>4. Coming(s, c)' = {k \in i + 1 .. Len(cards) : k <= end}
    BY <1>6, <2>3
  <2>5. {k \in i + 1 .. Len(cards) : k <= end} = looked + 2 .. end
    BY <1>1, <2>1
  <2> QED BY <1>3, <1>8, <2>4, <2>5 DEF end
<1> QED BY <1>7, <1>8

(* A valid claim, with the cards that follow it, issues the reward.        *)
LEMMA ClaimIssues ==
  ASSUME IInv, AddsUp, [Next]_vars, Card, Accepted, TheCard.type = "CardIssue",
         NEW s \in Addr, NEW c \in Claims, s = TheCard.sender, c = TheCard.claim
  PROVE  InAll(s, c)' = Reward(c)
<1> DEFINE i == looked + 1
           end == LastOfBundle(cards, i)
           f == Amounts(cards)
<1>1. /\ looked \in Nat /\ i \in 1 .. Len(cards) /\ DOMAIN cards = 1 .. Len(cards)
      /\ Len(cards) \in Nat /\ cards' = cards /\ TheCard = cards[i] /\ TheCard.amount \in Nat
  BY CardAppends DEF TheCard, IsCard
<1>2. Checked = Reward(c)
  BY DEF Accepted, Accepts
<1>3. Issued(s, c)' = TheCard.amount
  <2>1. Issued(s, c) = 0 /\ IssuedBy(TheCard, s, c) = TheCard.amount
    BY ComingAfterClaim DEF IssuedBy
  <2> QED BY <1>1, <2>1, GivenGrows
<1>4. InAll(s, c)' = TheCard.amount + Sum(Coming(s, c)', f)
  BY <1>1, <1>3 DEF InAll
<1>5. f[i] = TheCard.amount
  BY <1>1 DEF Amounts
<1>6. CASE Bundle = NoBundle
  <2>1. Sum(Coming(s, c)', f) = 0
    BY <1>6, ComingAfterClaim, SumEmpty
  <2>2. Checked = TheCard.amount
    BY <1>6 DEF Checked
  <2> HIDE DEF f
  <2> QED BY <1>1, <1>2, <1>4, <2>1, <2>2
<1>7. CASE Bundle # NoBundle
  <2>1. Coming(s, c)' = looked + 2 .. end
    BY <1>7, ComingAfterClaim
  <2>2. end \in i .. Len(cards)
    BY <1>1, BundleEnds
  <2>3. Checked = Sum(i .. end, f)
    BY <1>7 DEF Checked, Bundle, BundleAmount, BundleValue, Amounts
  <2>4. IsList(cards) /\ \A k \in DOMAIN cards : cards[k].amount \in Nat
    BY DEF IInv, CardsSound, IsCard
  <2> HIDE DEF end
  <2> DEFINE rest == looked + 2 .. end
  <2>5. i .. end = rest \cup {i} /\ i \notin rest /\ rest \in SUBSET (DOMAIN cards)
    BY <1>1, <2>2
  <2>6. Numbers(rest, f)
    BY <2>4, <2>5, AmountsAreNumbers
  <2>7. f[i] \in Nat
    BY <1>1, <1>5
  <2>8. Coming(s, c)' = rest
    BY <2>1
  <2> HIDE DEF f, i, rest
  <2>9. Sum(rest \cup {i}, f) = Sum(rest, f) + f[i]
    BY <2>5, <2>6, <2>7, SumAdd, ZenonT(40)
  <2>10. Sum(rest, f) \in Nat
    BY <2>6, SumType
  <2>11. Reward(c) = Sum(rest, f) + f[i]
    BY <1>2, <2>3, <2>5, <2>9
  <2>12. InAll(s, c)' = f[i] + Sum(rest, f)
    BY <1>4, <1>5, <2>8
  <2> QED BY <2>7, <2>10, <2>11, <2>12
<1> QED BY <1>6, <1>7

(* The totals of the other claims stay as they are.                        *)
LEMMA OtherClaims ==
  ASSUME IInv, [Next]_vars, Card, Accepted, TheCard.type = "CardIssue",
         NEW s \in Addr, NEW c \in Claims, ~(s = TheCard.sender /\ c = TheCard.claim)
  PROVE  InAll(s, c)' = InAll(s, c)
<1> DEFINE i == looked + 1
<1>1. /\ looked \in Nat /\ i \in 1 .. Len(cards) /\ DOMAIN cards = 1 .. Len(cards)
      /\ Len(cards) \in Nat /\ looked' = i /\ cards' = cards
      /\ valid_bundles' = IF Bundle # NoBundle THEN valid_bundles \cup {TheCard.txid}
                          ELSE valid_bundles
      /\ TheCard = cards[i]
  BY CardAppends DEF TheCard
<1>2. Issued(s, c)' = Issued(s, c)
  <2>1. IssuedBy(TheCard, s, c) = 0
    BY DEF IssuedBy
  <2> QED BY <2>1, GivenGrows, ComingInCards
<1>3. Coming(s, c)' = Coming(s, c)
  <2>1. ASSUME NEW k \in 1 .. Len(cards), cards[k].sender = s, cards[k].claim = c
        PROVE  cards[k].txid # TheCard.txid
    BY <1>1, <2>1, CardsByTransaction
  <2>2. \A k : k \in looked + 1 .. Len(cards) <=> (k = i \/ k \in i + 1 .. Len(cards))
    BY <1>1
  <2>3. \A k \in i + 1 .. Len(cards) : k \in 1 .. Len(cards)
    BY <1>1
  <2>4. i \notin Coming(s, c)
    BY <1>1 DEF Coming
  <2> QED BY <1>1, <2>1, <2>2, <2>3, <2>4 DEF Coming
<1> QED BY <1>1, <1>2, <1>3 DEF InAll

LEMMA AddsUpStep ==
  ASSUME IInv, WalkSound, UsedSound, AddsUp, [Next]_vars
  PROVE  AddsUp'
<1>1. CASE Card /\ Accepted /\ TheCard.type = "CardIssue"
  <2>1. used_issuance_tuples' = used_issuance_tuples \cup {<<TheCard.sender, TheCard.claim>>}
    BY <1>1, CardAppends
  <2>2. ASSUME NEW s \in Addr, NEW c \in Claims
        PROVE  InAll(s, c)' = Deserved(s, c)'
    <3>1. CASE s = TheCard.sender /\ c = TheCard.claim
      <4>1. sharing'[ProposalOfClaim(c)] = sharing[ProposalOfClaim(c)]
        BY <1>1, <3>1, ClaimHasProposal, ListsGrow DEF SharesKept, Accepted, Accepts
      <4>2. Reward(c)' = Reward(c)
        BY <4>1 DEF Reward, ProposalOfClaim
      <4>3. Deserved(s, c)' = Reward(c)
        BY <2>1, <3>1, <4>2 DEF Deserved
      <4> QED BY <1>1, <3>1, <4>3, ClaimIssues
    <3>2. CASE ~(s = TheCard.sender /\ c = TheCard.claim)
      <4>1. <<s, c>> \in used_issuance_tuples' <=> <<s, c>> \in used_issuance_tuples
        BY <2>1, <3>2
      <4>2. Deserved(s, c)' = Deserved(s, c)
        BY <4>1, DeservedKept
      <4>3. InAll(s, c)' = InAll(s, c)
        BY <1>1, <3>2, OtherClaims
      <4> QED BY <4>2, <4>3 DEF AddsUp
    <3> QED BY <3>1, <3>2
  <2> QED BY <2>2 DEF AddsUp
<1>2. CASE Card /\ ~(Accepted /\ TheCard.type = "CardIssue")
  BY <1>2, AddsUpOther
<1>3. CASE ~Card
  BY <1>3, AddsUpQuiet
<1> QED BY <1>1, <1>2, <1>3

-----------------------------------------------------------------------------
LEMMA InitSecond == Init => Inv2
<1> SUFFICES ASSUME Init PROVE Inv2
  OBVIOUS
<1>1. /\ cards = <<>> /\ looked = 0 /\ last_processed_position = 1 /\ epoch = StartEpoch
      /\ pc = "loop" /\ valid_bundles = {} /\ used_issuance_tuples = {}
      /\ valid_cards = <<>> /\ valid_epoch_cards = <<>>
  BY DEF Init
<1>2. AllValid = <<>>
  BY <1>1, ListConcatEmpty, ListEmpty DEF AllValid
<1>3. WalkSound /\ GeneratorSound /\ TransfersSound /\ UsedSound
  BY <1>1, BoundsAssumption DEF WalkSound, GeneratorSound, Remembers, TransfersSound, UsedSound
<1>4. Issues(AllValid) = {}
  BY <1>2 DEF Issues
<1>5. SendersSound
  BY <1>4 DEF SendersSound
<1>6. ASSUME NEW s \in Addr, NEW c \in Claims
      PROVE  InAll(s, c) = Deserved(s, c)
  <2>1. Issued(s, c) = 0
    BY <1>4, SumEmpty DEF Issued
  <2>2. Coming(s, c) = {}
    BY <1>1 DEF Coming
  <2>3. Sum(Coming(s, c), Amounts(cards)) = 0
    BY <2>2, SumEmpty
  <2>4. Deserved(s, c) = 0
    BY <1>1 DEF Deserved
  <2> QED BY <2>1, <2>3, <2>4 DEF InAll
<1> QED BY <1>3, <1>5, <1>6 DEF Inv2, AddsUp

(* Neither of the two invariants would do without the other: the loop's    *)
(* epoch, the bundles and the claims are kept in step.                     *)
LEMMA AlwaysBoth == Spec => [](IInv /\ Inv2)
<1>1. Init => IInv /\ Inv2
  BY InitSound, InitSecond
<1>2. IInv /\ Inv2 /\ [Next]_vars => (IInv /\ Inv2)'
  <2> SUFFICES ASSUME IInv, Inv2, [Next]_vars PROVE IInv' /\ Inv2'
    OBVIOUS
  <2>1. IInv'
    BY StepSound
  <2>2. WalkSound' /\ GeneratorSound' /\ TransfersSound'
    BY WalkStep, GeneratorStep, TransfersStep DEF Inv2
  <2>3. UsedSound' /\ AddsUp' /\ SendersSound'
    BY UsedStep, AddsUpStep, SendersStep DEF Inv2
  <2> QED BY <2>1, <2>2, <2>3 DEF Inv2
<1> QED BY <1>1, <1>2, PTL DEF Spec

(* A claim that dt_parser finds valid, in whatever order, bundle or epoch  *)
(* it is made, is for a proposal that had ended by then.                   *)
THEOREM ClaimsWait == Spec => []NotBeforeTheEnd
<1>1. IInv => NotBeforeTheEnd
  <2> SUFFICES ASSUME IInv, NEW i \in Issues(AllValid)
               PROVE  LET p == ProposalOfClaim(AllValid[i].claim)
                      IN  /\ p \in valid_proposals
                          /\ end_epoch[p] <= AllValid[i].epoch /\ end_epoch[p] < EndEpoch
    BY DEF NotBeforeTheEnd
  <2>1. i \in DOMAIN AllValid /\ AllValid[i].type = "CardIssue"
    BY DEF Issues
  <2>2. Due(AllValid[i])
    BY <2>1 DEF IInv, ValidSound
  <2> QED BY <2>1, <2>2 DEF Due, IInv, EpochsSound
<1> QED BY <1>1, AlwaysSound, PTL

(* The list that dt_parser returns has the valid cards in the order of the *)
(* chain, none of them twice, although a card of a bundle has two places   *)
(* where it may be appended.                                               *)
THEOREM ValidCardsInOrder == Spec => []InChainOrder
<1>1. IInv => InChainOrder
  BY DEF IInv
<1> QED BY <1>1, AlwaysSound, PTL

(* process_cards_by_bundle finds the bundle of every issue and no other,   *)
(* although its position in the list is all it remembers.                  *)
THEOREM EveryBundleFound == Spec => []BundlesFound
<1>1. IInv /\ Inv2 => BundlesFound
  BY FoundBundles DEF Inv2
<1> QED BY <1>1, AlwaysBoth, PTL

(* dt_parser loses no transfer or burn of the epochs it processes: what it *)
(* skips is from before the start, and what it leaves over from after the  *)
(* end epoch.                                                              *)
THEOREM NoTransferLost == Spec => []TransfersKept
<1>1. IInv /\ Inv2 => TransfersKept
  <2> SUFFICES ASSUME IInv, Inv2, pc = "done", NEW i \in DOMAIN cards,
                      cards[i].type # "CardIssue", cards[i].epoch \in StartEpoch .. EndEpoch
               PROVE  \E j \in DOMAIN valid_cards : valid_cards[j] = cards[i]
    BY DEF TransfersKept
  <2>1. AllValid = valid_cards
    BY DEF AllValid
  <2>2. i \in 1 .. looked \/ i \in looked + 1 .. Len(cards)
    BY CardNumbers
  <2>3. ASSUME i \in looked + 1 .. Len(cards)
        PROVE  FALSE
    <3>1. cards[i].epoch > EndEpoch
      BY <2>3 DEF Inv2, WalkSound
    <3> QED BY <3>1, CardNumbers
  <2>4. cards[i].epoch >= StartEpoch
    BY CardNumbers
  <2> QED BY <2>1, <2>2, <2>3, <2>4 DEF Inv2, TransfersSound
<1> QED BY <1>1, AlwaysBoth, PTL

(* A sender gets for a claim what the claim is worth or nothing, however   *)
(* many issues and bundles of issues it sends.                             *)
THEOREM ClaimsPaidOnce == Spec => []RewardedOnce
<1>1. IInv /\ Inv2 => RewardedOnce
  <2> SUFFICES ASSUME IInv, Inv2, looked = Len(cards), NEW s \in Addr, NEW c \in Claims
               PROVE  Issued(s, c) = Deserved(s, c)
    BY DEF RewardedOnce, Deserved
  <2>1. Coming(s, c) = {}
    BY CardNumbers DEF Coming
  <2>2. Sum(Coming(s, c), Amounts(cards)) = 0
    BY <2>1, SumEmpty
  <2>3. Issued(s, c) \in Nat /\ InAll(s, c) = Deserved(s, c)
    BY ComingInCards DEF Inv2, AddsUp
  <2> QED BY <2>2, <2>3 DEF InAll
<1> QED BY <1>1, AlwaysBoth, PTL

-----------------------------------------------------------------------------
(* The rewards *)

LEMMA RewardType ==
  ASSUME NEW c \in Claims, NEW S \in SUBSET Proposals
  PROVE  RewardOf[<<c, S>>] \in Nat
BY ClaimsAssumption

-----------------------------------------------------------------------------
(* The ledger of claims *)

(* A claim's worth, once known, is kept by every step. *)
LEMMA WorthKept ==
  ASSUME IInv, [Next]_vars, NEW k \in Addr \X Claims, LedgerDue[k] # NotDue
  PROVE  LedgerDue'[k] = LedgerDue[k]
<1>1. /\ k[2] \in Claims /\ Entitled(k[1], k[2]) /\ sharing[ProposalOfClaim(k[2])] # {}
  BY DEF LedgerDue
<1>2. sharing'[ProposalOfClaim(k[2])] = sharing[ProposalOfClaim(k[2])]
  BY <1>1, ClaimHasProposal, ListsGrow DEF SharesKept
<1> QED BY <1>1, <1>2 DEF LedgerDue, Reward, ProposalOfClaim, Entitled

(* What has been issued, or is on its way, is the reward of the claims     *)
(* used.                                                                   *)
LEMMA LedgerIssues ==
  ASSUME AddsUp
  PROVE  LedgerIssued = [k \in Addr \X Claims |-> Deserved(k[1], k[2])]
<1>1. \A k \in Addr \X Claims : InAll(k[1], k[2]) = Deserved(k[1], k[2])
  BY DEF AddsUp
<1> QED BY <1>1 DEF LedgerIssued

LEMMA DeservedStays ==
  ASSUME IInv, Inv2, AddsUp', [Next]_vars, NEW k \in Addr \X Claims,
         k \in used_issuance_tuples' <=> k \in used_issuance_tuples
  PROVE  LedgerIssued'[k] = LedgerIssued[k]
<1>1. PICK s \in Addr, c \in Claims : k = <<s, c>>
  OBVIOUS
<1>2. Deserved(s, c)' = Deserved(s, c)
  BY <1>1, DeservedKept DEF Inv2
<1>3. InAll(s, c) = Deserved(s, c) /\ InAll(s, c)' = Deserved(s, c)'
  BY DEF Inv2, AddsUp
<1>4. LedgerIssued[k] = InAll(s, c) /\ LedgerIssued'[k] = InAll(s, c)'
  BY <1>1 DEF LedgerIssued
<1> QED BY <1>2, <1>3, <1>4

(* A step that accepts no issue settles nothing; claims may fall due. *)
LEMMA NoneSettled ==
  ASSUME IInv, Inv2, IInv', AddsUp', [Next]_vars, UNCHANGED used_issuance_tuples
  PROVE  Ledger!FallDue
<1>1. LedgerIssued' = LedgerIssued
  <2>1. \A k \in Addr \X Claims : LedgerIssued'[k] = LedgerIssued[k]
    BY DeservedStays
  <2> QED BY <2>1 DEF LedgerIssued
<1>2. LedgerDue' \in [Addr \X Claims -> Nat \cup {NotDue}]
  <2>1. \A k \in Addr \X Claims : LedgerDue'[k] \in Nat \cup {NotDue}
    <3> SUFFICES ASSUME NEW k \in Addr \X Claims, LedgerDue'[k] # NotDue
                 PROVE  LedgerDue'[k] \in Nat
      OBVIOUS
    <3>1. k[2] \in Claims
      OBVIOUS
    <3>2. sharing'[ProposalOfClaim(k[2])] # {} /\ LedgerDue'[k] = Reward(k[2])'
      BY DEF LedgerDue, ProposalOfClaim
    <3>3. sharing'[ProposalOfClaim(k[2])] \in SUBSET Proposals
      BY <3>1, ClaimHasProposal DEF IInv, EpochsSound
    <3> QED BY <3>1, <3>2, <3>3, RewardType DEF Reward, ProposalOfClaim
  <2> QED BY <2>1 DEF LedgerDue
<1>3. \A k \in Addr \X Claims : LedgerDue[k] # NotDue => LedgerDue'[k] = LedgerDue[k]
  BY WorthKept
<1> QED BY <1>1, <1>2, <1>3 DEF Ledger!FallDue, Ledger!NotDue, NotDue

(* check_card accepts an issue: its claim is due, and is settled.          *)
LEMMA AcceptedSettles ==
  ASSUME IInv, Inv2, AddsUp', [Next]_vars, Card, Accepted, TheCard.type = "CardIssue"
  PROVE  \E D \in SUBSET ((Addr \X Claims) \ used_issuance_tuples) :
           \E F \in SUBSET D : Ledger!Settle(D, F)
<1>1. PICK s \in Addr, c \in Claims : s = TheCard.sender /\ c = TheCard.claim
  BY CardAppends DEF IsCard
<1> DEFINE D == {<<s, c>>}
<1>2. /\ <<s, c>> \notin used_issuance_tuples /\ Entitled(s, c)
      /\ sharing[ProposalOfClaim(c)] # {}
  BY <1>1 DEF Accepted, Accepts
<1>3. used_issuance_tuples' = used_issuance_tuples \cup D
  BY <1>1, CardAppends
<1>4. LedgerDue[<<s, c>>] = Reward(c) /\ Reward(c) \in Nat
  <2>1. sharing[ProposalOfClaim(c)] \in SUBSET Proposals
    BY ClaimHasProposal DEF IInv, EpochsSound
  <2> QED BY <1>1, <1>2, <2>1, RewardType DEF LedgerDue, Reward
<1>5. Reward(c) # NotDue
  BY <1>4 DEF NotDue
<1>6. sharing' = sharing
  BY CardAppends DEF proposalVars
<1>7. LedgerDue' = LedgerDue
  BY <1>6 DEF LedgerDue, Reward, ProposalOfClaim, Entitled
<1>8. ASSUME NEW k \in Addr \X Claims
      PROVE  LedgerIssued'[k] = IF k \in D \ {} THEN LedgerDue[k] ELSE LedgerIssued[k]
  <2>1. CASE k = <<s, c>>
    <3>1. LedgerIssued'[<<s, c>>] = InAll(s, c)'
      BY <1>1 DEF LedgerIssued
    <3>2. InAll(s, c)' = Deserved(s, c)'
      BY <1>1 DEF AddsUp
    <3>3. Deserved(s, c)' = Reward(c)
      BY <1>3, <1>6 DEF Deserved, Reward, ProposalOfClaim
    <3> QED BY <1>4, <2>1, <3>1, <3>2, <3>3
  <2>2. CASE k # <<s, c>>
    <3>1. k \in used_issuance_tuples' <=> k \in used_issuance_tuples
      BY <1>3, <2>2
    <3>2. LedgerIssued'[k] = LedgerIssued[k]
      BY <3>1, DeservedStays
    <3> QED BY <2>2, <3>2
  <2> QED BY <2>1, <2>2
<1>9. LedgerIssued' = [k \in Addr \X Claims |-> LedgerIssued'[k]]
  BY DEF LedgerIssued
<1>10. \A k \in D : LedgerDue[k] # NotDue
  BY <1>4, <1>5
<1>11. D \in SUBSET ((Addr \X Claims) \ used_issuance_tuples) /\ {} \in SUBSET D
  BY <1>1, <1>2
<1> HIDE DEF D
<1>12. LedgerIssued' =
         [k \in Addr \X Claims |-> IF k \in D \ {} THEN LedgerDue[k] ELSE LedgerIssued[k]]
  BY <1>8, <1>9
<1>13. Ledger!Settle(D, {})
  BY <1>3, <1>7, <1>10, <1>12 DEF Ledger!Settle, Ledger!NotDue, NotDue
<1> QED BY <1>11, <1>13

(* The DT parser keeps a ledger of claims: for all chains, bundles and     *)
(* epochs, a claim is settled when it is due and once, in full, and its    *)
(* worth does not change any more.                                         *)
THEOREM DTParserImplementsLedger == Spec => ImplementsClaimsLedger
<1>1. Init => Ledger!Init
  <2> SUFFICES ASSUME Init PROVE Ledger!Init
    OBVIOUS
  <2>1. used_issuance_tuples = {} /\ \A p \in Proposals : sharing[p] = {}
    BY DEF Init
  <2>2. \A k \in Addr \X Claims : sharing[ProposalOfClaim(k[2])] = {}
    BY <2>1, ClaimHasProposal
  <2>3. LedgerDue = [k \in Addr \X Claims |-> NotDue]
    BY <2>2 DEF LedgerDue
  <2>4. AddsUp
    BY InitSecond DEF Inv2
  <2>5. \A k \in Addr \X Claims : Deserved(k[1], k[2]) = 0
    BY <2>1 DEF Deserved
  <2>6. LedgerIssued = [k \in Addr \X Claims |-> 0]
    BY <2>4, <2>5, LedgerIssues
  <2> QED BY <2>1, <2>3, <2>6 DEF Ledger!Init, Ledger!NotDue, NotDue
<1>2. ASSUME IInv, Inv2, IInv', Inv2', [Next]_vars
      PROVE  [Ledger!Next]_(Ledger!ledgerVars)
  <2>1. AddsUp'
    BY <1>2 DEF Inv2
  <2>2. CASE Card /\ Accepted /\ TheCard.type = "CardIssue"
    BY <1>2, <2>1, <2>2, AcceptedSettles DEF Ledger!Next
  <2>3. CASE ~(Card /\ Accepted /\ TheCard.type = "CardIssue")
    <3>1. UNCHANGED used_issuance_tuples
      <4>1. CASE Card
        BY <1>2, <2>3, <4>1, CardAppends
      <4>2. CASE ~Card
        BY <1>2, <4>2, QuietStep
      <4> QED BY <4>1, <4>2
    <3> QED BY <1>2, <2>1, <3>1, NoneSettled DEF Ledger!Next
  <2> QED BY <2>2, <2>3
<1> QED BY <1>1, <1>2, AlwaysBoth, PTL DEF Spec, ImplementsClaimsLedger, Ledger!Spec


-----------------------------------------------------------------------------
(* The voters *)

(* Weights of finitely many voters, none below zero. *)
Weighing(v) ==
  /\ DOMAIN v \subseteq Addr /\ IsFiniteSet(DOMAIN v)
  /\ v \in [DOMAIN v -> Nat]

LEMMA AddedWeighs ==
  ASSUME NEW v, Weighing(v), NEW a \in Addr, NEW n \in Int, WeightOf(v, a) + n >= 0
  PROVE  /\ Weighing(Added(v, a, n)) /\ Total(Added(v, a, n)) = Total(v) + n
         /\ Total(v) \in Nat
         /\ \A x : WeightOf(Added(v, a, n), x) = WeightOf(v, x) + (IF x = a THEN n ELSE 0)
<1> DEFINE w == Added(v, a, n)
           D == DOMAIN v \ {a}
<1>1. Numbers(DOMAIN v, v) /\ Numbers(D, v)
  BY FS_RemoveElement DEF Numbers, Weighing
<1>2. WeightOf(v, a) \in Nat /\ \A x : WeightOf(v, x) \in Int
  BY DEF Weighing, WeightOf
<1>3. /\ DOMAIN w = D \cup {a} /\ w[a] = WeightOf(v, a) + n
      /\ \A x \in D : w[x] = v[x]
  BY DEF Added
<1>4. w[a] \in Nat
  BY <1>2, <1>3
<1>5. Weighing(w)
  <2>1. IsFiniteSet(DOMAIN v \cup {a}) /\ DOMAIN w = DOMAIN v \cup {a}
    BY FS_AddElement DEF Weighing, Added
  <2>2. w = [x \in DOMAIN w |-> w[x]]
    BY DEF Added
  <2>3. \A x \in DOMAIN w : w[x] \in Nat
    BY <1>3, <1>4 DEF Weighing
  <2> HIDE DEF w
  <2>4. w \in [DOMAIN w -> Nat]
    BY <2>2, <2>3
  <2> QED BY <2>1, <2>4 DEF Weighing
<1>6. \A x : WeightOf(w, x) = WeightOf(v, x) + (IF x = a THEN n ELSE 0)
  <2> SUFFICES ASSUME NEW x
               PROVE  WeightOf(w, x) = WeightOf(v, x) + (IF x = a THEN n ELSE 0)
    OBVIOUS
  <2> HIDE DEF w
  <2>1. CASE x = a
    BY <1>3, <2>1 DEF WeightOf
  <2>2. CASE x # a
    <3>1. WeightOf(w, x) = WeightOf(v, x)
      BY <1>3, <2>2 DEF WeightOf
    <3> QED BY <1>2, <2>2, <3>1
  <2> QED BY <2>1, <2>2
<1>7. Sum(D, w) = Sum(D, v) /\ Sum(D, v) \in Nat
  BY <1>1, <1>3, SumAgree, SumType
<1>8. Total(w) = Sum(D, w) + w[a]
  <2> HIDE DEF w, D
  <2>1. Numbers(D, w)
    BY <1>1, <1>3 DEF Numbers
  <2>2. a \notin D
    BY DEF D
  <2> QED BY <1>3, <1>4, <2>1, <2>2, SumAdd DEF Total
<1>9. Total(v) = Sum(D, v) + WeightOf(v, a)
  <2>1. CASE a \in DOMAIN v
    BY <2>1, <1>1, SumRemove DEF Total, WeightOf
  <2>2. CASE a \notin DOMAIN v
    <3>1. D = DOMAIN v
      BY <2>2
    <3> QED BY <2>2, <3>1, <1>7 DEF Total, WeightOf
  <2> QED BY <2>1, <2>2
<1> HIDE DEF w, D
<1>10. Total(w) = Total(v) + n /\ Total(v) \in Nat
  BY <1>2, <1>3, <1>7, <1>8, <1>9
<1> QED BY <1>5, <1>6, <1>10 DEF w

(* What a card that is taken adds to all weights together. *)
Gain(c) == IF c.type = "CardIssue" THEN c.amount
           ELSE IF c.type = "CardBurn" THEN -c.amount ELSE 0

LEMMA TakenWeighs ==
  ASSUME NEW v, Weighing(v), NEW c, IsCard(c),
         c.type = "CardIssue" \/ WeightOf(v, c.sender) >= c.amount
  PROVE  Weighing(Taken(v, c, 1)) /\ Total(Taken(v, c, 1)) = Total(v) + Gain(c)
<1>1. /\ c.sender \in Addr /\ c.receiver \in Addr /\ c.amount \in Nat
      /\ c.amount * 1 = c.amount
      /\ c.type \in {"CardIssue", "CardTransfer", "CardBurn"}
  BY DEF IsCard
<1>2. \A x : WeightOf(v, x) \in Nat
  BY DEF Weighing, WeightOf
<1> DEFINE got == Added(v, c.receiver, c.amount)
<1>3. /\ Weighing(got) /\ Total(got) = Total(v) + c.amount /\ Total(v) \in Nat
      /\ \A x : WeightOf(got, x) = WeightOf(v, x) + (IF x = c.receiver THEN c.amount ELSE 0)
  <2>1. WeightOf(v, c.receiver) + c.amount >= 0 /\ c.amount \in Int
    BY <1>1, <1>2
  <2> QED BY <1>1, <2>1, AddedWeighs
<1>4. WeightOf(got, c.sender) >= WeightOf(v, c.sender) /\ WeightOf(got, c.sender) \in Nat
  BY <1>1, <1>2, <1>3
<1> HIDE DEF got
<1>5. CASE c.type = "CardIssue"
  <2>1. Taken(v, c, 1) = got
    BY <1>1, <1>5 DEF Taken, got
  <2> QED BY <1>3, <1>5, <2>1 DEF Gain
<1>6. CASE c.type = "CardTransfer"
  <2>1. Taken(v, c, 1) = Added(got, c.sender, -c.amount)
    BY <1>1, <1>6 DEF Taken, got
  <2>2. WeightOf(got, c.sender) + (-c.amount) >= 0 /\ -c.amount \in Int
    BY <1>1, <1>2, <1>4, <1>6
  <2>3. Weighing(Taken(v, c, 1)) /\ Total(Taken(v, c, 1)) = Total(got) + (-c.amount)
    BY <1>1, <1>3, <2>1, <2>2, AddedWeighs
  <2>4. Gain(c) = 0
    BY <1>6 DEF Gain
  <2> QED BY <1>1, <1>3, <2>3, <2>4
<1>7. CASE c.type = "CardBurn"
  <2>1. Taken(v, c, 1) = Added(v, c.sender, -c.amount)
    BY <1>1, <1>7 DEF Taken
  <2>2. WeightOf(v, c.sender) + (-c.amount) >= 0 /\ -c.amount \in Int
    BY <1>1, <1>2, <1>7
  <2>3. Weighing(Taken(v, c, 1)) /\ Total(Taken(v, c, 1)) = Total(v) + (-c.amount)
    BY <1>1, <2>1, <2>2, AddedWeighs
  <2> QED BY <1>7, <2>3 DEF Gain
<1> QED BY <1>1, <1>5, <1>6, <1>7


(* The state of update_voters. *)
Accounts ==
  [voters : {v \in UNION {[A -> Nat] : A \in SUBSET Addr} : Weighing(v)},
   illegal : SUBSET Nat]

LEMMA WeighingType ==
  ASSUME NEW v, Weighing(v)
  PROVE  v \in {w \in UNION {[A -> Nat] : A \in SUBSET Addr} : Weighing(w)}
BY DEF Weighing

(* What the first k cards of a list amount to, by type. *)
Upto(c, t, k) == Sum({i \in 1 .. k : c[i].type = t}, Amounts(c))

LEMMA UptoNext ==
  ASSUME NEW c, IsList(c), \A i \in DOMAIN c : IsCard(c[i]),
         NEW k \in 1 .. Len(c), NEW t
  PROVE  /\ Upto(c, t, k - 1) \in Nat
         /\ Upto(c, t, k) = Upto(c, t, k - 1) + (IF c[k].type = t THEN c[k].amount ELSE 0)
<1> DEFINE S == {i \in 1 .. k - 1 : c[i].type = t}
           T == {i \in 1 .. k : c[i].type = t}
<1>1. Len(c) \in Nat /\ DOMAIN c = 1 .. Len(c)
  BY ListDomain
<1>2. S \in SUBSET (DOMAIN c) /\ k \in DOMAIN c /\ k \notin S
  BY <1>1
<1>3. c[k].amount \in Nat /\ Amounts(c)[k] = c[k].amount
  BY <1>2 DEF IsCard, Amounts
<1>4. Numbers(S, Amounts(c))
  BY <1>2, AmountsAreNumbers DEF IsCard
<1>5. Sum(S, Amounts(c)) \in Nat
  BY <1>4, SumType
<1>6. T = IF c[k].type = t THEN S \cup {k} ELSE S
  <2>1. 1 .. k = (1 .. k - 1) \cup {k}
    BY <1>1
  <2> QED BY <2>1
<1> HIDE DEF S, T
<1>7. c[k].type = t => Sum(T, Amounts(c)) = Sum(S, Amounts(c)) + c[k].amount
  <2>1. PICK f : f = Amounts(c)
    OBVIOUS
  <2>2. f[k] \in Nat /\ Numbers(S, f)
    BY <1>3, <1>4, <2>1
  <2>3. Sum(S \cup {k}, f) = Sum(S, f) + f[k]
    BY <1>2, <2>2, SumAdd
  <2> QED BY <1>3, <1>6, <2>1, <2>3
<1>8. Sum(T, Amounts(c)) = Sum(S, Amounts(c)) + (IF c[k].type = t THEN c[k].amount ELSE 0)
  BY <1>5, <1>6, <1>7
<1> QED BY <1>5, <1>8 DEF S, T, Upto

(* Weights that fit the first k cards of a list. *)
Fits(v, c, k) ==
  /\ Weighing(v)
  /\ Total(v) <= Upto(c, "CardIssue", k)
  /\ Upto(c, "CardIssue", k) <= Total(v) + Upto(c, "CardBurn", k)

(* A card, taken or passed over, leaves weights that fit. *)
LEMMA StepFits ==
  ASSUME NEW c, IsList(c), \A i \in DOMAIN c : IsCard(c[i]), NEW k \in 1 .. Len(c),
         NEW acc \in Accounts, NEW cs
  PROVE  /\ VotersStep(acc, c[k], cs) \in Accounts
         /\ Fits(acc.voters, c, k - 1) => Fits(VotersStep(acc, c[k], cs).voters, c, k)
<1> DEFINE v == acc.voters
           d == c[k]
           new == VotersStep(acc, d, cs)
<1>1. IsCard(d)
  BY ListDomain
<1>2. /\ d.type \in {"CardIssue", "CardTransfer", "CardBurn"} /\ d.amount \in Nat
      /\ d.txid \in Nat
  BY <1>1 DEF IsCard
<1>3. Weighing(v) /\ Total(v) \in Nat
  <2>1. Weighing(v)
    BY DEF Accounts
  <2>2. Numbers(DOMAIN v, v)
    BY <2>1 DEF Weighing, Numbers
  <2> HIDE DEF v
  <2> QED BY <2>1, <2>2, SumType DEF Total
<1>4. /\ Upto(c, "CardIssue", k - 1) \in Nat /\ Upto(c, "CardBurn", k - 1) \in Nat
      /\ Upto(c, "CardIssue", k) =
           Upto(c, "CardIssue", k - 1) + (IF d.type = "CardIssue" THEN d.amount ELSE 0)
      /\ Upto(c, "CardBurn", k) =
           Upto(c, "CardBurn", k - 1) + (IF d.type = "CardBurn" THEN d.amount ELSE 0)
  BY UptoNext
<1>5. Fits(v, c, k - 1) =>
        /\ Total(v) <= Upto(c, "CardIssue", k - 1)
        /\ Upto(c, "CardIssue", k - 1) <= Total(v) + Upto(c, "CardBurn", k - 1)
  BY DEF Fits
<1> DEFINE Kept == Fits(v, c, k - 1) => Fits(new.voters, c, k)
<1>6. ASSUME new \in Accounts, new.voters = v, d.type # "CardIssue"
      PROVE  new \in Accounts /\ Kept
  <2> HIDE DEF new, v, d
  <2> QED BY <1>2, <1>3, <1>4, <1>5, <1>6 DEF Fits
<1>7. ASSUME new = [acc EXCEPT !.voters = Taken(@, d, 1)],
             d.type = "CardIssue" \/ WeightOf(v, d.sender) >= d.amount
      PROVE  new \in Accounts /\ Kept
  <2>1. Weighing(Taken(v, d, 1)) /\ Total(Taken(v, d, 1)) = Total(v) + Gain(d)
    <3> HIDE DEF v, d
    <3> QED BY <1>1, <1>3, <1>7, TakenWeighs
  <2>2. new.voters = Taken(v, d, 1) /\ new \in Accounts
    <3>1. PICK w : w = Taken(v, d, 1)
      OBVIOUS
    <3>2. w \in {u \in UNION {[A -> Nat] : A \in SUBSET Addr} : Weighing(u)}
      BY <2>1, <3>1, WeighingType
    <3>3. new = [acc EXCEPT !.voters = w]
      BY <1>7, <3>1
    <3> HIDE DEF new, v, d
    <3> QED BY <3>1, <3>2, <3>3 DEF Accounts
  <2> HIDE DEF new, v, d
  <2>3. CASE d.type = "CardIssue"
    BY <1>2, <1>3, <1>4, <1>5, <2>1, <2>2, <2>3 DEF Fits, Gain
  <2>4. CASE d.type = "CardTransfer"
    BY <1>2, <1>3, <1>4, <1>5, <2>1, <2>2, <2>4 DEF Fits, Gain
  <2>5. CASE d.type = "CardBurn"
    BY <1>2, <1>3, <1>4, <1>5, <2>1, <2>2, <2>5 DEF Fits, Gain
  <2> QED BY <1>2, <2>3, <2>4, <2>5
<1>8. CASE d.type = "CardIssue"
  BY <1>7, <1>8 DEF VotersStep
<1>9. CASE d.type # "CardIssue" /\ (d.sender \notin DOMAIN v \/ d.txid \in acc.illegal
                                    \/ d.amount > v[d.sender])
  <2>1. new = acc
    BY <1>9 DEF VotersStep
  <2> QED BY <1>6, <1>9, <2>1
<1>10. CASE d.type # "CardIssue" /\ ~(d.sender \notin DOMAIN v \/ d.txid \in acc.illegal
                                      \/ d.amount > v[d.sender])
  <2>1. WeightOf(v, d.sender) >= d.amount
    <3>1. v[d.sender] \in Nat /\ ~(d.amount > v[d.sender]) /\ WeightOf(v, d.sender) = v[d.sender]
      BY <1>3, <1>10 DEF Weighing, WeightOf
    <3> QED BY <1>2, <3>1
  <2>2. CASE SeveralCards(cs, d.txid) /\ AmountOfTx(cs, d.txid) > v[d.sender]
    <3>1. new = [acc EXCEPT !.illegal = @ \cup {d.txid}]
      BY <1>10, <2>2 DEF VotersStep
    <3>2. new \in Accounts /\ new.voters = v
      BY <1>2, <3>1 DEF Accounts
    <3> QED BY <1>6, <1>10, <3>2
  <2>3. CASE ~(SeveralCards(cs, d.txid) /\ AmountOfTx(cs, d.txid) > v[d.sender])
    <3>1. new = [acc EXCEPT !.voters = Taken(@, d, 1)]
      BY <1>10, <2>3 DEF VotersStep
    <3> QED BY <1>7, <2>1, <3>1
  <2> QED BY <2>2, <2>3
<1> QED BY <1>8, <1>9, <1>10


(* Weights that fit the cards before an epoch fit those up to its end.     *)
LEMMA VotersFit ==
  ASSUME NEW a, NEW b, IsList(a), IsList(b),
         \A i \in DOMAIN a : IsCard(a[i]), \A i \in DOMAIN b : IsCard(b[i]),
         NEW v, Fits(v, a, Len(a))
  PROVE  Fits(UpdatedVoters(v, b), a \o b, Len(a \o b))
<1>1. /\ Len(a) \in Nat /\ DOMAIN a = 1 .. Len(a)
      /\ Len(b) \in Nat /\ DOMAIN b = 1 .. Len(b)
  BY ListDomain
<1>2. PICK c : c = a \o b
  OBVIOUS
<1>3. /\ IsList(c) /\ Len(c) = Len(a) + Len(b) /\ DOMAIN c = 1 .. Len(c)
      /\ \A i \in 1 .. Len(a) : c[i] = a[i]
      /\ \A i \in (Len(a) + 1) .. (Len(a) + Len(b)) : c[i] = b[i - Len(a)]
  BY <1>2, ListConcat, ListDomain
<1>4. ASSUME NEW i \in 1 .. Len(b)
      PROVE  Len(a) + i \in 1 .. Len(c) /\ c[Len(a) + i] = b[i]
  <2>1. Len(a) + i \in (Len(a) + 1) .. (Len(a) + Len(b)) /\ (Len(a) + i) - Len(a) = i
    BY <1>1
  <2>2. c[Len(a) + i] = b[(Len(a) + i) - Len(a)]
    BY <1>3, <2>1
  <2> QED BY <1>1, <1>3, <2>1, <2>2
<1>5. \A i \in DOMAIN c : IsCard(c[i])
  <2> SUFFICES ASSUME NEW i \in 1 .. Len(c) PROVE IsCard(c[i])
    BY <1>3
  <2>1. CASE i <= Len(a)
    BY <1>1, <1>3, <2>1
  <2>2. CASE i > Len(a)
    <3>1. i - Len(a) \in 1 .. Len(b) /\ i \in (Len(a) + 1) .. (Len(a) + Len(b))
      BY <1>1, <1>3, <2>2
    <3> QED BY <1>1, <1>3, <3>1
  <2> QED BY <1>1, <1>3, <2>1, <2>2
<1>6. Fits(v, c, Len(a))
  <2>1. \A t : Upto(c, t, Len(a)) = Upto(a, t, Len(a))
    <3> SUFFICES ASSUME NEW t PROVE Upto(c, t, Len(a)) = Upto(a, t, Len(a))
      OBVIOUS
    <3>1. \A i \in 1 .. Len(a) : i \in DOMAIN a /\ i \in DOMAIN c /\ c[i] = a[i]
      BY <1>1, <1>3
    <3>2. {i \in 1 .. Len(a) : c[i].type = t} = {i \in 1 .. Len(a) : a[i].type = t}
      BY <3>1
    <3> DEFINE S == {i \in 1 .. Len(a) : a[i].type = t}
    <3>3. \A i \in S : Amounts(c)[i] = Amounts(a)[i]
      BY <3>1 DEF Amounts
    <3>4. Sum(S, Amounts(c)) = Sum(S, Amounts(a))
      <4> HIDE DEF S
      <4> QED BY <3>3, SumAgree
    <3> QED BY <3>2, <3>4 DEF Upto
  <2> QED BY <2>1 DEF Fits
<1> DEFINE base == [voters |-> v, illegal |-> {}]
           Solves(h) == h = [i \in 0 .. Len(b) |->
                               IF i = 0 THEN base ELSE VotersStep(h[i - 1], b[i], b)]
           u == CHOOSE h : Solves(h)
           step == [i \in 1 .. Len(b) |-> [acc \in Accounts |-> VotersStep(acc, b[i], b)]]
<1>7. base \in Accounts /\ base.voters = v
  BY <1>6, WeighingType DEF Fits, Accounts
<1>8. \A i \in 1 .. Len(b), acc \in Accounts :
        /\ VotersStep(acc, b[i], b) \in Accounts
        /\ Fits(acc.voters, c, Len(a) + (i - 1)) =>
             Fits(VotersStep(acc, b[i], b).voters, c, Len(a) + i)
  <2> SUFFICES ASSUME NEW i \in 1 .. Len(b), NEW acc \in Accounts
               PROVE  /\ VotersStep(acc, b[i], b) \in Accounts
                      /\ Fits(acc.voters, c, Len(a) + (i - 1)) =>
                           Fits(VotersStep(acc, b[i], b).voters, c, Len(a) + i)
    OBVIOUS
  <2>1. PICK k \in 1 .. Len(c) : k = Len(a) + i /\ c[k] = b[i]
    BY <1>4
  <2>2. Len(a) + (i - 1) = k - 1
    BY <1>1, <2>1
  <2> QED BY <1>3, <1>5, <2>1, <2>2, StepFits
<1>9. \E h : Solves(h)
  <2>1. \A i \in 1 .. Len(b), acc \in Accounts :
          step[i][acc] = VotersStep(acc, b[i], b) /\ step[i][acc] \in Accounts
    BY <1>8
  <2> HIDE DEF step, base
  <2>2. Closed(step, Accounts, Len(b))
    BY <2>1 DEF Closed
  <2>3. PICK f \in [0 .. Len(b) -> Accounts] : Runs(f, step, base, Len(b))
    BY <1>1, <1>7, <2>2, RecursionExists
  <2>4. f[0] = base /\ \A i \in 1 .. Len(b) : f[i] = VotersStep(f[i - 1], b[i], b)
    BY <1>1, <2>1, <2>3 DEF Runs
  <2>5. Solves(f)
    BY <1>1, <2>3, <2>4
  <2> QED BY <2>5
<1>10. Solves(u)
  BY <1>9
<1>11. UpdatedVoters(v, b) = u[Len(b)].voters
  BY Zenon DEF UpdatedVoters
<1> HIDE DEF u, base
<1>12. u[0] = base /\ \A i \in 1 .. Len(b) : u[i] = VotersStep(u[i - 1], b[i], b)
  BY <1>1, <1>10
<1> HIDE DEF Solves
<1>13. u[Len(b)] \in Accounts /\ Fits(u[Len(b)].voters, c, Len(a) + Len(b))
  <2> DEFINE P == {i \in 0 .. Len(b) :
                     u[i] \in Accounts /\ Fits(u[i].voters, c, Len(a) + i)}
  <2>1. 0 \in P
    BY <1>1, <1>6, <1>7, <1>12
  <2>2. ASSUME NEW i \in 1 .. Len(b), i - 1 \in P
        PROVE  i \in P
    <3>1. u[i - 1] \in Accounts /\ Fits(u[i - 1].voters, c, Len(a) + (i - 1))
      BY <2>2
    <3> QED BY <1>1, <1>8, <1>12, <3>1
  <2> HIDE DEF P
  <2>3. \A i \in 0 .. Len(b) : i \in P
    BY <1>1, <2>1, <2>2, StepByStep
  <2>4. Len(b) \in P
    BY <1>1, <2>3
  <2> QED BY <2>4 DEF P
<1> QED BY <1>2, <1>3, <1>11, <1>13


(* The cards of the epoch that is over, when they are handed over. *)
LEMMA EpochCards ==
  ASSUME IInv, pc = "loop"
  PROVE  /\ IsList(valid_cards) /\ IsList(valid_epoch_cards)
         /\ \A i \in DOMAIN valid_cards : IsCard(valid_cards[i])
         /\ \A i \in DOMAIN valid_epoch_cards : IsCard(valid_epoch_cards[i])
<1>1. /\ IsList(valid_cards) /\ IsList(valid_epoch_cards)
      /\ AllValid = valid_cards \o valid_epoch_cards
  BY DEF IInv, ValidSound, AllValid
<1>2. PICK n \in Nat, m \in Nat : n = Len(valid_cards) /\ m = Len(valid_epoch_cards)
  BY <1>1, ListDomain
<1>a. PICK a : a = AllValid
  OBVIOUS
<1>3. DOMAIN valid_cards = 1 .. n /\ DOMAIN valid_epoch_cards = 1 .. m
  BY <1>1, <1>2, ListDomain
<1>4. /\ DOMAIN a = 1 .. n + m /\ \A i \in 1 .. n : a[i] = valid_cards[i]
      /\ \A i \in (n + 1) .. (n + m) : a[i] = valid_epoch_cards[i - n]
  BY <1>1, <1>2, <1>a, ListConcat, ListDomain
<1>5. \A i \in DOMAIN a : IsCard(a[i])
  <2> SUFFICES ASSUME NEW i \in DOMAIN a PROVE IsCard(a[i])
    OBVIOUS
  <2>1. PICK j \in 1 .. looked : a[i] = cards[j]
    BY <1>a DEF IInv, ValidSound
  <2>2. j \in DOMAIN cards
    BY CardNumbers
  <2> QED BY <2>1, <2>2 DEF IInv, CardsSound
<1>6. ASSUME NEW i \in 1 .. m PROVE IsCard(valid_epoch_cards[i])
  <2>1. n + i \in (n + 1) .. (n + m) /\ n + i \in 1 .. n + m /\ (n + i) - n = i
    OBVIOUS
  <2>2. a[n + i] = valid_epoch_cards[(n + i) - n]
    BY <1>4, <2>1
  <2> QED BY <1>4, <1>5, <2>1, <2>2
<1>7. ASSUME NEW i \in 1 .. n PROVE IsCard(valid_cards[i])
  BY <1>4, <1>5, <1>7
<1> QED BY <1>1, <1>3, <1>6, <1>7

WeightsFit ==
  IsList(valid_cards) /\ Fits(dpod_voters, valid_cards, Len(valid_cards))

LEMMA WeightsStay ==
  ASSUME IInv, WeightsFit, [Next]_vars
  PROVE  WeightsFit'
<1>1. ASSUME UNCHANGED <<dpod_voters, valid_cards>>
      PROVE  WeightsFit'
  BY <1>1 DEF WeightsFit
<1>2. ASSUME EpochPostprocess, pc = "loop"
      PROVE  WeightsFit'
  <2>1. /\ IsList(valid_cards) /\ IsList(valid_epoch_cards)
        /\ \A i \in DOMAIN valid_cards : IsCard(valid_cards[i])
        /\ \A i \in DOMAIN valid_epoch_cards : IsCard(valid_epoch_cards[i])
    BY <1>2, EpochCards
  <2>2. Fits(dpod_voters, valid_cards, Len(valid_cards))
    BY DEF WeightsFit
  <2>3. PICK after : after = UpdatedVoters(dpod_voters, valid_epoch_cards)
    OBVIOUS
  <2>4. PICK all : all = valid_cards \o valid_epoch_cards
    OBVIOUS
  <2>5. Fits(after, all, Len(all))
    BY <2>1, <2>2, <2>3, <2>4, VotersFit
  <2>6. IsList(all)
    BY <2>1, <2>4, ListConcat
  <2>7. dpod_voters' = after /\ valid_cards' = all
    BY <1>2, <2>3, <2>4 DEF EpochPostprocess
  <2> QED BY <2>5, <2>6, <2>7 DEF WeightsFit
<1>3. CASE Read
  BY <1>1, <1>3 DEF Read, voterVars, cardVars
<1>4. CASE Postprocess
  BY <1>2, <1>4 DEF Postprocess, Looking
<1>5. CASE Cardless
  BY <1>1, <1>5 DEF Cardless, EpochInit, cardVars
<1>6. CASE EnterEpoch
  BY <1>1, <1>6 DEF EnterEpoch, EpochInit, cardVars
<1>7. CASE Card
  BY <1>1, <1>7 DEF Card, voterVars
<1>8. CASE TooEarly
  BY <1>1, <1>8 DEF TooEarly, voterVars, cardVars
<1>9. CASE EndLoop
  <2>1. CASE valid_epoch_cards # <<>>
    BY <1>2, <1>9, <2>1 DEF EndLoop
  <2>2. CASE valid_epoch_cards = <<>>
    BY <1>1, <1>9, <2>2 DEF EndLoop, voterVars
  <2> QED BY <2>1, <2>2
<1>10. CASE Continue
  BY <1>1, <1>10 DEF Continue, EpochInit, cardVars
<1>11. CASE UNCHANGED vars
  BY <1>1, <1>11 DEF vars, cardVars, voterVars
<1> QED BY <1>3, <1>4, <1>5, <1>6, <1>7, <1>8, <1>9, <1>10, <1>11 DEF Next

(* The holders of the deck's own tokens vote with no more weight than has  *)
(* been issued, nobody with less than none, whatever bundles and uncovered *)
(* transfers and burns are among the valid cards.                          *)
THEOREM VotersWeighTokens == Spec => []WeightsAreTokens
<1>1. Init => WeightsFit
  <2> SUFFICES ASSUME Init PROVE WeightsFit
    OBVIOUS
  <2>1. valid_cards = <<>> /\ dpod_voters = Nobody
    BY DEF Init
  <2>2. IsList(<<>>) /\ Len(<<>>) = 0
    BY ListEmpty
  <2>3. DOMAIN Nobody = {} /\ Weighing(Nobody)
    BY FS_EmptySet DEF Nobody, Weighing
  <2>4. Total(Nobody) = 0
    BY <2>3, SumEmpty DEF Total
  <2>5. \A t : Upto(<<>>, t, 0) = 0
    <3>1. \A t : {i \in 1 .. 0 : <<>>[i].type = t} = {}
      OBVIOUS
    <3> QED BY <3>1, SumEmpty DEF Upto
  <2> QED BY <2>1, <2>2, <2>3, <2>4, <2>5 DEF WeightsFit, Fits
<1>2. IInv /\ WeightsFit /\ [Next]_vars => WeightsFit'
  BY WeightsStay
<1>3. WeightsFit => WeightsAreTokens
  <2> SUFFICES ASSUME WeightsFit PROVE WeightsAreTokens
    OBVIOUS
  <2>1. \A t : AmountOf(valid_cards, t) = Upto(valid_cards, t, Len(valid_cards))
    BY ListDomain DEF WeightsFit, AmountOf, Upto
  <2>2. \A x \in DOMAIN dpod_voters : dpod_voters[x] >= 0
    BY DEF WeightsFit, Fits, Weighing
  <2> QED BY <2>1, <2>2 DEF WeightsFit, Fits, WeightsAreTokens
<1> QED BY <1>1, <1>2, <1>3, AlwaysSound, PTL DEF Spec

=============================================================================
