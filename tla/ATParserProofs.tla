--------------------------- MODULE ATParserProofs ---------------------------
(***************************************************************************)
(* Proofs about ATParser for all donations, claims and chain heights: the  *)
(* type invariant, that a donation is claimed with one transaction only    *)
(* and for exactly what it entitles to, that every valid issue is due,     *)
(* that a parse returns what the chain says, and what follows: later       *)
(* parses only add cards, and an honest claim succeeds.                    *)
(***************************************************************************)
EXTENDS ATParser, CollectionsTheorems, TLAPS

(* The cards of one transaction agree in all that their claim depends on.  *)
SameTx(s) ==
  \A i, j \in DOMAIN s :
    s[i].txid = s[j].txid =>
      /\ s[i].sender = s[j].sender /\ s[i].donation_txid = s[j].donation_txid
      /\ s[i].blocknum = s[j].blocknum /\ s[i].type = s[j].type

(* An issue that the donor was entitled to make when its block was mined,  *)
(* with the donations in these blocks.                                     *)
Due(c, block) ==
  /\ c.sender = DonorOf[c.donation_txid]
  /\ block[c.donation_txid] \in 1 .. c.blocknum
  /\ EndBlock # NoLimit => block[c.donation_txid] <= EndBlock
  /\ block[c.donation_txid] >= StartBlock

(* Cards are sorted by their transactions. *)
Sorted(s) == \A i, j \in DOMAIN s : i < j => s[i].txid <= s[j].txid

(* What at_parser's lists say about one another.                           *)
ChainSound == /\ SameTx(chain) /\ Sorted(chain)
              /\ \A i \in DOMAIN chain : chain[i].txid <= height
CardsSound == SameTx(cards) /\ Sorted(cards)
FromCards == \A i \in DOMAIN valid_cards : \E j \in DOMAIN cards : valid_cards[i] = cards[j]
UsedCovers ==
  \A i \in IssuesOf(valid_cards) :
    <<valid_cards[i].sender, valid_cards[i].donation_txid>> \in used_issuance_tuples
BundlesSeen ==
  \A t \in valid_bundles : \E i \in IssuesOf(valid_cards) : valid_cards[i].txid = t
AllDue == /\ \A i \in IssuesOf(valid_cards) : Due(valid_cards[i], confirmed)
          /\ \A i \in IssuesOf(parsed) :
               parsed[i].donation_txid \in Donations /\ Due(parsed[i], confirmed)

(* The valid issues for a donation so far, and the cards still to come of  *)
(* bundles found valid: together they issue what the donation entitles to. *)
Amounts(s) == [i \in DOMAIN s |-> s[i].amount]
Given(d) == {i \in IssuesOf(valid_cards) : valid_cards[i].donation_txid = d}
Coming(d) ==
  {k \in pos .. Len(cards) :
     /\ cards[k].type = "CardIssue" /\ cards[k].txid \in valid_bundles
     /\ cards[k].donation_txid = d}
InAll(d) == Sum(Given(d), Amounts(valid_cards)) + Sum(Coming(d), Amounts(cards))
AddsUp == pos # 0 => \A d \in Donations : InAll(d) \in {0, Entitlement(d)}

IInv == /\ TypeOK /\ ChainSound /\ CardsSound /\ FromCards /\ UsedCovers
        /\ BundlesSeen /\ ClaimedOnce /\ AllDue
        /\ AddsUp /\ IssuedAsEntitled

-----------------------------------------------------------------------------
(* A transaction's cards. *)
LEMMA CardsOfType ==
  ASSUME NEW tx \in Txs, NEW n \in 1 .. MaxHeight
  PROVE  /\ CardsOf(tx, n) \in Seq(Card)
         /\ DOMAIN CardsOf(tx, n) = 1 .. Len(tx.amounts)
         /\ \A i \in DOMAIN CardsOf(tx, n) :
              LET c == CardsOf(tx, n)[i]
              IN  /\ c.txid = n /\ c.blocknum = n /\ c.sender = tx.sender
                  /\ c.type = tx.type /\ c.donation_txid = tx.donation
<1>1. tx.amounts \in Seq(Nat) /\ Len(tx.amounts) \in Nat
  BY TxsAssumption
<1>2. /\ \/ tx.type = "CardIssue" /\ tx.donation \in Donations
         \/ tx.type \in {"CardTransfer", "CardBurn"} /\ tx.donation = NoDonation
      /\ tx.sender \in {u.sender : u \in Txs}
  BY TxsAssumption
<1>3. \A i \in 1 .. Len(tx.amounts) : tx.amounts[i] \in Nat
  BY <1>1
<1>4. CardsOf(tx, n) \in [1 .. Len(tx.amounts) -> Card]
  BY <1>2, <1>3 DEF CardsOf, Card
<1>5. CardsOf(tx, n) \in Seq(Card)
  BY <1>1, <1>4
<1> QED BY <1>4, <1>5 DEF CardsOf

(* The card that the parser looks at. *)
LEMMA CardType ==
  ASSUME TypeOK, Reached
  PROVE  /\ pos \in DOMAIN cards /\ card = cards[pos] /\ card \in Card
         /\ card.txid \in 1 .. MaxHeight /\ card.blocknum \in 1 .. MaxHeight
         /\ card.sender \in {tx.sender : tx \in Txs}
         /\ card.type = "CardIssue" => card.donation_txid \in Donations
<1>1. cards \in Seq(Card) /\ pos \in 1 .. Len(cards)
  BY DEF TypeOK, Reached
<1>2. pos \in DOMAIN cards /\ cards[pos] \in Card
  BY <1>1
<1>3. \A c \in Card :
        /\ c.txid \in 1 .. MaxHeight /\ c.blocknum \in 1 .. MaxHeight
        /\ c.sender \in {tx.sender : tx \in Txs}
        /\ c.type = "CardIssue" => c.donation_txid \in Donations
  BY DEF Card
<1> QED BY <1>2, <1>3 DEF card

LEMMA TypeStep ==
  ASSUME TypeOK, [Next]_vars
  PROVE  TypeOK'
<1> USE DEF TypeOK
<1>1. CASE Block
  <2>1. height' \in 0 .. MaxHeight /\ height + 1 \in 1 .. MaxHeight
    BY <1>1, ChainAssumption DEF Block
  <2>2. confirmed' \in [Donations -> 0 .. MaxHeight]
    BY <1>1, <2>1 DEF Block
  <2>3. chain' \in Seq(Card)
    <3>1. CASE chain' = chain
      BY <3>1
    <3>2. CASE \E tx \in Txs : chain' = chain \o CardsOf(tx, height + 1)
      BY <3>2, <2>1, CardsOfType
    <3> QED BY <1>1, <3>1, <3>2 DEF Block
  <2> QED BY <1>1, <2>1, <2>2, <2>3 DEF Block, parser
<1>2. CASE Start
  BY <1>2 DEF Start
<1>3. ASSUME Reached
      PROVE  Append(valid_cards, card) \in Seq(Card) /\ pos + 1 \in Nat
  BY <1>3, CardType
<1>0. ASSUME Reached, Advance
      PROVE  last_processed_position' \in Nat
  <2>1. Len(cards) \in Nat /\ pos \in 1 .. Len(cards)
    BY <1>0 DEF Reached
  <2> QED BY <1>0, <2>1, PositionType DEF Advance
<1>4. CASE BundlePart
  BY <1>0, <1>3, <1>4 DEF BundlePart, Advance
<1>5. CASE Duplicate
  BY <1>0, <1>3, <1>5 DEF Duplicate, Advance
<1>6. CASE ValidIssue
  <2>1. Reached /\ card.type = "CardIssue"
    BY <1>6 DEF ValidIssue, Fresh
  <2>2. /\ Claim \in {tx.sender : tx \in Txs} \X Donations
        /\ card.txid \in 1 .. MaxHeight
    BY <2>1, CardType DEF Claim
  <2>3. valid_bundles' \subseteq 1 .. MaxHeight
    BY <1>6, <2>2 DEF ValidIssue
  <2>4. used_issuance_tuples' \subseteq {tx.sender : tx \in Txs} \X Donations
    BY <1>6, <2>2 DEF ValidIssue
  <2> QED BY <1>0, <1>3, <1>6, <2>1, <2>3, <2>4 DEF ValidIssue, Advance
<1>7. CASE InvalidIssue
  BY <1>0, <1>3, <1>7 DEF InvalidIssue, Fresh, Advance
<1>8. CASE Other
  BY <1>0, <1>3, <1>8 DEF Other, Advance
<1>9. CASE Return
  BY <1>9 DEF Return
<1>10. CASE UNCHANGED vars
  BY <1>10 DEF vars
<1> QED
  BY <1>1, <1>2, <1>4, <1>5, <1>6, <1>7, <1>8, <1>9, <1>10 DEF Next

-----------------------------------------------------------------------------
LEMMA InitInv == Init => IInv
<1> SUFFICES ASSUME Init PROVE IInv
  OBVIOUS
<1>1. TypeOK
  BY ChainAssumption DEF Init, TypeOK, NotConfirmed
<1>2. chain = <<>> /\ cards = <<>> /\ valid_cards = <<>> /\ parsed = <<>> /\ valid_bundles = {}
  BY DEF Init
<1>3. AddsUp /\ IssuedAsEntitled
  <2>1. \A d \in Donations : ClaimedOf(d) = {}
    BY <1>2 DEF ClaimedOf, IssuesOf
  <2>2. pos = 0
    BY DEF Init
  <2> QED BY <2>1, <2>2, SumEmpty DEF AddsUp, IssuedAsEntitled
<1> QED
  BY <1>1, <1>2, <1>3 DEF IInv, ChainSound, CardsSound, SameTx, Sorted, FromCards, UsedCovers,
                    BundlesSeen, ClaimedOnce, AllDue, IssuesOf

(* The chain's cards: those of a new block have a txid of their own.       *)
LEMMA ChainStep ==
  ASSUME IInv, [Next]_vars
  PROVE  ChainSound'
<1>1. TypeOK /\ ChainSound /\ TypeOK'
  BY TypeStep DEF IInv
<1>2. CASE UNCHANGED <<chain, height>>
  BY <1>1, <1>2 DEF ChainSound, SameTx, Sorted
<1>3. CASE Block
  <2>1. height \in Nat /\ height' = height + 1 /\ height + 1 \in 1 .. MaxHeight
    BY <1>1, <1>3, ChainAssumption DEF Block, TypeOK
  <2>2. CASE chain' = chain
    <3>1. \A i \in DOMAIN chain : chain[i].txid \in 1 .. MaxHeight
      BY <1>1 DEF TypeOK, Card
    <3> QED BY <1>1, <2>1, <2>2, <3>1 DEF ChainSound, SameTx, Sorted
  <2>3. ASSUME NEW tx \in Txs, chain' = chain \o CardsOf(tx, height + 1)
        PROVE  ChainSound'
    <3> DEFINE new == CardsOf(tx, height + 1)
    <3>1. new \in Seq(Card)
      BY <2>1, CardsOfType
    <3>2. \A i \in DOMAIN new :
            /\ new[i].txid = height + 1 /\ new[i].blocknum = height + 1
            /\ new[i].sender = tx.sender /\ new[i].type = tx.type
            /\ new[i].donation_txid = tx.donation
      BY <2>1, CardsOfType
    <3>3. \A i \in DOMAIN chain : chain[i].txid \in 1 .. height
      <4>1. \A i \in DOMAIN chain : chain[i].txid \in 1 .. MaxHeight
        BY <1>1 DEF TypeOK, Card
      <4> QED BY <1>1, <2>1, <4>1 DEF ChainSound
    <3> HIDE DEF new
    <3>4. \A i \in DOMAIN (chain') :
            \/ i \in DOMAIN chain /\ chain'[i] = chain[i]
            \/ \E k \in DOMAIN new : chain'[i] = new[k]
      <4>1. chain' = chain \o new
        BY <2>3 DEF new
      <4>2. chain \in Seq(Card)
        BY <1>1 DEF TypeOK
      <4>3. \A i \in 1 .. Len(chain) + Len(new) :
              i \in 1 .. Len(chain) \/ i - Len(chain) \in 1 .. Len(new)
        BY <3>1, <4>2
      <4> QED BY <3>1, <4>1, <4>2, <4>3
    <3>5. SameTx(chain')
      BY <1>1, <2>1, <3>2, <3>3, <3>4 DEF ChainSound, SameTx, Sorted
    <3>6. \A i \in DOMAIN (chain') : chain'[i].txid <= height'
      BY <2>1, <3>2, <3>3, <3>4
    <3>7. ASSUME NEW i \in DOMAIN (chain'), NEW j \in DOMAIN (chain'), i < j
          PROVE  chain'[i].txid <= chain'[j].txid
      <4>1. CASE j \in DOMAIN chain
        <5>1. i \in DOMAIN chain /\ chain'[i] = chain[i] /\ chain'[j] = chain[j]
          <6>1. DOMAIN (chain') = 1 .. Len(chain) + Len(new) /\ DOMAIN chain = 1 .. Len(chain)
                /\ Len(chain) \in Nat /\ Len(new) \in Nat
            BY <1>1, <2>3, <3>1 DEF TypeOK, new
          <6>2. i \in 1 .. Len(chain)
            BY <3>7, <4>1, <6>1
          <6> QED BY <1>1, <2>3, <3>1, <4>1, <6>1, <6>2 DEF TypeOK, new
        <5>2. Sorted(chain)
          BY <1>1 DEF ChainSound
        <5>3. chain[i].txid <= chain[j].txid
          BY <3>7, <4>1, <5>1, <5>2 DEF Sorted
        <5> QED BY <5>1, <5>3
      <4>2. CASE j \notin DOMAIN chain
        <5>1. chain'[j].txid = height + 1
          BY <3>2, <3>4, <4>2
        <5>2. chain'[i].txid \in 1 .. height + 1
          BY <2>1, <3>2, <3>3, <3>4
        <5> QED BY <2>1, <5>1, <5>2
      <4> QED BY <4>1, <4>2
    <3> QED BY <3>5, <3>6, <3>7 DEF ChainSound, Sorted
  <2> QED BY <1>3, <2>2, <2>3 DEF Block
<1> QED
  BY <1>2, <1>3 DEF Next, vars, Start, BundlePart, Duplicate, ValidIssue, InvalidIssue,
                    Other, Return, Advance

(* Donations stay where they are in the chain.                             *)
LEMMA DueStays ==
  ASSUME TypeOK, [Next]_vars, NEW c, c.donation_txid \in Donations, Due(c, confirmed)
  PROVE  Due(c, confirmed')
<1>1. CASE Block
  <2>1. confirmed[c.donation_txid] # NotConfirmed
    BY DEF Due, NotConfirmed
  <2>2. confirmed'[c.donation_txid] = confirmed[c.donation_txid]
    BY <1>1, <2>1 DEF Block, TypeOK
  <2> QED BY <2>2 DEF Due
<1>2. CASE UNCHANGED confirmed
  BY <1>2 DEF Due
<1> QED
  BY <1>1, <1>2 DEF Next, vars, Start, BundlePart, Duplicate, ValidIssue, InvalidIssue,
                    Other, Return, Advance

LEMMA IssuesAreNamed ==
  ASSUME NEW s \in Seq(Card), NEW i \in IssuesOf(s)
  PROVE  i \in DOMAIN s /\ s[i] \in Card /\ s[i].donation_txid \in Donations
<1>1. i \in DOMAIN s /\ s[i] \in Card /\ s[i].type = "CardIssue"
  BY DEF IssuesOf
<1>2. \A c \in Card : c.type = "CardIssue" => c.donation_txid \in Donations
  BY DEF Card
<1> QED BY <1>1, <1>2

(* Where valid_cards ends up when a card is appended. *)
LEMMA Appended ==
  ASSUME TypeOK, Reached, valid_cards' = Append(valid_cards, card)
  PROVE  /\ DOMAIN valid_cards \subseteq DOMAIN (valid_cards')
         /\ \A i \in DOMAIN valid_cards : valid_cards'[i] = valid_cards[i]
         /\ Len(valid_cards) + 1 \in DOMAIN (valid_cards')
         /\ valid_cards'[Len(valid_cards) + 1] = card
         /\ \A i \in DOMAIN (valid_cards') :
              i \in DOMAIN valid_cards \/ (i = Len(valid_cards) + 1 /\ valid_cards'[i] = card)
<1>1. valid_cards \in Seq(Card) /\ card \in Card
  BY CardType DEF TypeOK
<1> QED BY <1>1

(* A claim that passes is_valid_issuance is due. *)
LEMMA ValidIsDue ==
  ASSUME TypeOK, Reached, card.type = "CardIssue", NEW n, IsValidIssuance(card, n)
  PROVE  Due(card, confirmed)
<1>1. card.donation_txid \in Donations /\ card.blocknum \in 1 .. MaxHeight
  BY CardType
<1>2. confirmed[card.donation_txid] \in 0 .. MaxHeight
  BY <1>1 DEF TypeOK
<1>3. /\ confirmed[card.donation_txid] # 0
      /\ card.blocknum >= confirmed[card.donation_txid]
      /\ EndBlock # NoLimit => confirmed[card.donation_txid] <= EndBlock
      /\ StartBlock # 0 => confirmed[card.donation_txid] >= StartBlock
      /\ card.sender = DonorOf[card.donation_txid]
  BY DEF IsValidIssuance, CheckDonation, NotConfirmed, NoLimit
<1> QED BY <1>1, <1>2, <1>3, ChainAssumption DEF Due

(* What BundlePart appends agrees with the first card of its bundle.       *)
LEMMA PartOfBundle ==
  ASSUME IInv, Reached, card.type = "CardIssue", card.txid \in valid_bundles
  PROVE  \E i \in IssuesOf(valid_cards) :
           /\ valid_cards[i].txid = card.txid
           /\ valid_cards[i].sender = card.sender
           /\ valid_cards[i].donation_txid = card.donation_txid
           /\ valid_cards[i].blocknum = card.blocknum
<1>1. PICK i \in IssuesOf(valid_cards) : valid_cards[i].txid = card.txid
  BY DEF IInv, BundlesSeen
<1>2. PICK j \in DOMAIN cards : valid_cards[i] = cards[j]
  BY <1>1 DEF IInv, FromCards, IssuesOf
<1>3. pos \in DOMAIN cards /\ card = cards[pos]
  BY CardType DEF IInv
<1> QED BY <1>1, <1>2, <1>3 DEF IInv, CardsSound, SameTx, Sorted

(* Appending an issue that is due, and whose donor either has not claimed  *)
(* the donation before or did so with the same transaction.                *)
LEMMA IssueAdded ==
  ASSUME IInv, [Next]_vars, Reached, Due(card, confirmed), card.type = "CardIssue",
         valid_cards' = Append(valid_cards, card),
         UNCHANGED <<cards, parsed>>,
         used_issuance_tuples \subseteq used_issuance_tuples',
         Claim \in used_issuance_tuples',
         valid_bundles' \subseteq valid_bundles \cup {card.txid},
         \A i \in IssuesOf(valid_cards) :
           (/\ valid_cards[i].sender = card.sender
            /\ valid_cards[i].donation_txid = card.donation_txid)
             => valid_cards[i].txid = card.txid
  PROVE  (CardsSound /\ FromCards /\ UsedCovers /\ BundlesSeen /\ ClaimedOnce /\ AllDue)'
<1> DEFINE new == Len(valid_cards) + 1
<1>1. TypeOK
  BY DEF IInv
<1>2. /\ DOMAIN valid_cards \subseteq DOMAIN (valid_cards')
      /\ \A i \in DOMAIN valid_cards : valid_cards'[i] = valid_cards[i]
      /\ new \in DOMAIN (valid_cards') /\ valid_cards'[new] = card
      /\ \A i \in DOMAIN (valid_cards') :
           i \in DOMAIN valid_cards \/ (i = new /\ valid_cards'[i] = card)
  BY <1>1, Appended
<1> HIDE DEF new
<1>3. /\ new \in IssuesOf(valid_cards')
      /\ \A i \in IssuesOf(valid_cards) :
           i \in IssuesOf(valid_cards') /\ valid_cards'[i] = valid_cards[i]
      /\ \A i \in IssuesOf(valid_cards') :
           \/ i \in IssuesOf(valid_cards) /\ valid_cards'[i] = valid_cards[i]
           \/ i = new /\ valid_cards'[i] = card
  BY <1>2 DEF IssuesOf
<1>4. CardsSound' /\ FromCards'
  <2>1. pos \in DOMAIN cards /\ card = cards[pos]
    BY <1>1, CardType
  <2> QED BY <1>2, <2>1 DEF IInv, CardsSound, SameTx, Sorted, FromCards
<1>5. UsedCovers'
  BY <1>3 DEF IInv, UsedCovers, Claim
<1>6. BundlesSeen'
  <2>1. \A t \in valid_bundles : \E i \in IssuesOf(valid_cards) : valid_cards[i].txid = t
    BY DEF IInv, BundlesSeen
  <2>2. \A t \in valid_bundles' : \E i \in IssuesOf(valid_cards') : valid_cards'[i].txid = t
    BY <1>2, <1>3, <2>1
  <2> QED BY <2>2 DEF BundlesSeen
<1>7. ClaimedOnce'
  <2>1. \A i, j \in IssuesOf(valid_cards) :
          (/\ valid_cards[i].sender = valid_cards[j].sender
           /\ valid_cards[i].donation_txid = valid_cards[j].donation_txid)
            => valid_cards[i].txid = valid_cards[j].txid
    BY DEF IInv, ClaimedOnce
  <2>2. \A i, j \in IssuesOf(valid_cards') :
          (/\ valid_cards'[i].sender = valid_cards'[j].sender
           /\ valid_cards'[i].donation_txid = valid_cards'[j].donation_txid)
            => valid_cards'[i].txid = valid_cards'[j].txid
    <3>1. TAKE i, j \in IssuesOf(valid_cards')
    <3>2. CASE /\ i \in IssuesOf(valid_cards) /\ valid_cards'[i] = valid_cards[i]
               /\ j \in IssuesOf(valid_cards) /\ valid_cards'[j] = valid_cards[j]
      BY <2>1, <3>2
    <3>3. CASE /\ i \in IssuesOf(valid_cards) /\ valid_cards'[i] = valid_cards[i]
               /\ valid_cards'[j] = card
      BY <3>3
    <3>4. CASE /\ j \in IssuesOf(valid_cards) /\ valid_cards'[j] = valid_cards[j]
               /\ valid_cards'[i] = card
      BY <3>4
    <3>5. CASE valid_cards'[i] = card /\ valid_cards'[j] = card
      BY <3>5
    <3> QED BY <1>3, <3>1, <3>2, <3>3, <3>4, <3>5
  <2> QED BY <2>2 DEF ClaimedOnce
<1>8. AllDue'
  <2>1. card.donation_txid \in Donations
    BY <1>1, CardType
  <2>2. Due(card, confirmed')
    BY <1>1, <2>1, DueStays
  <2>3. \A i \in IssuesOf(valid_cards') : Due(valid_cards'[i], confirmed')
    <3>1. TAKE i \in IssuesOf(valid_cards')
    <3>2. CASE i \in IssuesOf(valid_cards) /\ valid_cards'[i] = valid_cards[i]
      <4>1. valid_cards[i].donation_txid \in Donations /\ Due(valid_cards[i], confirmed)
        BY <1>1, <3>2, IssuesAreNamed DEF TypeOK, IInv, AllDue
      <4>2. Due(valid_cards[i], confirmed')
        BY <1>1, <4>1, DueStays
      <4> QED BY <3>2, <4>2
    <3>3. CASE valid_cards'[i] = card
      BY <3>3, <2>2
    <3> QED BY <1>3, <3>2, <3>3
  <2>4. \A i \in IssuesOf(parsed) :
          parsed[i].donation_txid \in Donations /\ Due(parsed[i], confirmed')
    BY <1>1, DueStays DEF IInv, AllDue
  <2> QED BY <2>3, <2>4 DEF AllDue
<1> QED BY <1>4, <1>5, <1>6, <1>7, <1>8

(* Appending what is not an issue. *)
LEMMA OtherAdded ==
  ASSUME IInv, Other
  PROVE  (CardsSound /\ FromCards /\ UsedCovers /\ BundlesSeen /\ ClaimedOnce /\ AllDue)'
<1>1. TypeOK /\ Reached /\ card.type # "CardIssue"
  BY DEF IInv, Other
<1>2. valid_cards' = Append(valid_cards, card) /\ UNCHANGED <<cards, parsed, confirmed>>
      /\ UNCHANGED <<valid_bundles, used_issuance_tuples>>
  BY DEF Other, Advance
<1>3. /\ DOMAIN valid_cards \subseteq DOMAIN (valid_cards')
      /\ \A i \in DOMAIN valid_cards : valid_cards'[i] = valid_cards[i]
      /\ \A i \in DOMAIN (valid_cards') :
           i \in DOMAIN valid_cards \/ valid_cards'[i] = card
  BY <1>1, <1>2, Appended
<1>4. /\ IssuesOf(valid_cards') = IssuesOf(valid_cards)
      /\ \A i \in IssuesOf(valid_cards) : valid_cards'[i] = valid_cards[i]
  BY <1>1, <1>3 DEF IssuesOf
<1>5. CardsSound' /\ FromCards'
  <2>1. pos \in DOMAIN cards /\ card = cards[pos]
    BY <1>1, CardType
  <2> QED BY <1>2, <1>3, <2>1 DEF IInv, CardsSound, SameTx, Sorted, FromCards
<1>6. UsedCovers'
  BY <1>2, <1>4 DEF IInv, UsedCovers
<1>9. ClaimedOnce'
  <2>1. \A i, j \in IssuesOf(valid_cards) :
          (/\ valid_cards'[i].sender = valid_cards'[j].sender
           /\ valid_cards'[i].donation_txid = valid_cards'[j].donation_txid)
            => valid_cards'[i].txid = valid_cards'[j].txid
    BY <1>4 DEF IInv, ClaimedOnce
  <2> QED BY <1>4, <2>1 DEF ClaimedOnce
<1>7. BundlesSeen'
  BY <1>2, <1>4 DEF IInv, BundlesSeen
<1>8. AllDue'
  BY <1>2, <1>4 DEF IInv, AllDue
<1> QED BY <1>5, <1>6, <1>9, <1>7, <1>8

(* Steps that leave the lists alone, or let the chain grow. *)
LEMMA ListsKept ==
  ASSUME IInv, [Next]_vars,
         UNCHANGED <<cards, valid_cards, valid_bundles, used_issuance_tuples>>,
         parsed' = parsed \/ parsed' = valid_cards
  PROVE  (CardsSound /\ FromCards /\ UsedCovers /\ BundlesSeen /\ ClaimedOnce /\ AllDue)'
<1>1. TypeOK /\ TypeOK'
  BY TypeStep DEF IInv
<1>2. \A i \in IssuesOf(valid_cards) :
        valid_cards[i].donation_txid \in Donations /\ Due(valid_cards[i], confirmed')
  <2>1. \A i \in IssuesOf(valid_cards) :
          valid_cards[i].donation_txid \in Donations /\ Due(valid_cards[i], confirmed)
    BY <1>1, IssuesAreNamed DEF IInv, AllDue, TypeOK
  <2> QED BY <1>1, <2>1, DueStays
<1>3. \A i \in IssuesOf(parsed) :
        parsed[i].donation_txid \in Donations /\ Due(parsed[i], confirmed')
  BY <1>1, DueStays DEF IInv, AllDue
<1>4. AllDue'
  <2>1. CASE parsed' = parsed
    BY <1>2, <1>3, <2>1 DEF AllDue
  <2>2. CASE parsed' = valid_cards
    BY <1>2, <2>2 DEF AllDue
  <2> QED BY <2>1, <2>2
<1>5. CardsSound' /\ FromCards'
  BY DEF IInv, CardsSound, SameTx, Sorted, FromCards
<1>6. UsedCovers' /\ BundlesSeen'
  BY DEF IInv, UsedCovers, BundlesSeen
<1>7. ClaimedOnce'
  BY DEF IInv, ClaimedOnce
<1> QED BY <1>4, <1>5, <1>6, <1>7

LEMMA ParserStep ==
  ASSUME IInv, [Next]_vars
  PROVE  (CardsSound /\ FromCards /\ UsedCovers /\ BundlesSeen /\ ClaimedOnce /\ AllDue)'
<1>0. TypeOK
  BY DEF IInv
<1>1. CASE Start
  <2>1. /\ cards' = chain /\ valid_cards' = <<>> /\ valid_bundles' = {}
        /\ UNCHANGED <<parsed, confirmed>>
    BY <1>1 DEF Start
  <2>2. IssuesOf(valid_cards') = {} /\ DOMAIN (valid_cards') = {}
    BY <2>1 DEF IssuesOf
  <2>3. CardsSound'
    BY <2>1 DEF IInv, ChainSound, CardsSound
  <2>4. AllDue'
    BY <2>1, <2>2 DEF IInv, AllDue
  <2> QED
    BY <2>1, <2>2, <2>3, <2>4 DEF FromCards, UsedCovers, BundlesSeen, ClaimedOnce
<1>2. CASE BundlePart
  <2>1. /\ Reached /\ card.type = "CardIssue" /\ card.txid \in valid_bundles
        /\ valid_cards' = Append(valid_cards, card) /\ UNCHANGED <<cards, parsed>>
        /\ UNCHANGED <<valid_bundles, used_issuance_tuples>>
    BY <1>2 DEF BundlePart, Advance
  <2>2. PICK k \in IssuesOf(valid_cards) :
          /\ valid_cards[k].txid = card.txid /\ valid_cards[k].sender = card.sender
          /\ valid_cards[k].donation_txid = card.donation_txid
          /\ valid_cards[k].blocknum = card.blocknum
    BY <2>1, PartOfBundle
  <2>3. Due(card, confirmed)
    BY <2>2 DEF IInv, AllDue, Due
  <2>4. Claim \in used_issuance_tuples
    BY <2>2 DEF IInv, UsedCovers, Claim
  <2>5. \A i \in IssuesOf(valid_cards) :
          (/\ valid_cards[i].sender = card.sender
           /\ valid_cards[i].donation_txid = card.donation_txid)
            => valid_cards[i].txid = card.txid
    BY <2>2 DEF IInv, ClaimedOnce
  <2> QED BY <2>1, <2>3, <2>4, <2>5, IssueAdded
<1>3. CASE ValidIssue
  <2>1. /\ Reached /\ card.type = "CardIssue" /\ Claim \notin used_issuance_tuples
        /\ IsValidIssuance(card, IssuedAmount)
        /\ valid_cards' = Append(valid_cards, card) /\ UNCHANGED <<cards, parsed>>
        /\ valid_bundles' \subseteq valid_bundles \cup {card.txid}
        /\ used_issuance_tuples' = used_issuance_tuples \cup {Claim}
    BY <1>3 DEF ValidIssue, Fresh, Unused, Advance
  <2>2. Due(card, confirmed)
    BY <1>0, <2>1, ValidIsDue
  <2>3. \A i \in IssuesOf(valid_cards) :
          ~(/\ valid_cards[i].sender = card.sender
            /\ valid_cards[i].donation_txid = card.donation_txid)
    BY <2>1 DEF IInv, UsedCovers, Claim
  <2> QED BY <2>1, <2>2, <2>3, IssueAdded
<1>4. CASE Other
  BY <1>4, OtherAdded
<1>5. CASE \/ Block \/ Duplicate \/ InvalidIssue \/ Return \/ UNCHANGED vars
  BY <1>5, ListsKept
     DEF Block, parser, Duplicate, InvalidIssue, Return, Advance, vars
<1> QED BY <1>1, <1>2, <1>3, <1>4, <1>5 DEF Next

-----------------------------------------------------------------------------
(* What is issued for a donation.                                          *)

LEMMA AmountsAreNumbers ==
  ASSUME NEW s \in Seq(Card), NEW T \in SUBSET (DOMAIN s)
  PROVE  Numbers(T, Amounts(s)) /\ \A i \in T : Amounts(s)[i] = s[i].amount
<1>1. \A c \in Card : c.amount \in Nat
  BY DEF Card
<1>2. \A i \in DOMAIN s : s[i] \in Card /\ Amounts(s)[i] = s[i].amount
  BY DEF Amounts
<1>3. \A i \in T : Amounts(s)[i] \in Nat
  BY <1>1, <1>2
<1>4. IsFiniteSet(T)
  <2>1. DOMAIN s = 1 .. Len(s) /\ Len(s) \in Nat
    OBVIOUS
  <2>2. IsFiniteSet(1 .. Len(s))
    BY <2>1, FS_Interval
  <2> QED BY <2>1, <2>2, FS_Subset
<1> QED BY <1>2, <1>3, <1>4 DEF Numbers

(* What a card adds to the valid issues for a donation. *)
IssuedBy(c, d) == IF c.type = "CardIssue" /\ c.donation_txid = d THEN c.amount ELSE 0

LEMMA GivenGrows ==
  ASSUME TypeOK, Reached, valid_cards' = Append(valid_cards, card), NEW d
  PROVE  Sum(Given(d), Amounts(valid_cards))' =
           Sum(Given(d), Amounts(valid_cards)) + IssuedBy(card, d)
<1> DEFINE new == Len(valid_cards) + 1
           f == Amounts(valid_cards)
           g == Amounts(valid_cards')
<1>1. valid_cards \in Seq(Card) /\ valid_cards' \in Seq(Card) /\ card \in Card
  BY CardType DEF TypeOK
<1>2. /\ DOMAIN valid_cards \subseteq DOMAIN (valid_cards')
      /\ \A i \in DOMAIN valid_cards : valid_cards'[i] = valid_cards[i]
      /\ new \in DOMAIN (valid_cards') /\ valid_cards'[new] = card
      /\ \A i \in DOMAIN (valid_cards') :
           i \in DOMAIN valid_cards \/ (i = new /\ valid_cards'[i] = card)
  BY Appended
<1>3. new \notin DOMAIN valid_cards
  BY <1>1
<1> HIDE DEF new
<1>4. /\ Given(d) \in SUBSET (DOMAIN valid_cards) /\ Given(d)' \in SUBSET (DOMAIN (valid_cards'))
  BY DEF Given, IssuesOf
<1>5. /\ Numbers(Given(d), f) /\ \A i \in Given(d) : f[i] = valid_cards[i].amount
  BY <1>1, <1>4, AmountsAreNumbers
<1>6. /\ Numbers(Given(d)', g) /\ \A i \in Given(d)' : g[i] = valid_cards'[i].amount
  BY <1>1, <1>4, AmountsAreNumbers
<1> HIDE DEF f, g
<1>7. Given(d) \subseteq Given(d)' /\ \A i \in Given(d) : g[i] = f[i]
  <2>1. Given(d) \subseteq Given(d)'
    BY <1>2 DEF Given, IssuesOf
  <2> QED BY <1>2, <1>4, <1>5, <1>6, <2>1
<1>8. Sum(Given(d), f) = Sum(Given(d), g) /\ Sum(Given(d), f) \in Nat
  BY <1>5, <1>7, SumAgree, SumType
<1>9. CASE card.type = "CardIssue" /\ card.donation_txid = d
  <2>1. Given(d)' = Given(d) \cup {new} /\ new \notin Given(d) /\ g[new] = card.amount
    <3>1. new \in Given(d)'
      BY <1>2, <1>9 DEF Given, IssuesOf
    <3>2. \A i \in Given(d)' : i \in Given(d) \/ i = new
      BY <1>2 DEF Given, IssuesOf
    <3> QED BY <1>2, <1>3, <1>4, <1>6, <1>7, <3>1, <3>2
  <2>2. Numbers(Given(d), g) /\ g[new] \in Nat
    BY <1>6, <1>7, <2>1, FS_Subset DEF Numbers
  <2>3. Sum(Given(d) \cup {new}, g) = Sum(Given(d), g) + g[new]
    BY <2>1, <2>2, SumAdd
  <2> QED BY <1>8, <1>9, <2>1, <2>3 DEF IssuedBy, f, g
<1>10. CASE ~(card.type = "CardIssue" /\ card.donation_txid = d)
  <2>1. Given(d)' = Given(d)
    BY <1>2, <1>7, <1>10 DEF Given, IssuesOf
  <2> QED BY <1>8, <1>10, <2>1 DEF IssuedBy, f, g
<1> QED BY <1>9, <1>10

LEMMA ComingInCards ==
  ASSUME TypeOK, pos # 0, NEW d
  PROVE  Coming(d) \in SUBSET (DOMAIN cards) /\ Numbers(Coming(d), Amounts(cards))
<1>1. cards \in Seq(Card) /\ pos \in Nat /\ pos >= 1
  BY DEF TypeOK
<1>2. \A k \in pos .. Len(cards) : k \in DOMAIN cards
  BY <1>1
<1>3. Coming(d) \in SUBSET (DOMAIN cards)
  BY <1>2 DEF Coming
<1> QED BY <1>1, <1>3, AmountsAreNumbers

(* The card that is looked at does not come any more. *)
LEMMA ComingShrinks ==
  ASSUME TypeOK, Reached, Advance, valid_bundles' = valid_bundles, NEW d
  PROVE  /\ Coming(d)' = Coming(d) \ {pos}
         /\ Sum(Coming(d), Amounts(cards)) =
              Sum(Coming(d), Amounts(cards))'
              + (IF card.txid \in valid_bundles THEN IssuedBy(card, d) ELSE 0)
<1>1. /\ pos \in Nat /\ pos # 0 /\ pos \in 1 .. Len(cards) /\ Len(cards) \in Nat
      /\ pos' = pos + 1 /\ cards' = cards /\ card = cards[pos]
  BY DEF TypeOK, Reached, Advance, card
<1>2. \A k : k \in pos + 1 .. Len(cards) <=> (k \in pos .. Len(cards) /\ k # pos)
  BY <1>1
<1>3. Coming(d)' = Coming(d) \ {pos}
  BY <1>1, <1>2 DEF Coming
<1>4. pos \in Coming(d) <=>
        (card.type = "CardIssue" /\ card.txid \in valid_bundles /\ card.donation_txid = d)
  BY <1>1 DEF Coming
<1>5. Numbers(Coming(d), Amounts(cards))
  BY <1>1, ComingInCards
<1>6. Sum(Coming(d), Amounts(cards))' = Sum(Coming(d) \ {pos}, Amounts(cards))
  BY <1>1, <1>3
<1>7. CASE pos \in Coming(d)
  <2>1. Amounts(cards)[pos] = card.amount
    BY <1>1 DEF Amounts
  <2>2. Sum(Coming(d), Amounts(cards)) = Sum(Coming(d) \ {pos}, Amounts(cards)) + card.amount
    BY <1>5, <1>7, <2>1, SumRemove
  <2> QED BY <1>3, <1>4, <1>6, <1>7, <2>2 DEF IssuedBy
<1>8. CASE pos \notin Coming(d)
  <2>1. Coming(d) \ {pos} = Coming(d)
    BY <1>8
  <2>2. Sum(Coming(d), Amounts(cards)) \in Nat
    BY <1>5, SumType
  <2> QED BY <1>3, <1>4, <1>6, <1>8, <2>1, <2>2 DEF IssuedBy
<1> QED BY <1>7, <1>8

LEMMA InAllTypes ==
  ASSUME TypeOK, pos # 0, NEW d
  PROVE  /\ Sum(Given(d), Amounts(valid_cards)) \in Nat
         /\ Sum(Coming(d), Amounts(cards)) \in Nat
<1>1. valid_cards \in Seq(Card) /\ Given(d) \in SUBSET (DOMAIN valid_cards)
  BY DEF TypeOK, Given, IssuesOf
<1>2. Numbers(Given(d), Amounts(valid_cards))
  BY <1>1, AmountsAreNumbers
<1> QED BY <1>2, ComingInCards, SumType

(* A card that is left out, or belongs to a valid bundle, or is no issue,  *)
(* changes no total.                                                       *)
LEMMA InAllKept ==
  ASSUME IInv, Duplicate \/ InvalidIssue \/ BundlePart \/ Other, NEW d \in Donations
  PROVE  InAll(d)' = InAll(d)
<1>1. /\ TypeOK /\ Reached /\ Advance /\ valid_bundles' = valid_bundles /\ pos # 0
  BY DEF IInv, TypeOK, Duplicate, InvalidIssue, Fresh, BundlePart, Other, Advance, Reached
<1> DEFINE G == Sum(Given(d), Amounts(valid_cards))
           C == Sum(Coming(d), Amounts(cards))
           b == IssuedBy(card, d)
<1>2. G \in Nat /\ C \in Nat
  BY <1>1, InAllTypes
<1>3. C = C' + (IF card.txid \in valid_bundles THEN b ELSE 0)
  BY <1>1, ComingShrinks
<1>4. b \in Nat
  <2>1. card \in Card
    BY <1>1, CardType
  <2>2. \A c \in Card : c.amount \in Nat
    BY DEF Card
  <2> QED BY <2>1, <2>2 DEF IssuedBy
<1>t. C' \in Nat
  <2>1. Coming(d)' \subseteq Coming(d) /\ Numbers(Coming(d), Amounts(cards)) /\ cards' = cards
    BY <1>1, ComingShrinks, ComingInCards DEF Advance
  <2>2. Numbers(Coming(d)', Amounts(cards))
    BY <2>1, SumSubset
  <2> QED BY <2>1, <2>2, SumType
<1>5. CASE Duplicate \/ InvalidIssue
  <2>1. card.txid \notin valid_bundles /\ valid_cards' = valid_cards
    BY <1>5 DEF Duplicate, InvalidIssue, Fresh
  <2>2. G' = G
    BY <2>1 DEF Given
  <2> QED BY <1>2, <1>3, <1>t, <2>1, <2>2 DEF InAll
<1>6. CASE BundlePart
  <2>1. card.txid \in valid_bundles /\ G' = G + b
    BY <1>1, <1>6, GivenGrows DEF BundlePart
  <2> HIDE DEF b, G, C
  <2>2. G' + C' = G + C
    BY <1>2, <1>3, <1>4, <1>t, <2>1
  <2> QED BY <2>2 DEF InAll, G, C
<1>7. CASE Other
  <2>1. b = 0 /\ G' = G + b
    BY <1>1, <1>7, GivenGrows DEF Other, IssuedBy
  <2> HIDE DEF b, G, C
  <2>2. G' + C' = G + C
    BY <1>2, <1>3, <1>4, <1>t, <2>1
  <2> QED BY <2>2 DEF InAll, G, C
<1> QED BY <1>5, <1>6, <1>7

(* The cards that agree with the one looked at on the transaction.         *)
LEMMA OfTransaction ==
  ASSUME IInv, Reached, NEW k \in DOMAIN cards, cards[k].txid = card.txid
  PROVE  /\ cards[k].sender = card.sender /\ cards[k].donation_txid = card.donation_txid
         /\ cards[k].type = card.type
<1>1. pos \in DOMAIN cards /\ card = cards[pos]
  BY CardType DEF IInv
<1> QED BY <1>1 DEF IInv, CardsSound, SameTx

(* A donation whose claim is found valid has not been claimed before.      *)
LEMMA FirstClaim ==
  ASSUME IInv, ValidIssue
  PROVE  Given(card.donation_txid) = {} /\ Coming(card.donation_txid) = {}
<1>1. /\ Reached /\ card.type = "CardIssue" /\ Claim \notin used_issuance_tuples
      /\ IsValidIssuance(card, IssuedAmount) /\ TypeOK /\ pos # 0
  BY DEF ValidIssue, Fresh, Unused, IInv, Reached
<1>2. card.sender = DonorOf[card.donation_txid]
  BY <1>1 DEF IsValidIssuance
<1>3. ASSUME NEW i \in Given(card.donation_txid)
      PROVE  FALSE
  <2>1. i \in IssuesOf(valid_cards) /\ valid_cards[i].donation_txid = card.donation_txid
    BY DEF Given
  <2>2. valid_cards[i].sender = DonorOf[card.donation_txid]
    BY <2>1 DEF IInv, AllDue, Due
  <2>3. <<valid_cards[i].sender, valid_cards[i].donation_txid>> \in used_issuance_tuples
    BY <2>1 DEF IInv, UsedCovers
  <2> QED BY <1>1, <1>2, <2>1, <2>2, <2>3 DEF Claim
<1>4. ASSUME NEW k \in Coming(card.donation_txid)
      PROVE  FALSE
  <2>1. /\ k \in DOMAIN cards /\ cards[k].txid \in valid_bundles
        /\ cards[k].donation_txid = card.donation_txid
    BY <1>1, ComingInCards DEF Coming
  <2>2. PICK i \in IssuesOf(valid_cards) : valid_cards[i].txid = cards[k].txid
    BY <2>1 DEF IInv, BundlesSeen
  <2>3. PICK j \in DOMAIN cards : valid_cards[i] = cards[j]
    BY <2>2 DEF IInv, FromCards, IssuesOf
  <2>4. valid_cards[i].donation_txid = card.donation_txid
    BY <2>1, <2>2, <2>3 DEF IInv, CardsSound, SameTx
  <2> QED BY <1>3, <2>2, <2>4 DEF Given
<1> QED BY <1>3, <1>4

(* What is still to come once a claim is found valid: the other cards of   *)
(* its bundle, or nothing.                                                 *)
LEMMA ComingAfterClaim ==
  ASSUME IInv, ValidIssue, NEW d, d = card.donation_txid
  PROVE  Coming(d)' =
           IF Bundle # NoBundle THEN pos + 1 .. LastOfBundle(cards, pos) ELSE {}
<1> DEFINE last == LastOfBundle(cards, pos)
<1>1. /\ Reached /\ card.type = "CardIssue" /\ TypeOK /\ Advance
      /\ valid_bundles' =
           IF Bundle # NoBundle THEN valid_bundles \cup {card.txid} ELSE valid_bundles
  BY DEF ValidIssue, Fresh, IInv
<1>2. /\ pos \in Nat /\ pos \in 1 .. Len(cards) /\ Len(cards) \in Nat
      /\ pos' = pos + 1 /\ cards' = cards /\ card = cards[pos]
      /\ DOMAIN cards = 1 .. Len(cards)
  BY <1>1 DEF TypeOK, Reached, Advance, card
<1>3. \A k \in pos + 1 .. Len(cards) :
        ~(/\ cards[k].type = "CardIssue" /\ cards[k].txid \in valid_bundles
          /\ cards[k].donation_txid = d)
  <2>1. \A k \in pos + 1 .. Len(cards) : k \in pos .. Len(cards)
    BY <1>2
  <2> QED BY <2>1, FirstClaim DEF Coming
<1>4. Coming(d)' =
        {k \in pos + 1 .. Len(cards) :
           /\ cards[k].type = "CardIssue" /\ cards[k].txid \in valid_bundles'
           /\ cards[k].donation_txid = d}
  BY <1>2 DEF Coming
<1>5. CASE Bundle = NoBundle
  BY <1>1, <1>3, <1>4, <1>5
<1>6. CASE Bundle # NoBundle
  <2>1. ByTransaction(cards)
    <3>1. \A k \in DOMAIN cards : cards[k].txid \in Nat
      BY <1>1 DEF TypeOK, Card
    <3> QED BY <1>2, <3>1 DEF ByTransaction, IInv, CardsSound, SameTx, Sorted
  <2>2. last \in pos .. Len(cards)
    BY <1>2, BundleEnds
  <2>3. ASSUME NEW k \in pos + 1 .. Len(cards)
        PROVE  (cards[k].txid = card.txid) <=> k <= last
    <3>1. k \in pos .. Len(cards)
      BY <1>2
    <3> QED BY <1>2, <2>1, <3>1, BundleOfTransaction
  <2> HIDE DEF last
  <2>4. ASSUME NEW k \in pos + 1 .. Len(cards)
        PROVE  (/\ cards[k].type = "CardIssue" /\ cards[k].txid \in valid_bundles'
                /\ cards[k].donation_txid = d) <=> k <= last
    <3>1. k \in DOMAIN cards
      BY <1>2
    <3>2. CASE cards[k].txid = card.txid
      BY <1>1, <1>6, <2>3, <3>1, <3>2, OfTransaction
    <3>3. CASE cards[k].txid # card.txid
      BY <1>1, <1>3, <2>3, <3>1, <3>3
    <3> QED BY <3>2, <3>3
  <2>5. Coming(d)' = {k \in pos + 1 .. Len(cards) : k <= last}
    BY <1>4, <2>4
  <2>6. {k \in pos + 1 .. Len(cards) : k <= last} = pos + 1 .. last
    BY <1>2, <2>2
  <2> QED BY <1>6, <2>5, <2>6 DEF last
<1> QED BY <1>5, <1>6

(* The amount that a valid claim is checked with is what the donation      *)
(* entitles to, or nothing.                                                *)
LEMMA AmountDue ==
  ASSUME ValidIssue
  PROVE  IssuedAmount \in {0, Entitlement(card.donation_txid)}
BY DEF ValidIssue, IsValidIssuance, CheckDonation

(* A valid claim, with the cards that follow it, issues what it should.    *)
LEMMA ClaimIssues ==
  ASSUME IInv, ValidIssue, NEW d, d = card.donation_txid
  PROVE  InAll(d)' = IssuedAmount
<1> DEFINE last == LastOfBundle(cards, pos)
           f == Amounts(cards)
<1>1. /\ Reached /\ card.type = "CardIssue" /\ TypeOK /\ Advance
      /\ valid_cards' = Append(valid_cards, card)
  BY DEF ValidIssue, Fresh, IInv
<1>2. /\ pos \in Nat /\ pos \in 1 .. Len(cards) /\ Len(cards) \in Nat
      /\ cards' = cards /\ card = cards[pos] /\ DOMAIN cards = 1 .. Len(cards)
      /\ cards \in Seq(Card)
  BY <1>1 DEF TypeOK, Reached, Advance, card
<1>3. Sum(Given(d), Amounts(valid_cards))' = card.amount
  <2>1. Given(d) = {}
    BY FirstClaim
  <2>2. Sum(Given(d), Amounts(valid_cards)) = 0
    BY <2>1, SumEmpty
  <2>3. IssuedBy(card, d) = card.amount
    BY <1>1 DEF IssuedBy
  <2>4. Sum(Given(d), Amounts(valid_cards))' = 0 + card.amount
    BY <1>1, <2>2, <2>3, GivenGrows
  <2>5. card.amount \in Nat
    <3>1. \A c \in Card : c.amount \in Nat
      BY DEF Card
    <3> QED BY <1>1, <3>1, CardType
  <2> QED BY <2>4, <2>5
<1>4. InAll(d)' = card.amount + Sum(Coming(d)', f)
  BY <1>2, <1>3 DEF InAll
<1>5. f[pos] = card.amount /\ f[pos] \in Nat
  <2>1. \A c \in Card : c.amount \in Nat
    BY DEF Card
  <2>2. card \in Card
    BY <1>1, CardType
  <2> QED BY <1>2, <2>1, <2>2 DEF Amounts
<1> HIDE DEF f
<1>6. CASE Bundle = NoBundle
  <2>1. Sum(Coming(d)', f) = 0
    BY <1>6, ComingAfterClaim, SumEmpty
  <2>2. IssuedAmount = card.amount
    BY <1>6 DEF IssuedAmount
  <2> QED BY <1>4, <1>5, <2>1, <2>2
<1>7. CASE Bundle # NoBundle
  <2>1. Coming(d)' = pos + 1 .. last
    BY <1>7, ComingAfterClaim
  <2>2. last \in pos .. Len(cards)
    BY <1>2, BundleEnds
  <2>3. IssuedAmount = Sum(pos .. last, f)
    BY <1>7 DEF IssuedAmount, Bundle, BundleAmount, BundleValue, Amounts, f
  <2> HIDE DEF last
  <2>4. pos .. last = (pos + 1 .. last) \cup {pos} /\ pos \notin pos + 1 .. last
    BY <1>2, <2>2
  <2>5. pos + 1 .. last \in SUBSET (DOMAIN cards)
    BY <1>2, <2>2
  <2>6. Numbers(pos + 1 .. last, f)
    BY <1>2, <2>5, AmountsAreNumbers DEF f
  <2>7. Sum(pos .. last, f) = Sum(pos + 1 .. last, f) + f[pos]
    <3> DEFINE rest == pos + 1 .. last
    <3>1. Numbers(rest, f) /\ pos \notin rest /\ pos .. last = rest \cup {pos}
      BY <2>4, <2>6
    <3> HIDE DEF rest
    <3>2. Sum(rest \cup {pos}, f) = Sum(rest, f) + f[pos]
      BY <1>5, <3>1, SumAdd
    <3>3. Sum(pos .. last, f) = Sum(rest, f) + f[pos]
      BY <3>1, <3>2
    <3> QED BY <3>3 DEF rest
  <2>8. Sum(pos + 1 .. last, f) \in Nat
    BY <2>6, SumType
  <2> QED BY <1>4, <1>5, <2>1, <2>3, <2>7, <2>8
<1> QED BY <1>6, <1>7

(* It changes nothing for other donations. *)
LEMMA OthersKept ==
  ASSUME IInv, ValidIssue, NEW d \in Donations, d # card.donation_txid
  PROVE  InAll(d)' = InAll(d)
<1>1. /\ Reached /\ card.type = "CardIssue" /\ TypeOK /\ Advance /\ pos # 0
      /\ valid_cards' = Append(valid_cards, card)
      /\ valid_bundles \subseteq valid_bundles'
      /\ valid_bundles' \subseteq valid_bundles \cup {card.txid}
  BY DEF ValidIssue, Fresh, IInv, Reached
<1>2. /\ pos \in Nat /\ pos \in 1 .. Len(cards) /\ Len(cards) \in Nat
      /\ pos' = pos + 1 /\ cards' = cards /\ card = cards[pos]
      /\ DOMAIN cards = 1 .. Len(cards)
  BY <1>1 DEF TypeOK, Reached, Advance, card
<1>3. Sum(Given(d), Amounts(valid_cards))' = Sum(Given(d), Amounts(valid_cards))
  <2>1. IssuedBy(card, d) = 0
    BY DEF IssuedBy
  <2>2. Sum(Given(d), Amounts(valid_cards))' = Sum(Given(d), Amounts(valid_cards)) + 0
    BY <1>1, <2>1, GivenGrows
  <2> QED BY <1>1, <2>2, InAllTypes
<1>4. Coming(d)' = Coming(d)
  <2>1. Coming(d)' =
          {k \in pos + 1 .. Len(cards) :
             /\ cards[k].type = "CardIssue" /\ cards[k].txid \in valid_bundles'
             /\ cards[k].donation_txid = d}
    BY <1>2 DEF Coming
  <2>2. \A k : k \in pos + 1 .. Len(cards) => k \in pos .. Len(cards) /\ k \in DOMAIN cards
    BY <1>2
  <2>3. \A k : k \in pos .. Len(cards) => k = pos \/ k \in pos + 1 .. Len(cards)
    BY <1>2
  <2>4. ASSUME NEW k \in DOMAIN cards, cards[k].donation_txid = d
        PROVE  cards[k].txid # card.txid
    BY <1>1, <2>4, OfTransaction
  <2> QED BY <1>1, <1>2, <2>1, <2>2, <2>3, <2>4 DEF Coming
<1> QED BY <1>2, <1>3, <1>4 DEF InAll

LEMMA AddsUpStep ==
  ASSUME IInv, [Next]_vars
  PROVE  AddsUp' /\ IssuedAsEntitled'
<1>1. TypeOK /\ TypeOK'
  BY TypeStep DEF IInv
<1>2. /\ pos # 0 => \A d \in Donations : InAll(d) \in {0, Entitlement(d)}
      /\ IssuedAsEntitled
  BY DEF IInv, AddsUp, InAll
<1>3. CASE Duplicate \/ InvalidIssue \/ BundlePart \/ Other
  <2>1. pos # 0 /\ parsed' = parsed
    BY <1>3 DEF Duplicate, InvalidIssue, Fresh, BundlePart, Other, Advance, Reached
  <2>2. \A d \in Donations : InAll(d)' \in {0, Entitlement(d)}
    BY <1>2, <1>3, <2>1, InAllKept
  <2> QED BY <1>2, <2>1, <2>2 DEF AddsUp, InAll, IssuedAsEntitled, ClaimedOf
<1>4. CASE ValidIssue
  <2>1. pos # 0 /\ parsed' = parsed /\ Reached
    BY <1>4 DEF ValidIssue, Fresh, Advance, Reached
  <2>2. ASSUME NEW d \in Donations
        PROVE  InAll(d)' \in {0, Entitlement(d)}
    <3>1. CASE d = card.donation_txid
      BY <1>4, <3>1, ClaimIssues, AmountDue
    <3>2. CASE d # card.donation_txid
      BY <1>2, <1>4, <2>1, <3>2, OthersKept
    <3> QED BY <3>1, <3>2
  <2> QED BY <1>2, <2>1, <2>2 DEF AddsUp, InAll, IssuedAsEntitled, ClaimedOf
<1>5. CASE Start
  <2>1. /\ cards' = chain /\ valid_cards' = <<>> /\ valid_bundles' = {} /\ parsed' = parsed
    BY <1>5 DEF Start
  <2>2. ASSUME NEW d \in Donations
        PROVE  InAll(d)' = 0
    <3>1. Given(d)' = {} /\ Coming(d)' = {}
      BY <2>1 DEF Given, IssuesOf, Coming
    <3>2. Sum(Given(d)', Amounts(valid_cards)') = 0 /\ Sum(Coming(d)', Amounts(cards)') = 0
      BY <3>1, SumEmpty
    <3> QED BY <3>2 DEF InAll
  <2> QED BY <1>2, <2>1, <2>2 DEF AddsUp, InAll, IssuedAsEntitled, ClaimedOf
<1>6. CASE Return
  <2>1. pos > Len(cards) /\ pos' = 0 /\ parsed' = valid_cards /\ valid_cards' = valid_cards
    BY <1>6 DEF Return
  <2>2. pos # 0 /\ pos \in Nat /\ Len(cards) \in Nat
    BY <1>1, <2>1 DEF TypeOK
  <2>3. ASSUME NEW d \in Donations
        PROVE  Sum(Given(d), Amounts(valid_cards)) \in {0, Entitlement(d)}
    <3>1. Coming(d) = {}
      BY <2>1, <2>2 DEF Coming
    <3>2. InAll(d) = Sum(Given(d), Amounts(valid_cards)) + 0
      BY <3>1, SumEmpty DEF InAll
    <3>3. Sum(Given(d), Amounts(valid_cards)) \in Nat
      BY <1>1, <2>2, InAllTypes
    <3>4. InAll(d) = Sum(Given(d), Amounts(valid_cards))
      BY <3>2, <3>3
    <3> QED BY <1>2, <2>2, <3>4
  <2>4. IssuedAsEntitled'
    BY <2>1, <2>3 DEF IssuedAsEntitled, ClaimedOf, Given, Amounts
  <2> QED BY <2>1, <2>4 DEF AddsUp
<1>7. CASE Block \/ UNCHANGED vars
  <2>1. UNCHANGED parser
    BY <1>7 DEF Block, vars, parser
  <2>2. ASSUME NEW d \in Donations
        PROVE  InAll(d)' = InAll(d)
    BY <2>1 DEF parser, InAll, Given, Coming
  <2> QED BY <1>2, <2>1, <2>2 DEF parser, AddsUp, InAll, IssuedAsEntitled, ClaimedOf
<1> QED BY <1>3, <1>4, <1>5, <1>6, <1>7 DEF Next

LEMMA Inductive == Spec => []IInv
<1>1. IInv /\ [Next]_vars => IInv'
  BY TypeStep, ChainStep, ParserStep, AddsUpStep DEF IInv
<1> QED BY <1>1, InitInv, PTL DEF Spec

-----------------------------------------------------------------------------
(* The parser's variables keep their types, whatever the chain brings.     *)
THEOREM TypeCorrect == Spec => []TypeOK
<1>1. IInv => TypeOK
  BY DEF IInv
<1> QED BY <1>1, Inductive, PTL

(* A donor's claims of one donation that at_parser accepts all come with   *)
(* one transaction.                                                        *)
THEOREM OneTransactionClaims == Spec => []ClaimedOnce
<1>1. IInv => ClaimedOnce
  BY DEF IInv
<1> QED BY <1>1, Inductive, PTL

(* What at_parser returns only has issues by the donor, for a donation     *)
(* within the deck's blocks that is not after the card.                    *)
THEOREM ValidClaimsAreDue == Spec => []ClaimsAreDue
<1>1. IInv => ClaimsAreDue
  <2> SUFFICES ASSUME IInv, NEW d \in Donations, NEW i \in ClaimedOf(d)
               PROVE  /\ parsed[i].sender = DonorOf[d]
                      /\ confirmed[d] \in 1 .. parsed[i].blocknum
                      /\ EndBlock # NoLimit => confirmed[d] <= EndBlock
                      /\ confirmed[d] >= StartBlock
    BY DEF ClaimsAreDue
  <2>1. i \in IssuesOf(parsed) /\ parsed[i].donation_txid = d
    BY DEF ClaimedOf
  <2> QED BY <2>1 DEF IInv, AllDue, Due
<1> QED BY <1>1, Inductive, PTL

(* What at_parser returns issues for every donation exactly what it        *)
(* entitles to, or nothing, whatever claims, bundles and repetitions the   *)
(* chain has.                                                              *)
THEOREM DonationsAreIssuedOnce == Spec => []IssuedAsEntitled
<1>1. IInv => IssuedAsEntitled
  BY DEF IInv
<1> QED BY <1>1, Inductive, PTL

-----------------------------------------------------------------------------
(* What at_parser makes of the chain, told without its walk: an issue is   *)
(* good if it would be valid as the first claim, where the first card of a *)
(* transaction stands for all of it, and the first good issue of a claim   *)
(* is valid, with the rest of its transaction if it is the first card.     *)
TxCards(k) == {i \in DOMAIN chain : chain[i].txid = chain[k].txid}
Leads(k) == \A i \in TxCards(k) : k <= i
Several(k) == \E i \in TxCards(k) : i # k
Checked(k) == IF Leads(k) THEN Sum(TxCards(k), Amounts(chain)) ELSE chain[k].amount
Good(k) == chain[k].type = "CardIssue" /\ IsValidIssuance(chain[k], Checked(k))
SameClaim(j, k) == /\ chain[j].sender = chain[k].sender
                   /\ chain[j].donation_txid = chain[k].donation_txid
Opens(k) == Good(k) /\ \A j \in 1 .. k - 1 : Good(j) => ~SameClaim(j, k)
Valid(k) ==
  \/ chain[k].type # "CardIssue"
  \/ Opens(k)
  \/ \E j \in 1 .. k - 1 : Opens(j) /\ Leads(j) /\ chain[j].txid = chain[k].txid
ValidTo(n) == {k \in 1 .. n : Valid(k)}

(* The first n cards are those of whole transactions. *)
Prefix(n) ==
  /\ n \in 0 .. Len(chain)
  /\ \A i \in 1 .. n, j \in n + 1 .. Len(chain) : chain[i].txid < chain[j].txid

BlockIsTx == \A i \in DOMAIN chain : chain[i].blocknum = chain[i].txid
OnChain == Prefix(Len(cards)) /\ \A i \in DOMAIN cards : cards[i] = chain[i]
WalkSound ==
  pos # 0 =>
    /\ pos \in 1 .. Len(cards) + 1
    /\ Remembers(cards, pos - 1, last_processed_position)
    /\ Lists(valid_cards, chain, ValidTo(pos - 1))
    /\ \A s, d :
         <<s, d>> \in used_issuance_tuples <=>
           \E k \in 1 .. pos - 1 :
             Good(k) /\ chain[k].sender = s /\ chain[k].donation_txid = d
    /\ \A t :
         t \in valid_bundles <=>
           \E k \in 1 .. pos - 1 : Opens(k) /\ Leads(k) /\ Several(k) /\ chain[k].txid = t
ParsedSound == \E n \in 0 .. Len(cards) : Prefix(n) /\ Lists(parsed, chain, ValidTo(n))

ResultInv == BlockIsTx /\ OnChain /\ WalkSound /\ ParsedSound

LEMMA ChainNumbers ==
  ASSUME IInv
  PROVE  /\ height \in Nat /\ height \in 0 .. MaxHeight /\ MaxHeight \in Nat
         /\ Len(chain) \in Nat /\ DOMAIN chain = 1 .. Len(chain)
         /\ Len(cards) \in Nat /\ DOMAIN cards = 1 .. Len(cards)
         /\ \A i \in DOMAIN chain :
              /\ chain[i] \in Card /\ chain[i].txid \in 1 .. MaxHeight /\ chain[i].txid \in Nat
              /\ chain[i].txid <= height /\ chain[i].amount \in Nat
              /\ chain[i].type = "CardIssue" => chain[i].donation_txid \in Donations
         /\ \A i, j \in DOMAIN chain :
              /\ i < j => chain[i].txid <= chain[j].txid
              /\ chain[i].txid = chain[j].txid =>
                   /\ chain[i].sender = chain[j].sender /\ chain[i].type = chain[j].type
                   /\ chain[i].donation_txid = chain[j].donation_txid
<1>1. TypeOK /\ ChainSound
  BY DEF IInv
<1>2. chain \in Seq(Card) /\ cards \in Seq(Card) /\ height \in 0 .. MaxHeight /\ MaxHeight \in Nat
  BY <1>1, ChainAssumption DEF TypeOK
<1>3. \A c \in Card : /\ c.txid \in 1 .. MaxHeight /\ c.amount \in Nat
                      /\ c.type = "CardIssue" => c.donation_txid \in Donations
  BY DEF Card
<1>4. \A i \in DOMAIN chain : chain[i] \in Card
  BY <1>2
<1>5. \A i \in DOMAIN chain :
        chain[i].txid \in 1 .. MaxHeight /\ chain[i].txid \in Nat /\ chain[i].txid <= height
  BY <1>1, <1>2, <1>3, <1>4 DEF ChainSound
<1>6. \A i, j \in DOMAIN chain :
        /\ i < j => chain[i].txid <= chain[j].txid
        /\ chain[i].txid = chain[j].txid =>
             /\ chain[i].sender = chain[j].sender /\ chain[i].type = chain[j].type
             /\ chain[i].donation_txid = chain[j].donation_txid
  BY <1>1 DEF ChainSound, SameTx, Sorted
<1> QED BY <1>2, <1>3, <1>4, <1>5, <1>6

(* The chain only grows at its end, by cards of a new block.               *)
LEMMA ChainGrows ==
  ASSUME IInv, BlockIsTx, [Next]_vars
  PROVE  /\ Len(chain) <= Len(chain') /\ Len(chain') \in Nat
         /\ DOMAIN (chain') = 1 .. Len(chain')
         /\ \A k \in DOMAIN chain : k \in DOMAIN (chain') /\ chain'[k] = chain[k]
         /\ \A k \in DOMAIN (chain') \ DOMAIN chain :
              /\ k > Len(chain)
              /\ chain'[k].txid = height + 1 /\ chain'[k].blocknum = height + 1
<1>1. CASE chain' = chain
  BY <1>1, ChainNumbers
<1>2. ASSUME NEW tx \in Txs, Block, chain' = chain \o CardsOf(tx, height + 1)
      PROVE  /\ Len(chain) <= Len(chain') /\ Len(chain') \in Nat
             /\ DOMAIN (chain') = 1 .. Len(chain')
             /\ \A k \in DOMAIN chain : k \in DOMAIN (chain') /\ chain'[k] = chain[k]
             /\ \A k \in DOMAIN (chain') \ DOMAIN chain :
                  /\ k > Len(chain)
                  /\ chain'[k].txid = height + 1 /\ chain'[k].blocknum = height + 1
  <2> DEFINE new == CardsOf(tx, height + 1)
  <2>1. height + 1 \in 1 .. MaxHeight
    <3>1. height < MaxHeight
      BY <1>2 DEF Block
    <3> QED BY <3>1, ChainNumbers
  <2>2. /\ new \in Seq(Card)
        /\ \A i \in DOMAIN new : new[i].txid = height + 1 /\ new[i].blocknum = height + 1
    BY <2>1, CardsOfType
  <2>3. chain \in Seq(Card) /\ chain' = chain \o new
    BY <1>2 DEF IInv, TypeOK
  <2> HIDE DEF new
  <2>4. /\ Len(chain') = Len(chain) + Len(new) /\ DOMAIN (chain') = 1 .. Len(chain')
        /\ Len(new) \in Nat /\ DOMAIN new = 1 .. Len(new)
        /\ Len(chain) \in Nat /\ DOMAIN chain = 1 .. Len(chain)
    BY <2>2, <2>3
  <2>5. \A k \in DOMAIN chain : k \in DOMAIN (chain') /\ chain'[k] = chain[k]
    BY <2>2, <2>3, <2>4
  <2>6. ASSUME NEW k \in DOMAIN (chain') \ DOMAIN chain
        PROVE  /\ k > Len(chain)
               /\ chain'[k].txid = height + 1 /\ chain'[k].blocknum = height + 1
    <3>1. k > Len(chain) /\ k - Len(chain) \in DOMAIN new
      BY <2>4, <2>6
    <3>2. chain'[k] = new[k - Len(chain)]
      BY <2>2, <2>3, <2>4, <2>6, <3>1
    <3> QED BY <2>2, <3>1, <3>2
  <2> QED BY <2>4, <2>5, <2>6
<1>3. chain' = chain \/ (Block /\ \E tx \in Txs : chain' = chain \o CardsOf(tx, height + 1))
  BY DEF Next, vars, Block, Start, BundlePart, Duplicate, ValidIssue, InvalidIssue,
         Other, Return, Advance
<1> QED BY <1>1, <1>2, <1>3

LEMMA BlockIsTxStep ==
  ASSUME IInv, BlockIsTx, [Next]_vars
  PROVE  BlockIsTx'
<1> SUFFICES ASSUME NEW i \in DOMAIN (chain') PROVE chain'[i].blocknum = chain'[i].txid
  BY DEF BlockIsTx
<1> QED BY ChainGrows DEF BlockIsTx

(* A claim of a card in the chain is judged now as it will be judged later.*)
LEMMA JudgedForEver ==
  ASSUME IInv, BlockIsTx, [Next]_vars, NEW k \in DOMAIN chain, chain[k].type = "CardIssue", NEW a
  PROVE  IsValidIssuance(chain[k], a)' <=> IsValidIssuance(chain[k], a)
<1> DEFINE d == chain[k].donation_txid
<1>1. /\ d \in Donations /\ chain'[k] = chain[k] /\ height \in Nat
      /\ chain[k].blocknum \in Nat /\ chain[k].blocknum <= height
  BY ChainNumbers, ChainGrows DEF BlockIsTx
<1>2. confirmed'[d] = confirmed[d] \/ (confirmed[d] = NotConfirmed /\ confirmed'[d] = height + 1)
  <2>1. CASE Block
    BY <1>1, <2>1 DEF Block
  <2>2. CASE UNCHANGED confirmed
    BY <2>2
  <2> QED BY <2>1, <2>2 DEF Next, vars, Start, BundlePart, Duplicate, ValidIssue, InvalidIssue,
                            Other, Return, Advance
<1>3. IsValidIssuance(chain[k], a) <=>
        /\ confirmed[d] # NotConfirmed
        /\ IF a # 0 THEN Entitlement(d) = a ELSE ValueOf[d] # 0
        /\ chain[k].blocknum >= confirmed[d]
        /\ EndBlock # NoLimit => confirmed[d] <= EndBlock
        /\ StartBlock # NoLimit => confirmed[d] >= StartBlock
        /\ chain[k].sender = DonorOf[d]
  BY DEF IsValidIssuance, CheckDonation
<1>4. IsValidIssuance(chain[k], a)' <=>
        /\ confirmed'[d] # NotConfirmed
        /\ IF a # 0 THEN Entitlement(d) = a ELSE ValueOf[d] # 0
        /\ chain[k].blocknum >= confirmed'[d]
        /\ EndBlock # NoLimit => confirmed'[d] <= EndBlock
        /\ StartBlock # NoLimit => confirmed'[d] >= StartBlock
        /\ chain[k].sender = DonorOf[d]
  BY <1>1 DEF IsValidIssuance, CheckDonation, Entitlement
<1> HIDE DEF d
<1>5. CASE confirmed'[d] = confirmed[d]
  BY <1>3, <1>4, <1>5
<1>6. CASE confirmed[d] = NotConfirmed /\ confirmed'[d] = height + 1
  <2>1. ~(chain[k].blocknum >= height + 1)
    BY <1>1
  <2> QED BY <1>3, <1>4, <1>6, <2>1
<1> QED BY <1>2, <1>5, <1>6

(* So is every card. *)
LEMMA ValidForEver ==
  ASSUME IInv, BlockIsTx, [Next]_vars, NEW k \in DOMAIN chain
  PROVE  /\ Leads(k)' <=> Leads(k)
         /\ Several(k)' <=> Several(k)
         /\ Good(k)' <=> Good(k)
         /\ Opens(k)' <=> Opens(k)
         /\ Valid(k)' <=> Valid(k)
<1>1. \A j \in DOMAIN chain : j \in DOMAIN (chain') /\ chain'[j] = chain[j]
  BY ChainGrows
<1>2. \A j \in DOMAIN chain : TxCards(j)' = TxCards(j)
  <2> SUFFICES ASSUME NEW j \in DOMAIN chain,
                      NEW i \in DOMAIN (chain') \ DOMAIN chain
               PROVE  chain'[i].txid # chain[j].txid
    BY <1>1 DEF TxCards
  <2>1. chain'[i].txid = height + 1
    BY ChainGrows
  <2>2. chain[j].txid \in Nat /\ chain[j].txid <= height /\ height \in Nat
    BY ChainNumbers
  <2> QED BY <2>1, <2>2
<1>3. \A j \in DOMAIN chain : (Leads(j)' <=> Leads(j)) /\ (Several(j)' <=> Several(j))
  BY <1>2 DEF Leads, Several
<1>4. \A j \in DOMAIN chain : Checked(j)' = Checked(j)
  <2> SUFFICES ASSUME NEW j \in DOMAIN chain PROVE Checked(j)' = Checked(j)
    OBVIOUS
  <2>1. \A i \in TxCards(j) : Amounts(chain)[i] = Amounts(chain')[i]
    BY <1>1 DEF TxCards, Amounts
  <2>2. Sum(TxCards(j), Amounts(chain)) = Sum(TxCards(j), Amounts(chain'))
    BY <2>1, SumAgree
  <2>3. Sum(TxCards(j), Amounts(chain))' = Sum(TxCards(j), Amounts(chain'))
    BY <1>2
  <2> QED BY <1>1, <1>3, <2>2, <2>3 DEF Checked
<1>5. \A j \in DOMAIN chain : Good(j)' <=> Good(j)
  <2> SUFFICES ASSUME NEW j \in DOMAIN chain PROVE Good(j)' <=> Good(j)
    OBVIOUS
  <2>1. CASE chain[j].type # "CardIssue"
    BY <1>1, <2>1 DEF Good
  <2>2. CASE chain[j].type = "CardIssue"
    <3> DEFINE a == Checked(j)
    <3>1. Checked(j)' = a /\ chain'[j] = chain[j]
      BY <1>1, <1>4
    <3>2. IsValidIssuance(chain[j], Checked(j))' <=> IsValidIssuance(chain[j], a)
      <4> DEFINE V(x) == IsValidIssuance(chain[j], x)
      <4>1. \A x : V(x)' <=> V(x)
        BY <2>2, JudgedForEver
      <4> QED BY <3>1, <4>1 DEF IsValidIssuance, CheckDonation
    <3> QED BY <1>1, <2>2, <3>2 DEF Good
  <2> QED BY <2>1, <2>2
<1>6. \A j \in DOMAIN chain : \A i \in 1 .. j - 1 : i \in DOMAIN chain
  BY ChainNumbers
<1>7. \A j \in DOMAIN chain : Opens(j)' <=> Opens(j)
  BY <1>1, <1>5, <1>6 DEF Opens, SameClaim
<1>8. Valid(k)' <=> Valid(k)
  BY <1>1, <1>3, <1>6, <1>7 DEF Valid
<1> QED BY <1>3, <1>5, <1>7, <1>8

(* What has been read of the chain's lists stays as it is.                 *)
LEMMA PrefixStays ==
  ASSUME IInv, BlockIsTx, [Next]_vars, NEW n, Prefix(n)
  PROVE  Prefix(n)' /\ n \in 0 .. Len(chain)
<1>1. /\ n \in 0 .. Len(chain) /\ Len(chain) \in Nat /\ Len(chain) <= Len(chain')
      /\ Len(chain') \in Nat
  BY ChainNumbers, ChainGrows DEF Prefix
<1>2. ASSUME NEW i \in 1 .. n, NEW j \in n + 1 .. Len(chain')
      PROVE  chain'[i].txid < chain'[j].txid
  <2>1. i \in DOMAIN chain /\ chain'[i] = chain[i]
    BY <1>1, <1>2, ChainNumbers, ChainGrows
  <2>2. CASE j \in DOMAIN chain
    <3>1. j \in n + 1 .. Len(chain) /\ chain'[j] = chain[j]
      BY <1>2, <2>2, ChainNumbers, ChainGrows
    <3> QED BY <1>2, <2>1, <3>1 DEF Prefix
  <2>3. CASE j \notin DOMAIN chain
    <3>1. j \in DOMAIN (chain') \ DOMAIN chain
      BY <1>1, <1>2, <2>3, ChainGrows
    <3>2. chain'[j].txid = height + 1
      BY <3>1, ChainGrows
    <3>3. chain[i].txid \in Nat /\ chain[i].txid <= height /\ height \in Nat
      BY <2>1, ChainNumbers
    <3> QED BY <2>1, <3>2, <3>3
  <2> QED BY <2>2, <2>3
<1> QED BY <1>1, <1>2 DEF Prefix

LEMMA ListStays ==
  ASSUME IInv, BlockIsTx, [Next]_vars, NEW n \in 0 .. Len(chain), NEW s,
         Lists(s, chain, ValidTo(n))
  PROVE  ValidTo(n)' = ValidTo(n) /\ Lists(s, chain', ValidTo(n))
<1>1. \A k \in 1 .. n : k \in DOMAIN chain
  BY ChainNumbers
<1>2. \A k \in 1 .. n : chain'[k] = chain[k] /\ (Valid(k)' <=> Valid(k))
  BY <1>1, ChainGrows, ValidForEver
<1>3. ValidTo(n)' = ValidTo(n)
  BY <1>2 DEF ValidTo
<1>4. \A k \in ValidTo(n) : chain'[k] = chain[k]
  BY <1>2 DEF ValidTo
<1> QED BY <1>3, <1>4, ListsSame

-----------------------------------------------------------------------------
(* One card *)

LEMMA CardsFacts ==
  ASSUME IInv
  PROVE  Len(cards) \in Nat /\ ByTransaction(cards) /\ OneType(cards)
<1>1. cards \in Seq(Card) /\ SameTx(cards) /\ Sorted(cards)
  BY DEF IInv, TypeOK, CardsSound
<1>2. \A k \in 1 .. Len(cards) : k \in DOMAIN cards /\ cards[k].txid \in Nat
  <2>1. \A c \in Card : c.txid \in Nat
    BY DEF Card
  <2> QED BY <1>1, <2>1
<1> QED BY <1>1, <1>2 DEF ByTransaction, OneType, SameTx, Sorted

(* The card being looked at, with its transaction. *)
LEMMA CardAt ==
  ASSUME IInv, OnChain, Reached
  PROVE  /\ pos \in Nat /\ pos # 0 /\ pos \in 1 .. Len(cards) /\ pos \in DOMAIN chain
         /\ card = chain[pos] /\ Len(cards) <= Len(chain)
<1>1. pos \in 1 .. Len(cards) /\ Len(cards) \in 0 .. Len(chain)
  BY DEF Reached, OnChain, Prefix
<1> QED BY <1>1, ChainNumbers DEF OnChain, card

LEMMA HeadIsFirst ==
  ASSUME IInv, OnChain, Reached
  PROVE  /\ Leads(pos) <=> (pos - 1 # 0 => cards[pos - 1].txid # cards[pos].txid)
         /\ Leads(pos) => TxCards(pos) = pos .. LastOfBundle(cards, pos)
         /\ LastOfBundle(cards, pos) \in pos .. Len(cards)
<1> DEFINE end == LastOfBundle(cards, pos)
<1>1. /\ pos \in Nat /\ pos # 0 /\ pos \in 1 .. Len(cards) /\ pos \in DOMAIN chain
      /\ Len(cards) <= Len(chain)
      /\ Len(cards) \in Nat /\ Len(chain) \in Nat /\ DOMAIN chain = 1 .. Len(chain)
  BY CardAt, ChainNumbers
<1>2. \A i \in 1 .. Len(cards) : i \in DOMAIN chain /\ chain[i] = cards[i]
  BY <1>1, ChainNumbers DEF OnChain
<1>3. end \in pos .. Len(cards)
  BY <1>1, BundleEnds
<1>4. \A k \in pos .. Len(cards) : cards[k].txid = cards[pos].txid <=> k <= end
  BY <1>1, CardsFacts, BundleOfTransaction
<1>5. \A i \in TxCards(pos) : i \in 1 .. Len(cards)
  <2> SUFFICES ASSUME NEW i \in TxCards(pos), ~(i \in 1 .. Len(cards)) PROVE FALSE
    OBVIOUS
  <2>1. i \in Len(cards) + 1 .. Len(chain) /\ chain[i].txid = chain[pos].txid
    BY <1>1 DEF TxCards
  <2>2. chain[pos].txid < chain[i].txid
    BY <1>1, <2>1 DEF OnChain, Prefix
  <2>3. chain[pos].txid \in Nat
    BY <1>1, ChainNumbers
  <2> QED BY <2>1, <2>2, <2>3
<1> HIDE DEF end
<1>6. ASSUME pos - 1 # 0 => cards[pos - 1].txid # cards[pos].txid
      PROVE  Leads(pos)
  <2> SUFFICES ASSUME NEW i \in TxCards(pos), i < pos PROVE FALSE
    BY <1>1, <1>5 DEF Leads
  <2>1. i \in 1 .. Len(cards) /\ cards[i].txid = cards[pos].txid
    BY <1>1, <1>2, <1>5 DEF TxCards
  <2>2. pos # 1 => cards[pos - 1].txid # cards[pos].txid
    BY <1>1, <1>6
  <2> QED BY <1>1, <2>1, <2>2, CardsFacts, FirstOfTransaction
<1>7. ASSUME Leads(pos), pos - 1 # 0
      PROVE  cards[pos - 1].txid # cards[pos].txid
  <2>1. pos - 1 \in 1 .. Len(cards) /\ ~(pos <= pos - 1)
    BY <1>1, <1>7
  <2> QED BY <1>1, <1>2, <1>7, <2>1 DEF Leads, TxCards
<1>8. ASSUME Leads(pos)
      PROVE  TxCards(pos) = pos .. end
  <2>1. \A i \in TxCards(pos) : i \in pos .. end
    <3> SUFFICES ASSUME NEW i \in TxCards(pos) PROVE i \in pos .. end
      OBVIOUS
    <3>1. i \in 1 .. Len(cards) /\ pos <= i /\ cards[i].txid = cards[pos].txid
      BY <1>1, <1>2, <1>5, <1>8 DEF Leads, TxCards
    <3>2. i \in pos .. Len(cards)
      BY <1>1, <3>1
    <3> QED BY <1>1, <1>3, <1>4, <3>1, <3>2
  <2>2. \A i \in pos .. end : i \in TxCards(pos)
    <3> SUFFICES ASSUME NEW i \in pos .. end PROVE i \in TxCards(pos)
      OBVIOUS
    <3>1. i \in pos .. Len(cards) /\ i <= end /\ i \in 1 .. Len(cards)
      BY <1>1, <1>3
    <3> QED BY <1>1, <1>2, <1>4, <3>1 DEF TxCards
  <2> QED BY <2>1, <2>2
<1> QED BY <1>3, <1>6, <1>7, <1>8 DEF end

(* What process_cards_by_bundle yields with an issue of the list is what   *)
(* its transaction in the chain comes to.                                  *)
LEMMA IssueFound ==
  ASSUME IInv, OnChain, Reached, card.type = "CardIssue",
         Remembers(cards, pos - 1, last_processed_position)
  PROVE  /\ Bundle # NoBundle <=> Leads(pos) /\ Several(pos)
         /\ IssuedAmount = Checked(pos)
<1> DEFINE end == LastOfBundle(cards, pos)
           n == pos - 1
           f == Amounts(chain)
<1>1. /\ pos \in Nat /\ pos # 0 /\ pos \in 1 .. Len(cards) /\ pos \in DOMAIN chain
      /\ card = chain[pos] /\ cards[pos] = chain[pos]
      /\ Len(cards) \in Nat /\ Len(cards) <= Len(chain) /\ Len(chain) \in Nat
      /\ DOMAIN chain = 1 .. Len(chain) /\ DOMAIN cards = 1 .. Len(cards)
  BY CardAt, ChainNumbers DEF OnChain
<1>2. n \in Nat /\ n < Len(cards) /\ n + 1 = pos
  BY <1>1
<1>3. /\ Leads(pos) <=> (n # 0 => cards[n].txid # cards[pos].txid)
      /\ Leads(pos) => TxCards(pos) = pos .. end
      /\ end \in pos .. Len(cards)
  BY HeadIsFirst
<1>4. Bundle = IF Leads(pos) /\ end # pos THEN BundleValue(cards, pos) ELSE NoBundle
  <2>1. BundleAmount(cards, n + 1, last_processed_position) =
          IF /\ cards[n + 1].type = "CardIssue"
             /\ n # 0 => cards[n].txid # cards[n + 1].txid
             /\ LastOfBundle(cards, n + 1) # n + 1
          THEN BundleValue(cards, n + 1) ELSE NoBundle
    BY <1>2, CardsFacts, BundleFound
  <2> HIDE DEF n
  <2> QED BY <1>1, <1>2, <1>3, <2>1 DEF Bundle
<1>5. /\ chain \in Seq(Card) /\ TxCards(pos) \in SUBSET (DOMAIN chain)
      /\ Numbers(TxCards(pos), f) /\ f[pos] = chain[pos].amount /\ f[pos] \in Nat
  <2>1. chain \in Seq(Card) /\ TxCards(pos) \in SUBSET (DOMAIN chain)
    BY DEF IInv, TypeOK, TxCards
  <2> QED BY <1>1, <2>1, AmountsAreNumbers, ChainNumbers DEF Amounts
<1>6. Leads(pos) => BundleValue(cards, pos) = Sum(TxCards(pos), f)
  <2> SUFFICES ASSUME Leads(pos) PROVE BundleValue(cards, pos) = Sum(TxCards(pos), f)
    OBVIOUS
  <2>1. \A k \in pos .. end : k \in 1 .. Len(cards) /\ k \in 1 .. Len(chain)
    BY <1>1, <1>3
  <2>2. \A k \in pos .. end : Amounts(cards)[k] = f[k]
    BY <1>1, <2>1 DEF Amounts, OnChain
  <2>3. Sum(pos .. end, Amounts(cards)) = Sum(pos .. end, f)
    <3> HIDE DEF end, f
    <3> QED BY <2>2, SumAgree
  <2> QED BY <1>3, <2>3 DEF BundleValue, Amounts
<1>7. Leads(pos) => (Several(pos) <=> end # pos)
  <2> SUFFICES ASSUME Leads(pos) PROVE Several(pos) <=> end # pos
    OBVIOUS
  <2>1. end # pos => end \in TxCards(pos)
    BY <1>1, <1>3
  <2>2. end = pos => TxCards(pos) = {pos}
    BY <1>1, <1>3
  <2> HIDE DEF end
  <2> QED BY <2>1, <2>2 DEF Several
<1>8. Leads(pos) /\ end = pos => Sum(TxCards(pos), f) = chain[pos].amount
  <2>1. end = pos => pos .. end = {pos}
    BY <1>1, <1>3
  <2>2. Sum({pos}, f) = f[pos]
    <3> HIDE DEF f
    <3> QED BY <1>5, SumOne
  <2> HIDE DEF f, end
  <2> QED BY <1>3, <1>5, <2>1, <2>2
<1>9. Sum(TxCards(pos), f) \in Nat
  <2> HIDE DEF f
  <2> QED BY <1>5, SumType
<1> HIDE DEF end, n
<1>10. NoBundle \notin Nat
  BY DEF NoBundle
<1>11. Bundle # NoBundle <=> Leads(pos) /\ Several(pos)
  BY <1>4, <1>6, <1>7, <1>9, <1>10
<1>12. IssuedAmount = Checked(pos)
  BY <1>1, <1>4, <1>6, <1>8, <1>9, <1>10 DEF IssuedAmount, Checked
<1> QED BY <1>11, <1>12

(* Looking at a card extends the walk by what the card is.                 *)
LEMMA WalkOn ==
  ASSUME IInv, ResultInv, [Next]_vars, Reached, Advance,
         valid_cards' = IF Valid(pos) THEN Append(valid_cards, card) ELSE valid_cards,
         \A s, d :
           <<s, d>> \in used_issuance_tuples' <=>
             \/ <<s, d>> \in used_issuance_tuples
             \/ Good(pos) /\ card.sender = s /\ card.donation_txid = d,
         \A t :
           t \in valid_bundles' <=>
             \/ t \in valid_bundles
             \/ Opens(pos) /\ Leads(pos) /\ Several(pos) /\ card.txid = t
  PROVE  WalkSound'
<1>1. /\ pos \in Nat /\ pos # 0 /\ pos \in 1 .. Len(cards) /\ pos \in DOMAIN chain
      /\ card = chain[pos] /\ Len(cards) <= Len(chain) /\ Len(cards) \in Nat
      /\ Len(chain) \in Nat /\ DOMAIN chain = 1 .. Len(chain)
      /\ BlockIsTx /\ OnChain /\ WalkSound
  BY CardAt, ChainNumbers DEF ResultInv
<1>2. /\ pos' = pos + 1 /\ cards' = cards /\ chain' = chain
      /\ last_processed_position' = ProcessedPosition(cards, pos, last_processed_position)
      /\ pos' # 0 /\ pos' - 1 = pos /\ pos' \in 1 .. Len(cards) + 1
  BY <1>1 DEF Advance
<1>3. \A k \in 1 .. pos :
        /\ k \in DOMAIN chain
        /\ Leads(k)' <=> Leads(k)
        /\ Several(k)' <=> Several(k)
        /\ Good(k)' <=> Good(k)
        /\ Opens(k)' <=> Opens(k)
        /\ Valid(k)' <=> Valid(k)
  <2>1. \A k \in 1 .. pos : k \in DOMAIN chain
    BY <1>1
  <2> QED BY <1>1, <2>1, ValidForEver
<1>4. \A k : k \in 1 .. pos <=> k \in 1 .. pos - 1 \/ k = pos
  BY <1>1
<1>5. Remembers(cards, pos, last_processed_position')
  <2> DEFINE n == pos - 1
  <2>1. n \in Nat /\ n < Len(cards) /\ n + 1 = pos
    BY <1>1
  <2>2. Remembers(cards, n, last_processed_position)
    BY <1>1 DEF WalkSound
  <2> HIDE DEF n
  <2>3. Remembers(cards, n + 1, ProcessedPosition(cards, n + 1, last_processed_position))
    BY <2>1, <2>2, CardsFacts, RemembersNext
  <2> QED BY <1>2, <2>1, <2>3
<1>6. Lists(valid_cards', chain, ValidTo(pos))
  <2>1. Lists(valid_cards, chain, ValidTo(pos - 1))
    BY <1>1 DEF WalkSound
  <2>2. CASE Valid(pos)
    <3> DEFINE P == ValidTo(pos - 1)
    <3>1. P \in SUBSET Nat /\ \A k \in P : k < pos
      BY <1>1 DEF ValidTo
    <3>2. ValidTo(pos) = P \cup {pos}
      BY <1>4, <2>2 DEF ValidTo
    <3>3. valid_cards \in Seq(Card) /\ chain[pos] \in Card
      BY <1>1, ChainNumbers DEF IInv, TypeOK
    <3> HIDE DEF P
    <3>4. Lists(Append(valid_cards, chain[pos]), chain, P \cup {pos})
      <4>1. Lists(valid_cards, chain, P)
        BY <2>1 DEF P
      <4> QED BY <1>1, <3>1, <3>3, <4>1, ListsAppend
    <3> QED BY <1>1, <2>2, <3>2, <3>4
  <2>3. CASE ~Valid(pos)
    <3>1. ValidTo(pos) = ValidTo(pos - 1)
      BY <1>4, <2>3 DEF ValidTo
    <3> QED BY <2>1, <2>3, <3>1
  <2> QED BY <2>2, <2>3
<1>7. {k \in 1 .. pos : Valid(k)'} = ValidTo(pos)
  BY <1>3 DEF ValidTo
<1>8. ASSUME NEW s, NEW d
      PROVE  <<s, d>> \in used_issuance_tuples' <=>
               \E k \in 1 .. pos :
                 Good(k)' /\ chain[k].sender = s /\ chain[k].donation_txid = d
  <2>1. <<s, d>> \in used_issuance_tuples <=>
          \E k \in 1 .. pos - 1 : Good(k) /\ chain[k].sender = s /\ chain[k].donation_txid = d
    BY <1>1 DEF WalkSound
  <2> QED BY <1>1, <1>3, <1>4, <2>1
<1>9. ASSUME NEW t
      PROVE  t \in valid_bundles' <=>
               \E k \in 1 .. pos :
                 Opens(k)' /\ Leads(k)' /\ Several(k)' /\ chain[k].txid = t
  <2>1. t \in valid_bundles <=>
          \E k \in 1 .. pos - 1 : Opens(k) /\ Leads(k) /\ Several(k) /\ chain[k].txid = t
    BY <1>1 DEF WalkSound
  <2> QED BY <1>1, <1>3, <1>4, <2>1
<1>10. ValidTo(pos - 1)' = ValidTo(pos)
  BY <1>2, <1>7 DEF ValidTo
<1>11. Remembers(cards, pos - 1, last_processed_position)'
  BY <1>2, <1>5 DEF Remembers
<1>12. Lists(valid_cards, chain, ValidTo(pos - 1))'
  <2>1. Lists(valid_cards', chain', ValidTo(pos - 1)')
    BY <1>2, <1>6, <1>10
  <2> QED BY <2>1 DEF Lists, Enumerates
<1>13. pos' \in 1 .. Len(cards') + 1
  BY <1>2
<1>14. /\ \A s, d :
            <<s, d>> \in used_issuance_tuples' <=>
              \E k \in 1 .. pos' - 1 :
                Good(k)' /\ chain'[k].sender = s /\ chain'[k].donation_txid = d
       /\ \A t :
            t \in valid_bundles' <=>
              \E k \in 1 .. pos' - 1 :
                Opens(k)' /\ Leads(k)' /\ Several(k)' /\ chain'[k].txid = t
  BY <1>2, <1>8, <1>9
<1> QED BY <1>11, <1>12, <1>13, <1>14 DEF WalkSound

(* What the parser's lists say about the card.                             *)
LEMMA CardKnown ==
  ASSUME IInv, ResultInv, Reached, card.type = "CardIssue"
  PROVE  /\ Claim \in used_issuance_tuples <=>
              \E k \in 1 .. pos - 1 : Good(k) /\ SameClaim(k, pos)
         /\ card.txid \in valid_bundles <=>
              \E k \in 1 .. pos - 1 : Opens(k) /\ Leads(k) /\ chain[k].txid = chain[pos].txid
         /\ Bundle # NoBundle <=> Leads(pos) /\ Several(pos)
         /\ Good(pos) <=> IsValidIssuance(card, IssuedAmount)
         /\ Opens(pos) <=> Good(pos) /\ Claim \notin used_issuance_tuples
         /\ Valid(pos) <=> Opens(pos) \/ card.txid \in valid_bundles
<1>1. /\ pos \in Nat /\ pos # 0 /\ pos \in 1 .. Len(cards) /\ pos \in DOMAIN chain
      /\ card = chain[pos] /\ OnChain /\ WalkSound
      /\ DOMAIN chain = 1 .. Len(chain) /\ Len(chain) \in Nat
  BY CardAt, ChainNumbers DEF ResultInv
<1>2. Claim \in used_issuance_tuples <=>
        \E k \in 1 .. pos - 1 : Good(k) /\ SameClaim(k, pos)
  <2>1. \A s, d :
          <<s, d>> \in used_issuance_tuples <=>
            \E k \in 1 .. pos - 1 : Good(k) /\ chain[k].sender = s /\ chain[k].donation_txid = d
    BY <1>1 DEF WalkSound
  <2> QED BY <1>1, <2>1 DEF Claim, SameClaim
<1>3. card.txid \in valid_bundles <=>
        \E k \in 1 .. pos - 1 : Opens(k) /\ Leads(k) /\ chain[k].txid = chain[pos].txid
  <2>1. card.txid \in valid_bundles <=>
          \E k \in 1 .. pos - 1 :
            Opens(k) /\ Leads(k) /\ Several(k) /\ chain[k].txid = card.txid
    BY <1>1 DEF WalkSound
  <2>2. ASSUME NEW k \in 1 .. pos - 1, chain[k].txid = chain[pos].txid
        PROVE  Several(k)
    <3>1. pos # k
      BY <1>1
    <3> QED BY <1>1, <2>2, <3>1 DEF Several, TxCards
  <2> QED BY <1>1, <2>1, <2>2
<1>4. (Bundle # NoBundle <=> Leads(pos) /\ Several(pos)) /\ IssuedAmount = Checked(pos)
  BY <1>1, IssueFound DEF WalkSound
<1>5. Good(pos) <=> IsValidIssuance(card, IssuedAmount)
  BY <1>1, <1>4 DEF Good
<1>6. Opens(pos) <=> Good(pos) /\ Claim \notin used_issuance_tuples
  BY <1>2 DEF Opens
<1>7. Valid(pos) <=> Opens(pos) \/ card.txid \in valid_bundles
  BY <1>1, <1>3 DEF Valid
<1> QED BY <1>2, <1>3, <1>4, <1>5, <1>6, <1>7

LEMMA WalkStep ==
  ASSUME IInv, ResultInv, [Next]_vars,
         BundlePart \/ Duplicate \/ ValidIssue \/ InvalidIssue \/ Other
  PROVE  WalkSound'
<1>1. Reached /\ Advance
  BY DEF BundlePart, Duplicate, ValidIssue, InvalidIssue, Fresh, Other
<1>2. pos \in DOMAIN chain /\ card = chain[pos]
  BY <1>1, CardAt DEF ResultInv
<1>3. CASE Other
  <2>1. /\ card.type # "CardIssue" /\ valid_cards' = Append(valid_cards, card)
        /\ UNCHANGED <<valid_bundles, used_issuance_tuples>>
    BY <1>3 DEF Other
  <2>2. Valid(pos) /\ ~Good(pos) /\ ~Opens(pos)
    BY <1>2, <2>1 DEF Valid, Good, Opens
  <2> QED BY <1>1, <2>1, <2>2, WalkOn
<1>4. CASE BundlePart
  <2>1. /\ card.type = "CardIssue" /\ card.txid \in valid_bundles
        /\ valid_cards' = Append(valid_cards, card)
        /\ UNCHANGED <<valid_bundles, used_issuance_tuples>>
    BY <1>4 DEF BundlePart
  <2>2. Valid(pos)
    BY <1>1, <2>1, CardKnown
  <2>3. PICK k \in 1 .. pos - 1 : Opens(k) /\ Leads(k) /\ chain[k].txid = chain[pos].txid
    BY <1>1, <2>1, CardKnown
  <2>4. k \in DOMAIN chain
    BY <1>2, ChainNumbers
  <2>5. Good(k) /\ SameClaim(k, pos)
    BY <1>2, <2>3, <2>4, ChainNumbers DEF Opens, SameClaim
  <2>6. Claim \in used_issuance_tuples /\ ~Opens(pos)
    BY <1>1, <2>1, <2>5, CardKnown
  <2> QED BY <1>1, <2>1, <2>2, <2>6, WalkOn DEF Claim
<1>5. CASE Duplicate
  <2>1. /\ card.type = "CardIssue" /\ card.txid \notin valid_bundles
        /\ Claim \in used_issuance_tuples
        /\ UNCHANGED <<valid_cards, valid_bundles, used_issuance_tuples>>
    BY <1>5 DEF Duplicate, Unused
  <2>2. ~Opens(pos) /\ ~Valid(pos)
    BY <1>1, <2>1, CardKnown
  <2> QED BY <1>1, <2>1, <2>2, WalkOn DEF Claim
<1>6. CASE ValidIssue
  <2>1. /\ card.type = "CardIssue" /\ Claim \notin used_issuance_tuples
        /\ IsValidIssuance(card, IssuedAmount)
        /\ valid_cards' = Append(valid_cards, card)
        /\ valid_bundles' =
             IF Bundle # NoBundle THEN valid_bundles \cup {card.txid} ELSE valid_bundles
        /\ used_issuance_tuples' = used_issuance_tuples \cup {Claim}
    BY <1>6 DEF ValidIssue, Fresh, Unused
  <2>2. Good(pos) /\ Opens(pos) /\ Valid(pos) /\ (Bundle # NoBundle <=> Leads(pos) /\ Several(pos))
    BY <1>1, <2>1, CardKnown
  <2>3. \A s, d :
          <<s, d>> \in used_issuance_tuples' <=>
            \/ <<s, d>> \in used_issuance_tuples
            \/ Good(pos) /\ card.sender = s /\ card.donation_txid = d
    BY <2>1, <2>2 DEF Claim
  <2>4. \A t :
          t \in valid_bundles' <=>
            \/ t \in valid_bundles
            \/ Opens(pos) /\ Leads(pos) /\ Several(pos) /\ card.txid = t
    BY <2>1, <2>2
  <2> QED BY <1>1, <2>1, <2>2, <2>3, <2>4, WalkOn
<1>7. CASE InvalidIssue
  <2>1. /\ card.type = "CardIssue" /\ card.txid \notin valid_bundles
        /\ ~IsValidIssuance(card, IssuedAmount)
        /\ UNCHANGED <<valid_cards, valid_bundles, used_issuance_tuples>>
    BY <1>7 DEF InvalidIssue, Fresh
  <2>2. ~Good(pos) /\ ~Opens(pos) /\ ~Valid(pos)
    BY <1>1, <2>1, CardKnown
  <2> QED BY <1>1, <2>1, <2>2, WalkOn
<1> QED BY <1>3, <1>4, <1>5, <1>6, <1>7

-----------------------------------------------------------------------------
(* All steps *)

LEMMA InitResult == Init => ResultInv
<1> SUFFICES ASSUME Init PROVE ResultInv
  OBVIOUS
<1>1. chain = <<>> /\ cards = <<>> /\ parsed = <<>> /\ pos = 0
  BY DEF Init
<1>2. Prefix(0) /\ ValidTo(0) = {}
  BY <1>1 DEF Prefix, ValidTo
<1>3. Lists(<<>>, chain, {})
  BY ListsEmpty
<1>4. Len(cards) = 0 /\ 0 \in 0 .. Len(cards)
  BY <1>1
<1>5. ParsedSound
  BY <1>1, <1>2, <1>3, <1>4 DEF ParsedSound
<1>6. OnChain
  BY <1>1, <1>2, <1>4 DEF OnChain
<1> QED BY <1>1, <1>5, <1>6 DEF ResultInv, BlockIsTx, WalkSound

LEMMA OnChainStep ==
  ASSUME IInv, ResultInv, [Next]_vars
  PROVE  OnChain'
<1>1. BlockIsTx /\ OnChain
  BY DEF ResultInv
<1>2. CASE Start
  <2>1. cards' = chain /\ chain' = chain
    BY <1>2 DEF Start
  <2>2. Len(chain) \in Nat
    BY ChainNumbers
  <2> QED BY <2>1, <2>2 DEF OnChain, Prefix
<1>3. CASE cards' = cards
  <2>1. Prefix(Len(cards))
    BY <1>1 DEF OnChain
  <2>2. PICK n : n = Len(cards)
    OBVIOUS
  <2>3. Prefix(n)' /\ n \in 0 .. Len(chain)
    BY <1>1, <2>1, <2>2, PrefixStays
  <2>4. Prefix(Len(cards))'
    BY <1>3, <2>2, <2>3 DEF Prefix
  <2>5. \A i \in DOMAIN cards : i \in DOMAIN chain
    BY <2>2, <2>3, ChainNumbers
  <2>6. \A i \in DOMAIN cards : cards[i] = chain'[i]
    BY <1>1, <2>5, ChainGrows DEF OnChain
  <2> QED BY <1>3, <2>4, <2>6 DEF OnChain
<1> QED BY <1>2, <1>3 DEF Next, vars, Block, parser, BundlePart, Duplicate, ValidIssue,
                          InvalidIssue, Other, Return, Advance

(* A block may be mined at any card. *)
LEMMA WalkKept ==
  ASSUME IInv, ResultInv, [Next]_vars, UNCHANGED parser
  PROVE  WalkSound'
<1> SUFFICES ASSUME pos # 0 PROVE WalkSound'
  BY DEF WalkSound, parser
<1>1. /\ BlockIsTx /\ OnChain /\ WalkSound /\ pos \in 1 .. Len(cards) + 1
      /\ Len(cards) \in Nat /\ Len(cards) <= Len(chain) /\ Len(chain) \in Nat
      /\ DOMAIN chain = 1 .. Len(chain)
  BY ChainNumbers DEF ResultInv, OnChain, Prefix, WalkSound
<1>2. /\ cards' = cards /\ pos' = pos /\ last_processed_position' = last_processed_position
      /\ valid_cards' = valid_cards /\ valid_bundles' = valid_bundles
      /\ used_issuance_tuples' = used_issuance_tuples
  BY DEF parser
<1>3. PICK n : n = pos - 1
  OBVIOUS
<1>4. n \in 0 .. Len(chain)
  BY <1>1, <1>3
<1>5. \A k \in 1 .. n :
        /\ k \in DOMAIN chain /\ chain'[k] = chain[k]
        /\ Leads(k)' <=> Leads(k)
        /\ Several(k)' <=> Several(k)
        /\ Good(k)' <=> Good(k)
        /\ Opens(k)' <=> Opens(k)
  <2>1. \A k \in 1 .. n : k \in DOMAIN chain
    BY <1>1, <1>4
  <2> QED BY <1>1, <2>1, ChainGrows, ValidForEver
<1>6. Lists(valid_cards, chain, ValidTo(pos - 1))'
  <2>1. Lists(valid_cards, chain, ValidTo(n))
    BY <1>1, <1>3 DEF WalkSound
  <2>2. ValidTo(n)' = ValidTo(n) /\ Lists(valid_cards, chain', ValidTo(n))
    BY <1>1, <1>4, <2>1, ListStays
  <2>3. Lists(valid_cards', chain', ValidTo(pos - 1)')
    BY <1>2, <1>3, <2>2 DEF ValidTo
  <2> QED BY <2>3 DEF Lists, Enumerates
<1>7. Remembers(cards, pos - 1, last_processed_position)'
  BY <1>1, <1>2 DEF WalkSound, Remembers
<1>8. ASSUME NEW s, NEW d
      PROVE  <<s, d>> \in used_issuance_tuples' <=>
               \E k \in 1 .. pos' - 1 :
                 Good(k)' /\ chain'[k].sender = s /\ chain'[k].donation_txid = d
  <2>1. <<s, d>> \in used_issuance_tuples <=>
          \E k \in 1 .. n : Good(k) /\ chain[k].sender = s /\ chain[k].donation_txid = d
    BY <1>1, <1>3 DEF WalkSound
  <2> QED BY <1>2, <1>3, <1>5, <2>1
<1>9. ASSUME NEW t
      PROVE  t \in valid_bundles' <=>
               \E k \in 1 .. pos' - 1 :
                 Opens(k)' /\ Leads(k)' /\ Several(k)' /\ chain'[k].txid = t
  <2>1. t \in valid_bundles <=>
          \E k \in 1 .. n : Opens(k) /\ Leads(k) /\ Several(k) /\ chain[k].txid = t
    BY <1>1, <1>3 DEF WalkSound
  <2> QED BY <1>2, <1>3, <1>5, <2>1
<1>10. pos' \in 1 .. Len(cards') + 1
  BY <1>1, <1>2
<1> QED BY <1>6, <1>7, <1>8, <1>9, <1>10 DEF WalkSound

LEMMA StartWalk ==
  ASSUME IInv, Start
  PROVE  WalkSound'
<1>1. /\ pos' = 1 /\ cards' = chain /\ last_processed_position' = 1
      /\ valid_cards' = <<>> /\ valid_bundles' = {} /\ used_issuance_tuples' = {}
  BY DEF Start
<1>2. Len(chain) \in Nat
  BY ChainNumbers
<1>3. pos' - 1 = 0 /\ pos' \in 1 .. Len(cards') + 1 /\ 1 .. pos' - 1 = {}
  BY <1>1, <1>2
<1>4. Remembers(cards, pos - 1, last_processed_position)'
  BY <1>1, <1>3 DEF Remembers
<1>5. Lists(valid_cards, chain, ValidTo(pos - 1))'
  BY <1>1, <1>3 DEF Lists, Enumerates, ValidTo
<1> QED BY <1>1, <1>3, <1>4, <1>5 DEF WalkSound

(* When the walk is over, valid_cards has the valid cards of the list.     *)
LEMMA WalkEnds ==
  ASSUME IInv, ResultInv, Return
  PROVE  /\ Len(cards) \in 0 .. Len(chain) /\ Prefix(Len(cards))
         /\ Lists(valid_cards, chain, ValidTo(Len(cards)))
<1>1. pos > Len(cards) /\ pos # 0 /\ Len(cards) \in Nat
  <2>1. pos > Len(cards)
    BY DEF Return
  <2> QED BY <2>1, ChainNumbers
<1>2. pos \in 1 .. Len(cards) + 1 /\ Lists(valid_cards, chain, ValidTo(pos - 1))
  BY <1>1 DEF ResultInv, WalkSound
<1>3. pos - 1 = Len(cards)
  BY <1>1, <1>2
<1> QED BY <1>2, <1>3 DEF ResultInv, OnChain, Prefix

LEMMA ParsedStep ==
  ASSUME IInv, ResultInv, [Next]_vars
  PROVE  ParsedSound'
<1>1. BlockIsTx /\ OnChain /\ Len(cards) \in Nat /\ Len(chain) \in Nat /\ Len(cards) <= Len(chain)
  BY ChainNumbers DEF ResultInv, OnChain, Prefix
<1>2. ASSUME NEW n, n \in 0 .. Len(cards), Prefix(n), Lists(parsed', chain, ValidTo(n)),
             Len(cards) <= Len(cards'), Len(cards') \in Nat
      PROVE  ParsedSound'
  <2>1. Prefix(n)' /\ n \in 0 .. Len(chain)
    BY <1>1, <1>2, PrefixStays
  <2>2. ValidTo(n)' = ValidTo(n) /\ Lists(parsed', chain', ValidTo(n))
    <3>1. PICK s : s = parsed'
      OBVIOUS
    <3>2. Lists(s, chain, ValidTo(n))
      BY <1>2, <3>1
    <3>3. ValidTo(n)' = ValidTo(n) /\ Lists(s, chain', ValidTo(n))
      BY <1>1, <2>1, <3>2, ListStays
    <3> QED BY <3>1, <3>3
  <2>3. n \in 0 .. Len(cards')
    BY <1>1, <1>2
  <2>4. Lists(parsed', chain', ValidTo(n)')
    BY <2>2
  <2> QED BY <2>1, <2>3, <2>4 DEF ParsedSound, Lists, Enumerates
<1>3. CASE Return
  <2>1. parsed' = valid_cards /\ cards' = cards
    BY <1>3 DEF Return
  <2>2. PICK n : n = Len(cards)
    OBVIOUS
  <2>3. n \in 0 .. Len(cards) /\ Prefix(n) /\ Lists(parsed', chain, ValidTo(n))
    BY <1>1, <1>3, <2>1, <2>2, WalkEnds
  <2> QED BY <1>1, <1>2, <2>1, <2>3
<1>4. CASE parsed' = parsed /\ (cards' = cards \/ cards' = chain)
  <2>1. PICK n \in 0 .. Len(cards) : Prefix(n) /\ Lists(parsed, chain, ValidTo(n))
    BY DEF ResultInv, ParsedSound
  <2> QED BY <1>1, <1>2, <1>4, <2>1
<1> QED BY <1>3, <1>4 DEF Next, vars, Block, parser, Start, BundlePart, Duplicate, ValidIssue,
                          InvalidIssue, Other, Advance

LEMMA ResultStep ==
  ASSUME IInv, ResultInv, [Next]_vars
  PROVE  ResultInv'
<1>1. BlockIsTx'
  BY BlockIsTxStep DEF ResultInv
<1>2. WalkSound'
  <2>1. CASE Block \/ UNCHANGED vars
    <3>1. UNCHANGED parser
      BY <2>1 DEF Block, vars, parser
    <3> QED BY <3>1, WalkKept
  <2>2. CASE Start
    BY <2>2, StartWalk
  <2>3. CASE Return
    BY <2>3 DEF Return, WalkSound
  <2>4. CASE BundlePart \/ Duplicate \/ ValidIssue \/ InvalidIssue \/ Other
    BY <2>4, WalkStep
  <2> QED BY <2>1, <2>2, <2>3, <2>4 DEF Next
<1> QED BY <1>1, <1>2, OnChainStep, ParsedStep DEF ResultInv

(* Each complete parse has returned the valid cards of a part of the chain *)
(* that consists of whole transactions.                                    *)
LEMMA AlwaysResult == Spec => [](IInv /\ ResultInv)
<1>1. Init => IInv /\ ResultInv
  BY InitInv, InitResult
<1>2. IInv /\ ResultInv /\ [Next]_vars => (IInv /\ ResultInv)'
  BY TypeStep, ChainStep, ParserStep, AddsUpStep, ResultStep DEF IInv
<1> QED BY <1>1, <1>2, PTL DEF Spec

(* A parse returns, of the chain that it has read, exactly the cards that  *)
(* Valid describes, in the chain's order.                                  *)
THEOREM ParseReturnsTheValid == Spec => []ParsedSound
<1>1. ResultInv => ParsedSound
  BY DEF ResultInv
<1> QED BY <1>1, AlwaysResult, PTL

(* The cards that at_parser returns stay where they are in its result, as  *)
(* later parses read a longer chain with more donations: no claim becomes  *)
(* valid, or invalid, later than in its block.                             *)
THEOREM NoCardHangs == Spec => NoHangingCards
<1>1. ASSUME IInv, ResultInv, [Next]_vars, parsed' # parsed
      PROVE  IsPrefixOf(parsed, parsed')
  <2>1. Return
    BY <1>1 DEF Next, vars, Block, parser, Start, BundlePart, Duplicate, ValidIssue,
                InvalidIssue, Other, Advance
  <2>2. parsed' = valid_cards
    BY <2>1 DEF Return
  <2>3. PICK n \in 0 .. Len(cards) : Prefix(n) /\ Lists(parsed, chain, ValidTo(n))
    BY <1>1 DEF ResultInv, ParsedSound
  <2>4. Lists(valid_cards, chain, ValidTo(Len(cards)))
    BY <1>1, <2>1, WalkEnds
  <2> DEFINE P == ValidTo(n)
             Q == ValidTo(Len(cards))
  <2>5. Len(cards) \in Nat /\ n \in Nat /\ n <= Len(cards)
    BY <1>1, <2>3, ChainNumbers
  <2>6. /\ P \in SUBSET Nat /\ Q \in SUBSET Nat /\ P \subseteq Q
        /\ \A k \in Q \ P, j \in P : j < k
    BY <2>5 DEF ValidTo
  <2>7. parsed \in Seq(Card) /\ valid_cards \in Seq(Card)
    BY <1>1 DEF IInv, TypeOK
  <2>8. Lists(parsed, chain, P) /\ Lists(valid_cards, chain, Q)
    BY <2>3, <2>4
  <2> HIDE DEF P, Q
  <2>9. IsPrefixOf(parsed, valid_cards)
    BY <2>6, <2>7, <2>8, ListsContinue DEF IsPrefixOf
  <2> QED BY <2>2, <2>9
<1> DEFINE A == parsed' # parsed => IsPrefixOf(parsed, parsed')
<1>2. IInv /\ ResultInv /\ [Next]_vars => [A]_vars
  BY <1>1
<1> HIDE DEF A
<1>3. [][A]_vars => NoHangingCards
  BY PTL DEF NoHangingCards, A
<1> QED BY <1>2, <1>3, AlwaysResult, PTL DEF Spec

-----------------------------------------------------------------------------
(* Honest claims *)

LEMMA SumOfZeros ==
  ASSUME NEW S, NEW f, \A x \in S : f[x] = 0
  PROVE  Sum(S, f) = 0
<1>1. Units(S, f) = {}
  BY DEF Units
<1> QED BY <1>1, FS_EmptySet DEF Sum

(* The first good issue of a claim. *)
LEMMA FirstGood ==
  ASSUME IInv, NEW h \in DOMAIN chain, Good(h), ~Opens(h)
  PROVE  \E j \in 1 .. h - 1 : Opens(j) /\ SameClaim(j, h)
<1> DEFINE S == {j \in 1 .. h - 1 : Good(j) /\ SameClaim(j, h)}
<1>1. h \in Nat
  BY ChainNumbers
<1>2. S # {} /\ S \in SUBSET Nat
  BY <1>1 DEF Opens
<1>3. PICK j \in S : \A i \in S : j <= i
  <2> HIDE DEF S
  <2> QED BY <1>2, SmallestNumber
<1>4. j \in 1 .. h - 1 /\ Good(j) /\ SameClaim(j, h)
  OBVIOUS
<1>5. ASSUME NEW i \in 1 .. j - 1, Good(i), SameClaim(i, j)
      PROVE  FALSE
  <2>1. i \in S
    BY <1>1, <1>4, <1>5 DEF SameClaim
  <2> HIDE DEF S
  <2> QED BY <1>1, <1>3, <1>4, <1>5, <2>1
<1> QED BY <1>4, <1>5 DEF Opens

(* Every valid issue comes with the transaction of an issue that opens its *)
(* claim.                                                                  *)
LEMMA Opened ==
  ASSUME IInv, NEW k \in DOMAIN chain, Valid(k), chain[k].type = "CardIssue"
  PROVE  \E j \in DOMAIN chain :
           /\ Opens(j) /\ SameClaim(j, k) /\ chain[j].txid = chain[k].txid
           /\ chain[j].sender = DonorOf[chain[k].donation_txid]
<1>1. PICK j \in DOMAIN chain : Opens(j) /\ chain[j].txid = chain[k].txid
  BY ChainNumbers DEF Valid
<1>2. SameClaim(j, k)
  BY <1>1, ChainNumbers DEF SameClaim
<1> QED BY <1>1, <1>2 DEF Opens, Good, IsValidIssuance, SameClaim

LEMMA OneOpens ==
  ASSUME IInv, NEW i \in DOMAIN chain, NEW j \in DOMAIN chain,
         Opens(i), Opens(j), SameClaim(i, j)
  PROVE  i = j
<1>1. i \in Nat /\ j \in Nat /\ i >= 1 /\ j >= 1
  BY ChainNumbers
<1>2. ~(i < j)
  BY <1>1 DEF Opens
<1>3. ~(j < i)
  BY <1>1 DEF Opens, SameClaim
<1> QED BY <1>1, <1>2, <1>3

LEMMA OneTransaction ==
  ASSUME IInv, NEW k \in DOMAIN chain, Valid(k), NEW l \in DOMAIN chain, Valid(l),
         chain[k].type = "CardIssue", chain[l].type = "CardIssue",
         chain[k].donation_txid = chain[l].donation_txid
  PROVE  chain[k].txid = chain[l].txid
<1>1. PICK i \in DOMAIN chain :
        /\ Opens(i) /\ SameClaim(i, k) /\ chain[i].txid = chain[k].txid
        /\ chain[i].sender = DonorOf[chain[k].donation_txid]
  BY Opened
<1>2. PICK j \in DOMAIN chain :
        /\ Opens(j) /\ SameClaim(j, l) /\ chain[j].txid = chain[l].txid
        /\ chain[j].sender = DonorOf[chain[l].donation_txid]
  BY Opened
<1>3. SameClaim(i, j)
  BY <1>1, <1>2 DEF SameClaim
<1>4. i = j
  BY <1>1, <1>2, <1>3, OneOpens
<1> QED BY <1>1, <1>2, <1>4

LEMMA ClaimedWithOne ==
  ASSUME IInv, NEW m \in 0 .. Len(chain), Lists(parsed, chain, ValidTo(m)),
         NEW d, NEW p \in ClaimedOf(d), NEW q \in ClaimedOf(d)
  PROVE  parsed[p].txid = parsed[q].txid
<1>1. PICK h : Enumerates(h, parsed, chain, ValidTo(m))
  BY DEF Lists
<1>2. \A i \in ClaimedOf(d) :
        /\ h[i] \in DOMAIN chain /\ Valid(h[i]) /\ parsed[i] = chain[h[i]]
        /\ chain[h[i]].type = "CardIssue" /\ chain[h[i]].donation_txid = d
  BY <1>1, ChainNumbers DEF Enumerates, ClaimedOf, IssuesOf, ValidTo
<1> QED BY <1>2, OneTransaction

(* The head of a transaction that claims in time and in full is good.      *)
LEMMA HonestHead ==
  ASSUME IInv, BlockIsTx, NEW k \in DOMAIN chain, NEW d, d = chain[k].donation_txid,
         chain[k].type = "CardIssue", chain[k].sender = DonorOf[d],
         confirmed[d] \in 1 .. chain[k].txid, confirmed[d] >= StartBlock,
         EndBlock # NoLimit => confirmed[d] <= EndBlock,
         Entitlement(d) # 0, Sum(TxCards(k), Amounts(chain)) = Entitlement(d)
  PROVE  \E h \in TxCards(k) : Leads(h) /\ Good(h)
<1>1. k \in TxCards(k) /\ TxCards(k) \in SUBSET Nat
  BY ChainNumbers DEF TxCards
<1>2. PICK h \in TxCards(k) : \A i \in TxCards(k) : h <= i
  BY <1>1, SmallestNumber
<1>3. h \in DOMAIN chain /\ chain[h].txid = chain[k].txid /\ TxCards(h) = TxCards(k)
  BY <1>2 DEF TxCards
<1>4. /\ chain[h].type = "CardIssue" /\ chain[h].sender = chain[k].sender
      /\ chain[h].donation_txid = d /\ chain[h].blocknum = chain[k].txid
  BY <1>3, ChainNumbers DEF BlockIsTx
<1>5. Leads(h) /\ Checked(h) = Entitlement(d)
  BY <1>2, <1>3 DEF Leads, Checked
<1>6. /\ confirmed[d] # NotConfirmed /\ chain[h].blocknum >= confirmed[d]
      /\ StartBlock # NoLimit => confirmed[d] >= StartBlock
  <2>1. chain[k].txid \in Nat
    BY ChainNumbers
  <2>2. confirmed[d] \in Nat /\ confirmed[d] # 0 /\ chain[k].txid >= confirmed[d]
    BY <2>1
  <2> QED BY <1>4, <2>2 DEF NotConfirmed
<1>7. Good(h)
  BY <1>4, <1>5, <1>6 DEF Good, IsValidIssuance, CheckDonation
<1> QED BY <1>5, <1>7

(* Its cards are all valid, unless an earlier issue has opened the claim.  *)
LEMMA HonestIsValid ==
  ASSUME IInv, NEW k \in DOMAIN chain, NEW h \in TxCards(k), Leads(h), Opens(h),
         NEW i \in TxCards(k)
  PROVE  Valid(i)
<1>1. /\ h \in DOMAIN chain /\ i \in DOMAIN chain
      /\ chain[h].txid = chain[i].txid /\ i \in TxCards(h)
  BY DEF TxCards
<1>2. h \in Nat /\ i \in Nat /\ h >= 1 /\ h <= i
  BY <1>1, ChainNumbers DEF Leads
<1>3. h = i \/ h \in 1 .. i - 1
  BY <1>2
<1> QED BY <1>1, <1>3 DEF Valid

(* Whoever claims a donation in time and in full has it, in one            *)
(* transaction, unless an earlier one had it: nobody else's cards and no   *)
(* bundles before it can prevent that.                                     *)
THEOREM HonestClaimsSucceed == Spec => []HonestClaims
<1>1. IInv /\ ResultInv => HonestClaims
  <2> SUFFICES ASSUME IInv, ResultInv, parsed # <<>>, NEW k \in DOMAIN chain,
                      NEW n, n = chain[k].txid, NEW d, d = chain[k].donation_txid,
                      n <= parsed[Len(parsed)].txid,
                      chain[k].type = "CardIssue", chain[k].sender = DonorOf[d],
                      confirmed[d] \in 1 .. n, confirmed[d] >= StartBlock,
                      EndBlock # NoLimit => confirmed[d] <= EndBlock,
                      Entitlement(d) # 0,
                      Sum(Mined(n), Amounts(chain)) = Entitlement(d),
                      ~\E i \in ClaimedOf(d) : parsed[i].txid < n
               PROVE  Sum({i \in ClaimedOf(d) : parsed[i].txid = n}, Amounts(parsed))
                        = Entitlement(d)
    BY DEF HonestClaims, Amounts
  <2>1. /\ d \in Donations /\ n \in Nat /\ Len(chain) \in Nat /\ k \in Nat
        /\ DOMAIN chain = 1 .. Len(chain) /\ BlockIsTx
    BY ChainNumbers DEF ResultInv
  <2>2. PICK m \in 0 .. Len(chain) : Prefix(m) /\ Lists(parsed, chain, ValidTo(m))
    BY DEF ResultInv, ParsedSound, Prefix
  <2>3. PICK g : Enumerates(g, parsed, chain, ValidTo(m))
    BY <2>2 DEF Lists
  <2>4. parsed \in Seq(Card)
    BY DEF IInv, TypeOK
  <2>5. \A i \in TxCards(k) : i \in 1 .. m
    <3> SUFFICES ASSUME NEW i \in TxCards(k), ~(i \in 1 .. m) PROVE FALSE
      OBVIOUS
    <3>1. Len(parsed) \in DOMAIN parsed
      BY <2>4
    <3>2. g[Len(parsed)] \in 1 .. m /\ parsed[Len(parsed)] = chain[g[Len(parsed)]]
      BY <2>3, <3>1 DEF Enumerates, ValidTo
    <3>3. i \in m + 1 .. Len(chain) /\ chain[i].txid = n
      BY <2>1, <2>2 DEF TxCards
    <3>4. chain[g[Len(parsed)]].txid < n /\ chain[g[Len(parsed)]].txid \in Nat
      BY <2>1, <2>2, <3>2, <3>3, ChainNumbers DEF Prefix
    <3> QED BY <2>1, <3>2, <3>4
  <2>6. Mined(n) = TxCards(k)
    BY DEF Mined, TxCards
  <2>7. PICK h \in TxCards(k) : Leads(h) /\ Good(h)
    BY <2>1, <2>6, HonestHead
  <2>8. \A i \in TxCards(k) :
          /\ i \in DOMAIN chain /\ chain[i].txid = n
          /\ chain[i].donation_txid = d /\ chain[i].type = "CardIssue"
    BY ChainNumbers DEF TxCards
  <2>9. \A i \in 1 .. m : Valid(i) => \E p \in DOMAIN parsed : parsed[p] = chain[i]
    BY <2>3 DEF Enumerates, ValidTo
  <2>10. Opens(h)
    <3> SUFFICES ASSUME ~Opens(h) PROVE FALSE
      OBVIOUS
    <3>1. PICK j \in 1 .. h - 1 : Opens(j) /\ SameClaim(j, h)
      BY <2>7, <2>8, FirstGood
    <3>2. h \in 1 .. m /\ h \in Nat
      BY <2>1, <2>5
    <3>3. j \in 1 .. m /\ j \in DOMAIN chain /\ j < h /\ j \in Nat
      BY <2>1, <2>2, <3>2
    <3>4. chain[j].type = "CardIssue" /\ chain[j].donation_txid = d
      BY <2>8, <3>1 DEF Opens, Good, SameClaim
    <3>5. PICK p \in DOMAIN parsed : parsed[p] = chain[j]
      BY <2>9, <3>1, <3>3 DEF Valid
    <3>6. p \in ClaimedOf(d)
      BY <3>4, <3>5 DEF ClaimedOf, IssuesOf
    <3>7. chain[j].txid # n
      <4>1. SUFFICES ASSUME j \in TxCards(h) PROVE FALSE
        BY <2>8, <3>3 DEF TxCards
      <4>2. h <= j
        BY <2>7, <4>1 DEF Leads
      <4> QED BY <3>2, <3>3, <4>2
    <3>8. chain[j].txid <= chain[h].txid /\ chain[j].txid \in Nat
      BY <2>8, <3>3, ChainNumbers
    <3> QED BY <2>1, <2>8, <3>5, <3>6, <3>7, <3>8
  <2>11. PICK i \in TxCards(k) : Amounts(chain)[i] # 0
    BY <2>6, SumOfZeros
  <2>12. Valid(i) /\ i \in 1 .. m
    BY <2>5, <2>7, <2>10, HonestIsValid
  <2>13. PICK p \in DOMAIN parsed : parsed[p] = chain[i]
    BY <2>9, <2>12
  <2>14. p \in ClaimedOf(d) /\ parsed[p].txid = n
    BY <2>8, <2>13 DEF ClaimedOf, IssuesOf
  <2>15. {q \in ClaimedOf(d) : parsed[q].txid = n} = ClaimedOf(d)
    BY <2>2, <2>14, ClaimedWithOne
  <2>16. ClaimedOf(d) \in SUBSET (DOMAIN parsed)
    BY DEF ClaimedOf, IssuesOf
  <2> DEFINE f == Amounts(parsed)
             C == ClaimedOf(d)
  <2>17. Numbers(C, f) /\ {p} \in SUBSET C
    BY <2>4, <2>14, <2>16, AmountsAreNumbers
  <2>18. f[p] \in Nat \ {0}
    <3>1. f[p] = chain[i].amount /\ chain[i].amount \in Nat /\ chain[i].amount # 0
      BY <2>8, <2>11, <2>13, ChainNumbers DEF Amounts
    <3> QED BY <3>1
  <2>19. Sum(C, f) \in {0, Entitlement(d)}
    BY <2>1 DEF IInv, IssuedAsEntitled, Amounts
  <2> HIDE DEF f, C
  <2>20. Sum({p}, f) = f[p] /\ Sum({p}, f) <= Sum(C, f) /\ Sum(C, f) \in Nat
    BY <2>17, <2>18, SumOne, SumSubset, SumType
  <2>21. Sum(C, f) # 0
    BY <2>18, <2>20
  <2> QED BY <2>15, <2>19, <2>21 DEF f, C
<1> QED BY <1>1, AlwaysResult, PTL

-----------------------------------------------------------------------------
(* The ledger of claims *)

(* A parse finds, for a donation that the parse before it found claimed,   *)
(* the same cards again and no more.                                       *)
LEMMA ClaimsKept ==
  ASSUME IInv, ResultInv, Return, NEW d, ClaimedOf(d) # {}
  PROVE  /\ ClaimedOf(d)' = ClaimedOf(d)
         /\ \A i \in ClaimedOf(d) : i \in DOMAIN parsed /\ parsed'[i] = parsed[i]
<1>1. PICK n \in 0 .. Len(cards) : Prefix(n) /\ Lists(parsed, chain, ValidTo(n))
  BY DEF ResultInv, ParsedSound
<1>2. PICK h : Enumerates(h, parsed, chain, ValidTo(n))
  BY <1>1 DEF Lists
<1>3. parsed' = valid_cards /\ Lists(parsed', chain, ValidTo(Len(cards)))
  BY WalkEnds DEF Return
<1>4. PICK g : Enumerates(g, parsed', chain, ValidTo(Len(cards)))
  BY <1>3 DEF Lists
<1>5. /\ Len(cards) \in Nat /\ n \in Nat /\ n <= Len(cards)
      /\ Len(cards) <= Len(chain) /\ Len(chain) \in Nat /\ DOMAIN chain = 1 .. Len(chain)
  BY <1>1, WalkEnds, ChainNumbers
<1> DEFINE P == ValidTo(n)
           Q == ValidTo(Len(cards))
<1>6. /\ P \in SUBSET Nat /\ Q \in SUBSET Nat /\ P \subseteq Q
      /\ \A k \in Q \ P, j \in P : j < k
      /\ \A k \in Q : k \in DOMAIN chain /\ Valid(k)
      /\ P \subseteq 1 .. n /\ \A k \in Q \ P : k \in n + 1 .. Len(chain)
  BY <1>5 DEF ValidTo
<1>7. parsed \in Seq(Card) /\ parsed' \in Seq(Card)
  BY <1>3 DEF IInv, TypeOK
<1>8. Enumerates(h, parsed, chain, P) /\ Enumerates(g, parsed', chain, Q)
  BY <1>2, <1>4
<1> HIDE DEF P, Q
<1>9. \A i \in DOMAIN parsed : i \in DOMAIN (parsed') /\ g[i] = h[i]
  BY <1>6, <1>7, <1>8, PlacesKept
<1>10. /\ \A i \in DOMAIN parsed : h[i] \in P /\ parsed[i] = chain[h[i]]
       /\ \A i \in DOMAIN (parsed') : g[i] \in Q /\ parsed'[i] = chain[g[i]]
  BY <1>8 DEF Enumerates
<1>11. \A i \in DOMAIN parsed : parsed'[i] = parsed[i]
  BY <1>9, <1>10
<1>12. ASSUME NEW i \in DOMAIN (parsed'), i \notin DOMAIN parsed
       PROVE  g[i] \in Q \ P
  <2> SUFFICES ASSUME g[i] \in P PROVE FALSE
    BY <1>10, <1>12
  <2>1. PICK j \in DOMAIN parsed : h[j] = g[i]
    BY <1>8 DEF Enumerates
  <2>2. g[j] = g[i] /\ j \in DOMAIN (parsed') /\ j # i
    BY <1>9, <1>12, <2>1
  <2>3. i \in Nat /\ j \in Nat /\ g[i] \in Nat
    <3>1. DOMAIN (parsed') \subseteq Nat
      BY <1>7
    <3>2. g[i] \in P
      OBVIOUS
    <3> QED BY <1>6, <1>12, <2>2, <3>1, <3>2
  <2> QED BY <1>8, <1>12, <2>2, <2>3 DEF Enumerates
<1>13. PICK p \in ClaimedOf(d) : TRUE
  OBVIOUS
<1>14. p \in DOMAIN parsed /\ parsed[p].type = "CardIssue" /\ parsed[p].donation_txid = d
  BY <1>13 DEF ClaimedOf, IssuesOf
<1>15. ASSUME NEW i \in ClaimedOf(d)'
       PROVE  i \in ClaimedOf(d)
  <2>1. i \in DOMAIN (parsed') /\ parsed'[i].type = "CardIssue" /\ parsed'[i].donation_txid = d
    BY <1>15 DEF ClaimedOf, IssuesOf
  <2>2. CASE i \in DOMAIN parsed
    BY <1>11, <2>1, <2>2 DEF ClaimedOf, IssuesOf
  <2>3. CASE i \notin DOMAIN parsed
    <3>1. g[i] \in n + 1 .. Len(chain) /\ h[p] \in 1 .. n
      BY <1>6, <1>10, <1>12, <1>14, <2>1, <2>3
    <3>2. chain[h[p]].txid < chain[g[i]].txid
      BY <1>1, <3>1 DEF Prefix
    <3>3. chain[h[p]].txid = chain[g[i]].txid
      <4>1. h[p] \in Q /\ g[i] \in Q
        BY <1>6, <1>10, <1>14, <2>1
      <4>2. PICK k \in DOMAIN chain : k = h[p] /\ Valid(k) /\ chain[k] = parsed[p]
        BY <1>6, <1>10, <1>14, <4>1
      <4>3. PICK l \in DOMAIN chain : l = g[i] /\ Valid(l) /\ chain[l] = parsed'[i]
        BY <1>6, <1>10, <2>1, <4>1
      <4>4. chain[k].txid = chain[l].txid
        BY <1>14, <2>1, <4>2, <4>3, OneTransaction
      <4> QED BY <4>2, <4>3, <4>4
    <3>4. chain[g[i]].txid \in Nat
      BY <1>5, <3>1, ChainNumbers
    <3> QED BY <3>2, <3>3, <3>4
  <2> QED BY <2>2, <2>3
<1>16. ClaimedOf(d) \subseteq ClaimedOf(d)'
  BY <1>9, <1>11 DEF ClaimedOf, IssuesOf
<1>17. \A i \in ClaimedOf(d) : i \in DOMAIN parsed
  BY DEF ClaimedOf, IssuesOf
<1> QED BY <1>11, <1>15, <1>16, <1>17

LEMMA LedgerType ==
  ASSUME TypeOK
  PROVE  /\ LedgerDue \in [Donations -> Nat \cup {NotDue}]
         /\ \A d \in Donations : Entitlement(d) \in Nat /\ Entitlement(d) # NotDue
<1>1. \A d \in Donations : Entitlement(d) \in Nat
  <2> SUFFICES ASSUME NEW d \in Donations PROVE Entitlement(d) \in Nat
    OBVIOUS
  <2>1. ValueOf[d] \in Nat /\ Factor \in Nat /\ Unit \in Nat \ {0}
    BY ChainAssumption
  <2>2. PICK x \in Nat : x = ValueOf[d] * Factor
    BY <2>1
  <2> QED BY <2>1, <2>2 DEF Entitlement
<1>2. \A d \in Donations : Entitlement(d) # NotDue
  BY <1>1 DEF NotDue
<1> QED BY <1>1, <1>2 DEF LedgerDue

(* Donations that are mined fall due, or never will. *)
LEMMA BlockFallsDue ==
  ASSUME IInv, Block, TypeOK'
  PROVE  Ledger!FallDue
<1>1. UNCHANGED parsed
  BY DEF Block, parser
<1>2. UNCHANGED <<LedgerSettled, LedgerIssued>>
  BY <1>1 DEF LedgerSettled, LedgerIssued, ClaimedOf, IssuesOf
<1>3. LedgerDue' \in [Donations -> Nat \cup {NotDue}]
  <2>1. \A d \in Donations : LedgerDue'[d] \in {Entitlement(d), NotDue}
    BY DEF LedgerDue, Entitlement
  <2>2. LedgerDue' = [d \in Donations |-> LedgerDue'[d]]
    BY DEF LedgerDue
  <2> QED BY <2>1, <2>2, LedgerType DEF IInv
<1>4. ASSUME NEW d \in Donations, LedgerDue[d] # NotDue
      PROVE  LedgerDue'[d] = LedgerDue[d]
  <2>1. confirmed[d] # NotConfirmed
    BY <1>4 DEF LedgerDue
  <2>2. confirmed'[d] = confirmed[d]
    BY <2>1 DEF Block, IInv, TypeOK
  <2> QED BY <2>2 DEF LedgerDue, Entitlement
<1> QED BY <1>2, <1>3, <1>4 DEF Ledger!FallDue, Ledger!NotDue, NotDue

(* What a parse finds claimed for the first time is due, and is issued in  *)
(* full or not at all; what was claimed before stays.                      *)
LEMMA ReturnSettles ==
  ASSUME IInv, ResultInv, Return, IInv'
  PROVE  \E D \in SUBSET (Donations \ LedgerSettled) :
           \E F \in SUBSET D : Ledger!Settle(D, F)
<1> DEFINE D == LedgerSettled' \ LedgerSettled
           F == {d \in D : LedgerIssued'[d] # LedgerDue[d]}
<1>1. UNCHANGED <<confirmed, LedgerDue>>
  BY DEF Return, LedgerDue, Entitlement
<1>2. D \in SUBSET (Donations \ LedgerSettled) /\ F \in SUBSET D
  BY DEF LedgerSettled
<1>3. \A d \in D : LedgerDue[d] = Entitlement(d)
  <2> SUFFICES ASSUME NEW d \in Donations, ClaimedOf(d)' # {}
               PROVE  LedgerDue[d] = Entitlement(d)
    BY DEF LedgerSettled
  <2>1. PICK i : i \in ClaimedOf(d)'
    OBVIOUS
  <2>2. i \in IssuesOf(parsed') /\ parsed'[i].donation_txid = d
    BY <2>1 DEF ClaimedOf, IssuesOf
  <2>3. Due(parsed'[i], confirmed)
    BY <1>1, <2>2 DEF IInv, AllDue, IssuesOf, Due
  <2>4. /\ confirmed[d] \in 1 .. parsed'[i].blocknum /\ confirmed[d] >= StartBlock
        /\ EndBlock # NoLimit => confirmed[d] <= EndBlock
    BY <2>2, <2>3 DEF Due
  <2>5. confirmed[d] # NotConfirmed
    BY <2>4 DEF NotConfirmed
  <2> QED BY <2>4, <2>5 DEF LedgerDue
<1>4. \A d \in D : LedgerDue[d] # NotDue
  BY <1>2, <1>3, LedgerType DEF IInv
<1>5. LedgerSettled \subseteq LedgerSettled'
  BY ClaimsKept DEF LedgerSettled
<1>6. LedgerSettled' = LedgerSettled \cup D
  BY <1>5
<1>7. ASSUME NEW d \in Donations
      PROVE  LedgerIssued'[d] = IF d \in D \ F THEN LedgerDue[d] ELSE LedgerIssued[d]
  <2>1. /\ LedgerIssued[d] = Sum(ClaimedOf(d), Amounts(parsed))
        /\ LedgerIssued'[d] = Sum(ClaimedOf(d)', Amounts(parsed'))
    BY DEF LedgerIssued, Amounts
  <2>2. CASE d \in LedgerSettled
    <3>1. /\ ClaimedOf(d)' = ClaimedOf(d)
          /\ \A i \in ClaimedOf(d) : i \in DOMAIN parsed /\ parsed'[i] = parsed[i]
      BY <2>2, ClaimsKept DEF LedgerSettled
    <3>2. \A i \in ClaimedOf(d) : i \in DOMAIN (parsed')
      BY <3>1 DEF ClaimedOf, IssuesOf
    <3>3. \A i \in ClaimedOf(d) : Amounts(parsed)[i] = Amounts(parsed')[i]
      BY <3>1, <3>2 DEF Amounts
    <3>4. Sum(ClaimedOf(d), Amounts(parsed)) = Sum(ClaimedOf(d), Amounts(parsed'))
      BY <3>3, SumAgree
    <3> QED BY <2>1, <2>2, <3>1, <3>4
  <2>3. CASE d \notin LedgerSettled'
    <3>1. d \notin LedgerSettled /\ ClaimedOf(d) = {} /\ ClaimedOf(d)' = {}
      BY <1>5, <2>3 DEF LedgerSettled
    <3> QED BY <2>1, <2>3, <3>1, SumEmpty
  <2>4. CASE d \in D
    <3>1. LedgerIssued'[d] \in {0, Entitlement(d)}
      BY <2>1 DEF IInv, IssuedAsEntitled, Amounts, Entitlement
    <3>2. LedgerIssued[d] = 0
      <4>1. ClaimedOf(d) = {}
        BY <2>4 DEF LedgerSettled
      <4> QED BY <2>1, <4>1, SumEmpty
    <3> QED BY <1>3, <2>4, <3>1, <3>2
  <2> QED BY <2>2, <2>3, <2>4
<1>8. LedgerIssued' = [d \in Donations |-> LedgerIssued'[d]]
  BY DEF LedgerIssued
<1> HIDE DEF D, F
<1>9. LedgerIssued' = [d \in Donations |-> IF d \in D \ F THEN LedgerDue[d] ELSE LedgerIssued[d]]
  BY <1>7, <1>8
<1>10. Ledger!Settle(D, F)
  BY <1>1, <1>4, <1>6, <1>9 DEF Ledger!Settle, Ledger!NotDue, NotDue
<1> QED BY <1>2, <1>10

(* The AT parser keeps a ledger of claims: whatever the chain, and however *)
(* parses and blocks follow each other, a donation is settled when it is   *)
(* due and once, and nothing that was settled is changed.                  *)
THEOREM ATParserImplementsLedger == Spec => ImplementsClaimsLedger
<1>1. Init => Ledger!Init
  <2> SUFFICES ASSUME Init PROVE Ledger!Init
    OBVIOUS
  <2>1. /\ parsed = <<>> /\ \A d \in Donations : confirmed[d] = NotConfirmed
    BY DEF Init
  <2>2. \A d \in Donations : ClaimedOf(d) = {}
    BY <2>1 DEF ClaimedOf, IssuesOf
  <2>3. LedgerSettled = {} /\ LedgerDue = [d \in Donations |-> NotDue]
    BY <2>1, <2>2 DEF LedgerSettled, LedgerDue
  <2>4. LedgerIssued = [d \in Donations |-> 0]
    BY <2>2, SumEmpty DEF LedgerIssued
  <2> QED BY <2>3, <2>4 DEF Ledger!Init, Ledger!NotDue, NotDue
<1>2. ASSUME IInv, ResultInv, [Next]_vars, IInv'
      PROVE  [Ledger!Next]_(Ledger!ledgerVars)
  <2>1. CASE Block
    BY <1>2, <2>1, BlockFallsDue DEF IInv, Ledger!Next
  <2>2. CASE Return
    BY <1>2, <2>2, ReturnSettles DEF Ledger!Next
  <2>3. CASE UNCHANGED <<confirmed, parsed>>
    <3>1. UNCHANGED <<LedgerDue, LedgerSettled, LedgerIssued>>
      BY <2>3 DEF LedgerDue, Entitlement, LedgerSettled, LedgerIssued, ClaimedOf, IssuesOf
    <3> QED BY <3>1 DEF Ledger!ledgerVars
  <2>4. Block \/ Return \/ UNCHANGED <<confirmed, parsed>>
    BY <1>2 DEF Next, vars, Start, BundlePart, Duplicate, ValidIssue, InvalidIssue, Other, Advance
  <2> QED BY <2>1, <2>2, <2>3, <2>4
<1> QED BY <1>1, <1>2, AlwaysResult, PTL DEF Spec, ImplementsClaimsLedger, Ledger!Spec

=============================================================================
