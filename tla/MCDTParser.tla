----------------------------- MODULE MCDTParser -----------------------------
(***************************************************************************)
(* DTParser on a small instance: two addresses, proposals prop1 and prop2  *)
(* that may end together, and a donation don to prop1, with a third of its *)
(* request.  Decimals have 3 digits and floats 11 bits instead of 15 and   *)
(* 53: a third of a whole reward of 6 is 2, but one of a shared reward of  *)
(* 3 is 0, as it is in the code.                                           *)
(***************************************************************************)
EXTENDS DTParser

CONSTANTS alice, bob, prop1, prop2, don

MCAddr == {alice, bob}
MCProposals == {prop1, prop2}
MCDonations == {don}
MCProposalOf == [x \in {don} |-> prop1]
MCDonor == [x \in {don} |-> bob]
MCProposers == [x \in {prop1, prop2} |-> IF x = prop1 THEN {alice} ELSE {bob}]
MCTwoInputs == [x \in {prop1, prop2} |-> {alice, bob}]
MCReqAmount == [x \in {prop1, prop2} |-> 3]
MCEpochReward == 6

(* The effective slot of don; the proposers are left with the rest. *)
MCSlot == 1
MCUnfilled == [x \in {prop1, prop2} |-> IF x = prop1 THEN 2 ELSE 3]

R == INSTANCE Rewards WITH
  Digits <- 3, Bits <- 11, ReqAmount <- MCReqAmount, EpochReward <- MCEpochReward

RewardTable ==
  [x \in {prop1, prop2, don} \X SUBSET {prop1, prop2} |->
     LET claim == x[1]
         p == IF claim = don THEN prop1 ELSE claim
     IN  IF p \notin x[2] THEN 0
         ELSE IF claim = don THEN R!DonorReward(MCSlot, p, x[2])
         ELSE R!ProposerReward(MCUnfilled[p], p, x[2])]
MCRewardOf == RewardTable

Yes == [a \in MCAddr |-> "yes"]
OnlyAlice == [a \in MCAddr |-> IF a = alice THEN "yes" ELSE "none"]
Split == [a \in MCAddr |-> IF a = alice THEN "yes" ELSE "no"]

Plan(start, n, modified, first, second) ==
  [start_epoch |-> start, epoch_number |-> n, modified_to |-> modified,
   first |-> first, second |-> second]

SdpCard(n, e, t, s, r, v) ==
  [txid |-> n, epoch |-> e, type |-> t, sender |-> s, receiver |-> r, amount |-> v]

TwoPlans(a, b) == [x \in {prop1, prop2} |-> IF x = prop1 THEN a ELSE b]

Reverse == [a \in MCAddr |-> IF a = bob THEN "yes" ELSE "no"]

SdpIssue == <<SdpCard(1, 0, "CardIssue", alice, alice, 6)>>
SdpMoved == SdpIssue \o <<SdpCard(2, 1, "CardTransfer", alice, bob, 3)>>

(* prop1 runs from epoch 1 to 2.  prop2 ends with it or one epoch later,   *)
(* or fails in a round; its second round may depend on bob's tokens.       *)
ChainsWith(plans, histories) ==
  {[proposals |-> TwoPlans(Plan(1, 0, {}, Yes, Yes), plan), sdp_cards |-> sdp] :
     plan \in plans, sdp \in histories}

MCChains ==
  ChainsWith({Plan(1, 0, {}, Yes, OnlyAlice), Plan(1, 0, {2}, Yes, Split),
              Plan(2, 0, {}, OnlyAlice, Reverse)}, {SdpIssue})
MCVoteChains == ChainsWith({Plan(1, 0, {}, Yes, Reverse), Plan(3, 0, {}, Split, Yes)},
                           {SdpIssue, SdpMoved})
MCLateChains == ChainsWith({Plan(3, 0, {}, Yes, Yes)}, {SdpIssue})

Transaction(t, s, r, amounts, claim) ==
  [type |-> t, sender |-> s, receiver |-> r, amounts |-> amounts, claim |-> claim]

Claim(s, amounts, claim) == Transaction("CardIssue", s, s, amounts, claim)
Transfer(s, r, amounts) == Transaction("CardTransfer", s, r, amounts, don)

MCTxs ==
  {Claim(bob, a, don) : a \in {<<1, 1>>, <<1, 2, 1>>}}
    \cup {Claim(alice, <<4>>, prop1), Claim(alice, <<2>>, prop1), Claim(bob, <<2>>, prop1),
          Claim(bob, <<6>>, prop2), Transfer(bob, alice, <<3>>),
          Transfer(alice, bob, <<2, 2>>), Transaction("CardBurn", bob, alice, <<1>>, don)}

(* A transfer with two cards of all the sender has. *)
MCTwoReceivers == {Claim(alice, <<4>>, prop1), Transfer(alice, bob, <<2, 2>>)}

(* A single card, to be moved in consecutive epochs. *)
MCTransfers == {Transfer(bob, alice, <<1>>)}

=============================================================================
