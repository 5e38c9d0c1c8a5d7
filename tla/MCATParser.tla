----------------------------- MODULE MCATParser -----------------------------
(***************************************************************************)
(* ATParser on small chains: two donations of two donors, and claims that  *)
(* are right, wrong, repeated, bundled and made by the wrong address.      *)
(***************************************************************************)
EXTENDS ATParser

CONSTANTS d1, d2, s1, s2

MCDonorOf == [d \in Donations |-> IF d = d1 THEN s1 ELSE s2]

(* With a factor of 3 for 2 units, d1 entitles to 4 (4.5 cut off), d2 to 3.*)
MCValueOf == [d \in Donations |-> IF d = d1 THEN 3 ELSE 2]

Issue(s, d, amounts) ==
  [type |-> "CardIssue", sender |-> s, donation |-> d, amounts |-> amounts]

Transfer == [type |-> "CardTransfer", sender |-> s1, donation |-> NoDonation,
             amounts |-> <<4, 1>>]

MCTxs ==
  {Issue(s1, d1, <<4>>), Issue(s1, d1, <<1, 3>>), Issue(s1, d1, <<1, 4, 1>>),
   Issue(s2, d2, <<3>>), Issue(s2, d1, <<4>>), Transfer}

(* A claim that issues nothing. *)
MCZeroTxs == {Issue(s1, d1, <<4>>), Issue(s1, d1, <<0>>), Issue(s1, d2, <<0, 0>>)}

=============================================================================
