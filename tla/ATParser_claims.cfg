SPECIFICATION Spec
CONSTANTS
  d1 = d1
  d2 = d2
  s1 = s1
  s2 = s2
  NoDonation = NoDonation
  Donations = {d1, d2}
  DonorOf <- MCDonorOf
  ValueOf <- MCValueOf
  Factor = 3
  Unit = 2
  StartBlock = 2
  EndBlock = 3
  Txs <- MCTxs
  MaxHeight = 4
INVARIANT TypeOK
INVARIANT ClaimedOnce
INVARIANT IssuedAsEntitled
INVARIANT ClaimsAreDue
INVARIANT HonestClaims
PROPERTY NoHangingCards
PROPERTY ImplementsClaimsLedger
