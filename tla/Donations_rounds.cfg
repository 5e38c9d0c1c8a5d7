SPECIFICATION Spec
CONSTANTS
  alice = alice
  bob = bob
  carol = carol
  prop = prop
  Addr <- MCAddr
  Proposer = prop
  ReqAmount = 3
  Lossy <- MCLossy
  Txs <- MCTxs
  Places <- MCPlaces
  MaxTxs = 6
  MaxCoins = 1
INVARIANT TypeOK
INVARIANT WithinRequest
INVARIANT OneStatePerDonor
INVARIANT ReserveFirst
PROPERTY SlotsKept
CHECK_DEADLOCK FALSE
