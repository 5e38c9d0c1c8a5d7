\* Every combination of modes, and an AT deck, over lists of three transactions.
SPECIFICATION Spec
CONSTANTS
  iss = iss
  a = a
  b = b
  Issuer = iss
  Decks <- AllDecks
  Txs <- AllTxs
  Lossy = {29}
  MaxTxs = 3
CHECK_DEADLOCK FALSE
INVARIANT ModesCombine
INVARIANT Subsequence
