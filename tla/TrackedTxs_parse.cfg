SPECIFICATION Spec
CONSTANTS
  TxFee = 1
  P2thFee = 2
  DataFee = 1
  Funds <- MCFunds
  Requests <- MCRequests
  PageSize = 2
  Own = {"donor"}
  Lag = 0
  MaxTxs = 6
  MaxBlocks = 3
INVARIANT FoundOnce
INVARIANT PredecessorsRead
INVARIANT LaterParsesAppend
INVARIANT LaterParsesKeepAll
INVARIANT AskedIsRead
INVARIANT CoinsKept
PROPERTY ParseEnds
