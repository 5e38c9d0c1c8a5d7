SPECIFICATION Spec
CONSTANTS
  alice = alice
  bob = bob
  EpochLength = 30
  Addr <- MCAddr
  Terms <- MCTerms
  Heights <- MCHeights
  MaxPtxes = 2
CHECK_DEADLOCK FALSE
INVARIANT ModifiedRoundsInEpochs
