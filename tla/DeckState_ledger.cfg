\* Four cards, address locks, with the cleanup at block 2.
SPECIFICATION Spec
CONSTANTS
  issuer = issuer
  alice = alice
  bob = bob
  Addr <- MCAddr
  Issuer = issuer
  CustomDeck = FALSE
  Amounts = {1, 2}
  LockTimes = {1, 2}
  HashTypes = {2}
  MaxBlock = 3
  MaxCards = 4
  Rereads = FALSE
  CleanupHeight = 2
SYMMETRY Symmetry
INVARIANT TypeOK
INVARIANT Conservation
INVARIANT LocksBacked
INVARIANT UnlockBacked
PROPERTY ImplementsTokenLedger
CHECK_DEADLOCK FALSE
