\* Three cards, repeated ones among them, in a custom deck with every kind of lock type.
SPECIFICATION Spec
CONSTANTS
  issuer = issuer
  alice = alice
  bob = bob
  Addr <- MCAddr
  Issuer = issuer
  CustomDeck = TRUE
  Amounts = {1, 2}
  LockTimes = {1}
  HashTypes = {1, 2, 4, 6}
  MaxBlock = 1
  MaxCards = 3
  Rereads = TRUE
  CleanupHeight = 0
INVARIANT CountedOnce
CHECK_DEADLOCK FALSE
