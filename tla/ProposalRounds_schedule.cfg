\* Two proposal transactions of two senders over three epochs.
SPECIFICATION Spec
CONSTANTS
  alice = alice
  bob = bob
  EpochLength = 30
  Addr <- MCAddr
  Terms <- MCTerms
  Heights <- MCHeights
  MaxPtxes = 2
INVARIANT TypeOK
INVARIANT OnePeriodPerBlock
INVARIANT RoundsInEpochs
INVARIANT LockedUntilPhaseTwo
PROPERTY PhaseOneKept
CHECK_DEADLOCK FALSE
