SPECIFICATION Spec
CONSTANTS
  alice = alice
  bob = bob
  prop1 = prop1
  prop2 = prop2
  don = don
  Addr <- MCAddr
  Proposals <- MCProposals
  Donations <- MCDonations
  ProposalOf <- MCProposalOf
  Donor <- MCDonor
  Proposers <- MCProposers
  ReqAmount <- MCReqAmount
  RewardOf <- MCRewardOf
  EpochReward <- MCEpochReward
  SdpPeriods = 3
  Unit = 1
  Chains <- MCChains
  Txs <- MCTransfers
  StartEpoch = 1
  EndEpoch = 4
  MaxEpoch = 5
  MaxTxs = 3
  VotingOver = TRUE
  ForceContinue = FALSE
INVARIANT VotesCounted
CHECK_DEADLOCK FALSE
