SPECIFICATION Spec
CONSTANTS
  prod1 = prod1
  prod2 = prod2
  Voters = {alice}
  Producers <- MCProducers
  Legacy = {prod2}
  LegacyClaims = {1}
  Rank <- MCRank
  None = None
  NoRow = NoRow
  Growth <- MCGrowth
  ThreeDays = 2
  MinActivated = 1
  MaxElected = 0
  RexMinVotes = 2
  ProxyVoters = {}
  StakeAmounts = {1}
  RexAmounts = {}
  MaxStake = 1
  MaxActivated = 1
  MaxTime = 4
  Savings = eosio_saving
  Bpay = eosio_bpay
  Vpay = eosio_vpay
  ClaimDay = 0
  Year = 2
  MinPerVote = 2
  InitRevision = 1
  InitSupply = 40
  MaxSupply = 150
  MaxUnpaid = 1
INVARIANTS
  VotesEarnOnce
