SPECIFICATION VotingSpec
CONSTANTS
  prod1 = prod1
  prod2 = prod2
  Voters = {alice, bob, carol}
  Producers <- MCProducers
  Legacy = {prod2}
  LegacyClaims = {0}
  Rank <- MCRank
  None = None
  NoRow = NoRow
  Growth <- MCGrowth
  ThreeDays = 1
  MinActivated = 1
  MaxElected = 1
  RexMinVotes = 1
  ProxyVoters = {alice, bob, carol}
  StakeAmounts = {1}
  RexAmounts = {1}
  MaxStake = 2
  MaxActivated = 2
  MaxTime = 2
CONSTRAINT MCCases
SYMMETRY MCSymmetry
INVARIANTS
  TalliesAddUp
  ProxiesAreRoots
  WeightsAreBacked
