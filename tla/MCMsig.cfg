SPECIFICATION Spec
CONSTANTS
  alice = alice
  bob = bob
  active = active
  first = first
  second = second
  Accounts = {alice, bob}
  Levels <- MCLevels
  Proposers = {alice}
  ProposalNames = {first, second}
  Transactions <- MCTransactions
  Requests <- MCRequests
  OldRows <- MCOldRows
  NoHash = NoHash
  BlocksPerSecond = 2
  MaxTime = 2
INVARIANTS
  RowsPaired
  StillExecutable
PROPERTIES
  ConsentFollowsActors
  KeepsPromise
