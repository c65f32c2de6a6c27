SPECIFICATION FairSpec
CONSTANTS
  alice = alice
  bob = bob
  aliceTokens = 16
  bobTokens = 10
  bidTokens = 0
  Accounts <- MCAccounts
  StakeAccount = eosio_stake
  RexAccount = eosio_rex
  NamesAccount = eosio_names
  OtherHolders <- MCOthers
  NoRow = NoRow
  InitTokens <- MCTokens
  InitVoters <- MCVoting
  NameValue <- MCNameValue
  Amounts = {}
  RefundDelay = 1
  MaxTime = 2
  RexRatio = 2
  InitTotalRent = 3
  DayLength = 1
  NumBuckets = 1
  EndOfDays = 99
  LoanTerm = 1
  MaxLoans = 1
  Deposits = {16, 10}
  Withdrawals = {}
  Purchases = {10}
  Unstakes = {}
  Sales = {7, 20}
  Payments = {6}
  Funds = {0}
  Moves = {}
  Maxes = {1}
  Rents = {}
  Fees = {}
  Bids = {}
CONSTRAINT OwnCpuLoans
INVARIANTS
  PoolAccounted
  RexSolvent
  VoteStakeCounted
PROPERTIES
  NeverDiluted
  SellersServed
