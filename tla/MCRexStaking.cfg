SPECIFICATION Spec
CONSTANTS
  alice = alice
  bob = bob
  aliceTokens = 11
  bobTokens = 0
  bidTokens = 0
  Accounts <- MCAccounts
  StakeAccount = eosio_stake
  RexAccount = eosio_rex
  NamesAccount = eosio_names
  OtherHolders <- MCOthers
  NoRow = NoRow
  InitTokens <- MCTokens
  InitVoters <- MCNoVoters
  NameValue <- MCNameValue
  Amounts = {3}
  RefundDelay = 1
  MaxTime = 4
  RexRatio = 1
  InitTotalRent = 1
  DayLength = 2
  NumBuckets = 2
  EndOfDays = 99
  LoanTerm = 3
  MaxLoans = 1
  Deposits = {5}
  Withdrawals = {5}
  Purchases = {5}
  Unstakes = {0, 3}
  Sales = {4}
  Payments = {2}
  Funds = {0}
  Moves = {3}
  Maxes = {1}
  Rents = {1}
  Fees = {}
  Bids = {}
CONSTRAINT StakingIsEarly
INVARIANTS
  OrdersCovered
  HoldersVote
  StakeExplained
