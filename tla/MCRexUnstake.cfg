SPECIFICATION Spec
CONSTANTS
  alice = alice
  bob = bob
  aliceTokens = 11
  bobTokens = 0
  bidTokens = 0
  Accounts <- MCAccounts
  StakeAccount = eosio_stake
  RexAccount = eosio_rex
  NamesAccount = eosio_names
  OtherHolders <- MCOthers
  NoRow = NoRow
  InitTokens <- MCTokens
  InitVoters <- MCNoVoters
  NameValue <- MCNameValue
  Amounts = {0, 3}
  RefundDelay = 1
  MaxTime = 1
  RexRatio = 1
  InitTotalRent = 1
  DayLength = 1
  NumBuckets = 1
  EndOfDays = 99
  LoanTerm = 1
  MaxLoans = 1
  Deposits = {5}
  Withdrawals = {}
  Purchases = {4}
  Unstakes = {0, 3}
  Sales = {4}
  Payments = {1}
  Funds = {0}
  Moves = {}
  Maxes = {1}
  Rents = {}
  Fees = {}
  Bids = {}
INVARIANTS
  VoteStakeCounted
