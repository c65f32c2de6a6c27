SPECIFICATION Spec
CONSTANTS
  alice = alice
  bob = bob
  aliceTokens = 10
  bobTokens = 7
  bidTokens = 3
  Accounts <- MCAccounts
  StakeAccount = eosio_stake
  RexAccount = eosio_rex
  NamesAccount = eosio_names
  OtherHolders <- MCOthers
  NoRow = NoRow
  InitTokens <- MCTokens
  InitVoters <- MCOneVoting
  NameValue <- MCNameValue
  Amounts = {}
  RefundDelay = 1
  MaxTime = 3
  RexRatio = 1
  InitTotalRent = 3
  DayLength = 1
  NumBuckets = 1
  EndOfDays = 99
  LoanTerm = 1
  MaxLoans = 2
  Deposits = {7, 10}
  Withdrawals = {}
  Purchases = {10}
  Unstakes = {}
  Sales = {10}
  Payments = {2}
  Funds = {0, 3}
  Moves = {}
  Maxes = {3}
  Rents = {}
  Fees = {7}
  Bids = {3}
INVARIANTS
  LoansBacked
  NamebidsKept
  MaintenanceWorks
PROPERTIES
  SellersFirst
