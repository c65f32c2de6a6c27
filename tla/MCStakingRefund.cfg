SPECIFICATION HistorySpec
CONSTANTS
  alice = alice
  bob = bob
  Accounts <- MCAccounts
  StakeAccount = eosio_stake
  OtherHolders = {}
  NoRow = NoRow
  InitTokens <- MCTokens
  InitVoters <- MCVoters
  Amounts = {0, 1, 2}
  RefundDelay = 1
  MaxTime = 2
INVARIANTS
  RefundScheduled
