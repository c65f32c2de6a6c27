SPECIFICATION Spec
CONSTANTS
  alice = alice
  bob = bob
  Accounts <- MCAccounts
  RamAccount = eosio_ram
  RamFeeAccount = eosio_ramfee
  RexAccount = eosio_rex
  NoRow = NoRow
  InitTokens <- MCTokens
  TokenSupply = 5000
  QuoteRatio = 1000
  InitSupply = 40
  InitRam = 20
  RamLimit = 45
  RamWidth = 8
  TokenAmounts = {}
  ByteAmounts = {}
  RamSizes = {33}
  RamRates = {2, 3}
  MaxSlot = 5
PROPERTIES
  AllocatedAtOldRate
