SPECIFICATION Spec
CONSTANTS
  alice = alice
  bob = bob
  Accounts <- MCAccounts
  RamAccount = eosio_ram
  RamFeeAccount = eosio_ramfee
  RexAccount = eosio_rex
  NoRow = NoRow
  InitTokens <- MCTokens
  TokenSupply = 5000
  QuoteRatio = 1000
  InitSupply = 40
  InitRam = 20
  RamLimit = 45
  RamWidth = 64
  TokenAmounts = {1, 3, 5}
  ByteAmounts = {3, 8}
  RamSizes = {33}
  RamRates = {2}
  MaxSlot = 2
PROPERTIES
  BuysExactBytes
