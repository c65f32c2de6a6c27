SPECIFICATION Spec
CONSTANTS
  alice = alice
  bob = bob
  ghost = ghost
  Names <- MCNames
  Accounts <- MCAccounts
  Symbols = {EOS, SYS}
  MaxAmount = 3
  NoIssuer = NoIssuer
INVARIANTS
  SupplyIsHeld
  SupplyBounded
  NoStrandedTokens
PROPERTIES
  ImplementsLedger
