SPECIFICATION Spec
CONSTANTS
  Accounts = {alice}
  Gift = 2
  NoRow = NoRow
  Deltas = {0, 1, 2}
  Settings <- MCSettings
  MaxWeight = 3
INVARIANTS
  LimitsFollowRows
PROPERTIES
  UnstakedIsGone
  ManagedIsKept
