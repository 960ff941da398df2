\* A scaled-ui extension of any V1 state, migrated and then used.
SPECIFICATION MigrateSpec
CONSTANTS
  INDEX_SCALE = 4
  ONE_HUNDRED_PERCENT = 2
  MAX_INDEX_FACTOR = 3
  MULTIPLIER_GRAIN = 2
  F64Loss <- MCF64Loss
  Powf <- MCPowf
  Accounts = {a1}
  None = None
  YieldVariant = "ScaledUi"
  Multipliers <- UnevenGrowth
  MSupply = 4
  Fees = {0, 1, 3}
  Amounts = {2, 3}
  CreationSupplies = {0}
  CreationMultipliers = {8}
  MaxOps = 2
  MaxStaleMinted = 2
  V1Indices = {4, 5, 7}
  V1Supplies = {0, 3, 4}
  AmountError = 1
INVARIANTS
  MigrateTypeOK
  BackedSinceMigration
  MigratedAccountFits
PROPERTIES
  GrowthUnlocks
  KeepsItsPromise
  ClaimsLeaveCollateral
  SyncedMigrationsAreCovered
