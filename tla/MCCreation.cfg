\* An ext mint whose multiplier was not 1.0 when it was handed to Initialize.
SPECIFICATION Spec
CONSTANTS
  INDEX_SCALE = 4
  ONE_HUNDRED_PERCENT = 2
  MAX_INDEX_FACTOR = 3
  MULTIPLIER_GRAIN = 2
  F64Loss <- MCF64Loss
  Powf <- MCPowf
  Accounts = {a1}
  None = None
  YieldVariant = "ScaledUi"
  Multipliers <- UnevenMultipliers
  MSupply = 4
  Fees = {0, 1, 2, 3}
  Amounts = {0, 2, 3, 5}
  CreationSupplies = {0, 1}
  CreationMultipliers = {8, 12}
  MaxOps = 1
  MaxStaleMinted = 2
INVARIANTS
  MultiplierMatchesIndex
