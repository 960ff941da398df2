\* As MCExactGrowth, with a fee of 100% among the fees.
SPECIFICATION Spec
CONSTANTS
  INDEX_SCALE = 4
  ONE_HUNDRED_PERCENT = 2
  MAX_INDEX_FACTOR = 4
  MULTIPLIER_GRAIN = 2
  F64Loss <- MCF64Loss
  Powf <- MCPowf
  Accounts = {a1}
  None = None
  YieldVariant = "ScaledUi"
  Multipliers <- DoublingMultipliers
  MSupply = 6
  Fees = {0, 1, 2}
  Amounts = {0, 2, 4, 5}
  CreationSupplies = {0, 1}
  CreationMultipliers = {8}
  MaxOps = 3
  MaxStaleMinted = 2
INVARIANTS
  SolventWithinRounding
