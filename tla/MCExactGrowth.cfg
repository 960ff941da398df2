\* The scaled-ui variant where truncation never hides growth: M doubles, fees of 0 and 50%.
SPECIFICATION Spec
CONSTANTS
  INDEX_SCALE = 4
  ONE_HUNDRED_PERCENT = 2
  MAX_INDEX_FACTOR = 4
  MULTIPLIER_GRAIN = 2
  F64Loss <- MCF64Loss
  Powf <- MCPowf
  Accounts = {a1}
  None = None
  YieldVariant = "ScaledUi"
  Multipliers <- DoublingMultipliers
  MSupply = 6
  Fees = {0, 1}
  Amounts = {0, 2, 4, 5}
  CreationSupplies = {0, 1}
  CreationMultipliers = {8}
  MaxOps = 3
  MaxStaleMinted = 2
INVARIANTS
  SolventWithinRounding
