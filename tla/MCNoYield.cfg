\* The no-yield variant with three accounts: every order of admin instructions and of wraps and claims.
SPECIFICATION Spec
CONSTANTS
  INDEX_SCALE = 4
  ONE_HUNDRED_PERCENT = 2
  MAX_INDEX_FACTOR = 3
  MULTIPLIER_GRAIN = 2
  F64Loss <- MCF64Loss
  Powf <- MCPowf
  Accounts = {a1, a2, a3}
  None = None
  YieldVariant = "NoYield"
  Multipliers <- UnevenMultipliers
  MSupply = 5
  Fees = {0}
  Amounts = {0, 2, 3, 5}
  CreationSupplies = {0, 1}
  CreationMultipliers = {8}
  MaxOps = 4
  MaxStaleMinted = 2
SYMMETRY AccountSymmetry
INVARIANTS
  GovTypeOK
  NominationByAdmin
  SlotsFitAuthorities
  Backed
PROPERTIES
  KeepsItsPromise
