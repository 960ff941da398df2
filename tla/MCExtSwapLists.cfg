\* Two extensions that do not grow, and every order in which keys are permitted.
SPECIFICATION Spec
CONSTANTS
  INDEX_SCALE = 4
  ONE_HUNDRED_PERCENT = 2
  MAX_INDEX_FACTOR = 3
  MULTIPLIER_GRAIN = 1
  F64Loss <- MCF64Loss
  Powf <- MCPowf
  Accounts = {u1, u2, facility}
  Unwrappers = {u2}
  Programs = {px, py}
  None = None
  Multipliers <- NoGrowth
  MSupply = 1
  Fees = {0}
  Amounts = {1}
  CreationSupplies = {0}
  CreationMultipliers = {4}
  MaxOps = 2
  MaxStaleMinted = 0
  ProgramX = px
  ProgramY = py
  VariantX = "NoYield"
  VariantY = "ScaledUi"
  Facility = facility
  AuthorityLists = {{u1}}
  Permittable = {facility}
INVARIANTS
  SpaceFitsLists
PROPERTIES
  OutflowsArePermitted
