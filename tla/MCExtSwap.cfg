\* A scaled-ui and a no-yield extension, and swaps between them while M grows.
SPECIFICATION Spec
CONSTANTS
  INDEX_SCALE = 4
  ONE_HUNDRED_PERCENT = 2
  MAX_INDEX_FACTOR = 3
  MULTIPLIER_GRAIN = 1
  F64Loss <- MCF64Loss
  Powf <- MCPowf
  Accounts = {u1, facility}
  Unwrappers = {}
  Programs = {px, py}
  None = None
  Multipliers <- UnevenGrowth
  MSupply = 3
  Fees = {0, 3}
  Amounts = {2, 3}
  CreationSupplies = {0}
  CreationMultipliers = {4}
  MaxOps = 2
  MaxStaleMinted = 0
  ProgramX = px
  ProgramY = py
  VariantX = "ScaledUi"
  VariantY = "NoYield"
  Facility = facility
  AuthorityLists = {{facility}}
  Permittable = {}
INVARIANTS
  ExtSwapTypeOK
  ExtensionsBacked
PROPERTIES
  SwapsAreFair
  ImplementsCustody
  ExtensionsKeepTheirPromises
