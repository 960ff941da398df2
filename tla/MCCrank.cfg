\* Claims for one earner of one manager, through syncs, freezes and re-adding.
SPECIFICATION CrankSpec
CONSTANTS
  INDEX_SCALE = 4
  ONE_HUNDRED_PERCENT = 2
  MAX_INDEX_FACTOR = 3
  MULTIPLIER_GRAIN = 1
  F64Loss <- MCF64Loss
  Powf <- MCPowf
  Accounts = {a1}
  None = None
  YieldVariant = "Crank"
  Multipliers <- HalfSteps
  MSupply = 4
  Fees = {0, 1, 3}
  Amounts = {3, 4}
  CreationSupplies = {0}
  CreationMultipliers = {4}
  MaxOps = 2
  MaxStaleMinted = 1
  Managers = {m1}
  Holders = {h1}
  FeeAccounts = {f1}
  TokenStates = {"Initialized", "Frozen"}
  Snapshots = {2, 3}
INVARIANTS
  CrankTypeOK
  SolventWithinRounding
  PaidOnce
  IndexDomain
PROPERTIES
  KeepsItsPromise
  FairGrowth
  ClaimsLeaveCollateral
  ImplementsLedger
