\* The scaled-ui variant over uneven index growth, every fee and a vault that freezes,
\* with a sync that somebody calls in the end.
SPECIFICATION FairSpec
CONSTANTS
  INDEX_SCALE = 4
  ONE_HUNDRED_PERCENT = 2
  MAX_INDEX_FACTOR = 3
  MULTIPLIER_GRAIN = 2
  F64Loss <- MCF64Loss
  Powf <- MCPowf
  Accounts = {a1}
  None = None
  YieldVariant = "ScaledUi"
  Multipliers <- UnevenMultipliers
  MSupply = 4
  Fees = {0, 1, 2, 3}
  Amounts = {0, 2, 3, 5}
  CreationSupplies = {0, 1}
  CreationMultipliers = {8}
  MaxOps = 2
  MaxStaleMinted = 2
INVARIANTS
  MExtTypeOK
  IndexDomain
  NeverLockedOut
  Backed
  WholeSupplyCanLeave
  MultiplierMatchesIndex
PROPERTIES
  KeepsItsPromise
  FairGrowth
  ClaimsLeaveCollateral
  CatchesUp
