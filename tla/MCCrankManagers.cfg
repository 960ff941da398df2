\* Two managers and two earners, with token accounts that freeze and close.
SPECIFICATION CrankSpec
CONSTANTS
  INDEX_SCALE = 4
  ONE_HUNDRED_PERCENT = 2
  MAX_INDEX_FACTOR = 3
  MULTIPLIER_GRAIN = 1
  F64Loss <- MCF64Loss
  Powf <- MCPowf
  Accounts = {a1}
  None = None
  YieldVariant = "Crank"
  Multipliers <- OneStep
  MSupply = 2
  Fees = {1}
  Amounts = {2}
  CreationSupplies = {0}
  CreationMultipliers = {4}
  MaxOps = 1
  MaxStaleMinted = 0
  Managers = {m1, m2}
  Holders = {h1, h2}
  FeeAccounts = {f1}
  TokenStates = {"Initialized", "Closed"}
  Snapshots = {2}
SYMMETRY ManagerSymmetry
INVARIANTS
  EarnerNotAhead
  EarnerHasManager
