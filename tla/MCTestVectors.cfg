\* The fee tests of conversion.rs against the domain check of the function they test.
SPECIFICATION Spec
CONSTANTS
  INDEX_SCALE = 800
  ONE_HUNDRED_PERCENT = 10000
  MAX_INDEX_FACTOR = 2
  MULTIPLIER_GRAIN = 1
  F64Loss <- MCF64Loss
  Powf <- MCPowf
INVARIANT TestInputAccepted
