------------------------------ MODULE Conversion ------------------------------
(***************************************************************************)
(* The arithmetic of programs/m_ext/src/utils/conversion.rs.               *)
(*                                                                         *)
(* An index is a natural number scaled by INDEX_SCALE: it says how much an *)
(* amount of a rebasing token is worth per unit of principal.  Amounts are *)
(* what users see, principals what token accounts hold.  Every conversion  *)
(* is an integer division that rounds down or up, and the properties of    *)
(* the extension depend on which of the two each caller uses.              *)
(*                                                                         *)
(* The code computes in u128 and converts back to u64; a conversion that   *)
(* does not fit makes the instruction fail, which changes nothing.  The    *)
(* model keeps the divisions and leaves the widths out.                    *)
(***************************************************************************)
EXTENDS Integers

CONSTANTS
  INDEX_SCALE,          \* 1e12 in the code: the index 1.0
  ONE_HUNDRED_PERCENT,  \* 10000 in the code: a fee of 100% in basis points
  MAX_INDEX_FACTOR,     \* 100 in the code: the largest accepted index is this many times 1.0
  MULTIPLIER_GRAIN,     \* multipliers are f64: this many of them per unit of index
  F64Loss(_),           \* F64Loss(index): by how much the f64 of an index reads back below it
  Powf(_, _)            \* Powf(factor, fee): f64::powf(factor, 1 - fee), scaled and floored

ASSUME ScaleAssumption ==
  /\ INDEX_SCALE \in Nat \ {0}
  /\ ONE_HUNDRED_PERCENT \in Nat \ {0}
  /\ MAX_INDEX_FACTOR \in Nat \ {0}
  /\ MULTIPLIER_GRAIN \in Nat \ {0}

MaxIndex == MAX_INDEX_FACTOR * INDEX_SCALE

(***************************************************************************)
(* What is assumed of the floating-point power, and all that is: for a     *)
(* factor of at least 1.0 and a fee in (0, 100%], x^(1 - fee) lies between *)
(* 1.0 and x, and x^0 is exactly 1.0.                                      *)
(***************************************************************************)
ASSUME PowfAssumption ==
  \A factor \in INDEX_SCALE..MaxIndex, fee \in 1..ONE_HUNDRED_PERCENT :
    /\ Powf(factor, fee) \in INDEX_SCALE..factor
    /\ fee = ONE_HUNDRED_PERCENT => Powf(factor, fee) = INDEX_SCALE

(***************************************************************************)
(* What is assumed of an index divided by 1e12 in f64: multiplied by 1e12  *)
(* again it may fall short of the index, never by more than a unit, so     *)
(* that it is truncated to the index or to the one below (1000000000004    *)
(* becomes ...003); and 1.0 is exact.                                      *)
(***************************************************************************)
ASSUME F64Assumption ==
  /\ \A index \in INDEX_SCALE..MaxIndex : F64Loss(index) \in 0..MULTIPLIER_GRAIN
  /\ F64Loss(INDEX_SCALE) = 0

-----------------------------------------------------------------------------
CeilDiv(a, b) == (a + b - 1) \div b

AmountToPrincipalUp(amount, index) == CeilDiv(amount * INDEX_SCALE, index)

AmountToPrincipalDown(amount, index) == (amount * INDEX_SCALE) \div index

PrincipalToAmountUp(principal, index) == CeilDiv(index * principal, INDEX_SCALE)

PrincipalToAmountDown(principal, index) == (index * principal) \div INDEX_SCALE

\* A multiplier finer than 1e-12 is truncated.
MultiplierToIndex(multiplier) == multiplier \div MULTIPLIER_GRAIN

\* The f64 quotient, which may read back as one index less.
IndexToMultiplier(index) == index * MULTIPLIER_GRAIN - F64Loss(index)

-----------------------------------------------------------------------------
(***************************************************************************)
(* calculate_new_index: the ext index follows M's growth since the last    *)
(* sync, to the power (1 - fee).  Inputs out of its domain are an error.   *)
(***************************************************************************)
ValidIndexInput(last_ext_index, last_m_index, new_m_index, fee_bps) ==
  /\ last_ext_index >= INDEX_SCALE
  /\ last_m_index >= last_ext_index
  /\ new_m_index >= last_m_index
  /\ new_m_index <= MaxIndex
  /\ fee_bps <= ONE_HUNDRED_PERCENT

\* A slip MIncreaseFactor could make: M's growth rounded up.
MIncreaseFactorUp(last_m_index, new_m_index) ==
  CeilDiv(new_m_index * INDEX_SCALE, last_m_index)

MIncreaseFactor(last_m_index, new_m_index) ==
  (new_m_index * INDEX_SCALE) \div last_m_index

ExtIncreaseFactor(m_increase_factor, fee_bps) ==
  IF fee_bps = 0 THEN m_increase_factor ELSE Powf(m_increase_factor, fee_bps)

CalculateNewIndex(last_ext_index, last_m_index, new_m_index, fee_bps) ==
  LET m_increase_factor == MIncreaseFactor(last_m_index, new_m_index)
  IN (last_ext_index * ExtIncreaseFactor(m_increase_factor, fee_bps)) \div INDEX_SCALE
=============================================================================
