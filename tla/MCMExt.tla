-------------------------------- MODULE MCMExt --------------------------------
(***************************************************************************)
(* Small instances of MExt: one account in every role, or interchangeable  *)
(* ones, an index of 1.0 scaled to 4, fees in halves.                      *)
(***************************************************************************)
EXTENDS MExt, TLC

\* The largest r with (r / scale)^n <= (factor / scale)^(n - fee), n the full fee.
MCPowf(factor, fee) ==
  CHOOSE r \in INDEX_SCALE..factor :
    LET Under(x) ==
          x ^ ONE_HUNDRED_PERCENT
            <= factor ^ (ONE_HUNDRED_PERCENT - fee) * INDEX_SCALE ^ fee
    IN Under(r) /\ ~Under(r + 1)

\* The f64 of an odd index reads back as the index below.
MCF64Loss(index) == IF index % 2 = 1 THEN 1 ELSE 0

\* Indices 4, 4 (with a fraction), 5, 7, 9, and 13, beyond the cap of 12.
UnevenMultipliers == {8, 9, 11, 15, 19, 26}

\* Indices 4, 8, 16: no growth is lost to truncation unless the fee is 100%.
DoublingMultipliers == {8, 16, 32}

AccountSymmetry == Permutations(Accounts)
=============================================================================
