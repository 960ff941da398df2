-------------------------------- MODULE MCExtSwap --------------------------------
(***************************************************************************)
(* Small instances of the facility with two extensions: an index of 1.0 is *)
(* 4, fees are in halves.                                                  *)
(***************************************************************************)
EXTENDS ExtSwap

\* The largest r with (r / scale)^n <= (factor / scale)^(n - fee), n the full fee.
MCPowf(factor, fee) ==
  CHOOSE r \in INDEX_SCALE..factor :
    LET Under(x) ==
          x ^ ONE_HUNDRED_PERCENT
            <= factor ^ (ONE_HUNDRED_PERCENT - fee) * INDEX_SCALE ^ fee
    IN Under(r) /\ ~Under(r + 1)

\* The f64 of an odd index reads back as the index below.
MCF64Loss(index) == IF index % 2 = 1 THEN 1 ELSE 0

\* Indices 4, 6 and 9.
UnevenGrowth == {4, 6, 9}

\* Index 4.
NoGrowth == {4}
=============================================================================
