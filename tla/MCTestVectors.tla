----------------------------- MODULE MCTestVectors -----------------------------
(***************************************************************************)
(* Inputs the unit tests of conversion.rs give calculate_new_index and     *)
(* expect a result for, in units of 1 / 800 of an index of 1.0.            *)
(***************************************************************************)
EXTENDS Conversion

VARIABLE input

MCPowf(factor, fee) == INDEX_SCALE

\* The f64 of an odd index reads back as the index below.
MCF64Loss(index) == IF index % 2 = 1 THEN 1 ELSE 0

\* Cases A, B, I, K and L of test_calculate_new_index_with_fee.
TestInputs ==
  { [ext |-> 800,  last |-> 8,    new |-> 9,    fee |-> 2500],
    [ext |-> 1040, last |-> 1200, new |-> 1320, fee |-> 1500],
    [ext |-> 960,  last |-> 900,  new |-> 1000, fee |-> 1000],
    [ext |-> 1040, last |-> 900,  new |-> 1000, fee |-> 2000],
    [ext |-> 960,  last |-> 900,  new |-> 1000, fee |-> 2000] }

Init == input \in TestInputs

Next == UNCHANGED input

Spec == Init /\ [][Next]_input

(***************************************************************************)
(* Each test unwraps the result: its input must be accepted.  The domain   *)
(* check added to the function rejects a cached M index below the ext one. *)
(***************************************************************************)
TestInputAccepted == ValidIndexInput(input.ext, input.last, input.new, input.fee)
=============================================================================
