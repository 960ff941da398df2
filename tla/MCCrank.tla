-------------------------------- MODULE MCCrank --------------------------------
(***************************************************************************)
(* Small instances of Crank: an index of 1.0 scaled to 4, fees in halves.  *)
(***************************************************************************)
EXTENDS Crank, TLC

\* The crank variant computes no power.
MCPowf(factor, fee) == INDEX_SCALE

\* The f64 of an odd index reads back as the index below.
MCF64Loss(index) == IF index % 2 = 1 THEN 1 ELSE 0

\* Indices 4, 6 and 9.
HalfSteps == {4, 6, 9}

\* Indices 4 and 8.
OneStep == {4, 8}

ManagerSymmetry == Permutations(Managers)
=============================================================================
