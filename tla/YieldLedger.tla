------------------------------- MODULE YieldLedger -------------------------------
(***************************************************************************)
(* What a claimant of yield is promised, and what everybody else is        *)
(* promised about claimants, whatever the accounts and their managers do:  *)
(* the index grows; a payment covers the growth from where the last one    *)
(* ended up to the index, and no more than the claimant's balance earned   *)
(* in it; growth that was not claimed for may be renounced; and nothing is *)
(* paid for the time before the first day.                                 *)
(*                                                                         *)
(* Fees, managers, rounding and the ways to stop and start again are not   *)
(* here: to stop is to renounce what is to come.                           *)
(***************************************************************************)
EXTENDS Naturals

CONSTANT Claimants

VARIABLES
  index,    \* what a unit of balance has grown to
  claimed,  \* the index up to which each claimant was paid or has renounced
  first,    \* the index of each claimant's first day; 0 before that
  largest,  \* the largest balance each was paid for
  paid      \* all that each was paid

ledger == <<index, claimed, first, largest, paid>>

Init ==
  /\ index \in Nat \ {0}
  /\ claimed = [claimant \in Claimants |-> index]
  /\ first = [claimant \in Claimants |-> 0]
  /\ largest = [claimant \in Claimants |-> 0]
  /\ paid = [claimant \in Claimants |-> 0]

\* Those who renounce the growth as it happens have no claim to it later.
Accrue ==
  /\ index' \in Nat /\ index' > index
  /\ \E renouncing \in SUBSET Claimants :
       claimed' = [claimant \in Claimants |->
                     IF claimant \in renouncing THEN index' ELSE claimed[claimant]]
  /\ UNCHANGED <<first, largest, paid>>

Renounce(claimant) ==
  /\ claimed' = [claimed EXCEPT ![claimant] = index]
  /\ UNCHANGED <<index, first, largest, paid>>

Join(claimant) ==
  /\ first[claimant] = 0
  /\ first' = [first EXCEPT ![claimant] = index]
  /\ claimed' = [claimed EXCEPT ![claimant] = index]
  /\ UNCHANGED <<index, largest, paid>>

Pay(claimant) ==
  /\ first[claimant] # 0
  /\ {largest', paid'} \subseteq [Claimants -> Nat]
  /\ largest[claimant] <= largest'[claimant]
  /\ paid[claimant] <= paid'[claimant]
  /\ (paid'[claimant] - paid[claimant]) * claimed[claimant]
       <= largest'[claimant] * (index - claimed[claimant])
  /\ \A other \in Claimants \ {claimant} :
       largest'[other] = largest[other] /\ paid'[other] = paid[other]
  /\ claimed' = [claimed EXCEPT ![claimant] = index]
  /\ UNCHANGED <<index, first>>

Next ==
  \/ Accrue
  \/ \E claimant \in Claimants : Renounce(claimant) \/ Join(claimant) \/ Pay(claimant)

Spec == Init /\ [][Next]_ledger

(***************************************************************************)
(* No growth is paid for twice: however the payments are split, all of     *)
(* them together are at most what the largest balance earned in one go     *)
(* since the first day.                                                    *)
(***************************************************************************)
PaidOnce ==
  \A claimant \in Claimants :
    paid[claimant] * first[claimant]
      <= largest[claimant] * (claimed[claimant] - first[claimant])
=============================================================================
