--------------------------------- MODULE Custody ---------------------------------
(***************************************************************************)
(* What the swap facility promises about M, without saying how: M is held  *)
(* in the extensions' vaults, in the facility's own account or by the      *)
(* holders; a step moves some of it from one of these to one other.  A     *)
(* swap moves it from vault to vault.  M that is sent to the facility's    *)
(* account stays there, and nobody is ever lent any of it.                 *)
(***************************************************************************)
EXTENDS Naturals

CONSTANTS
  Vaults,    \* one for each extension
  Facility,  \* the facility's own M account
  Holders    \* everybody else

Places == Vaults \cup {Facility, Holders}

VARIABLE held  \* M principal in each place

Init == held \in [Places -> Nat]

Move(from, to) ==
  \E m \in 1..held[from] :
    held' = [held EXCEPT ![from] = @ - m, ![to] = @ + m]

Deposit == \E vault \in Vaults : Move(Holders, vault)

Withdraw == \E vault \in Vaults : Move(vault, Holders)

Exchange == \E from \in Vaults : \E to \in Vaults \ {from} : Move(from, to)

Donate == Move(Holders, Facility)

Next == Deposit \/ Withdraw \/ Exchange \/ Donate

Spec == Init /\ [][Next]_held
=============================================================================
