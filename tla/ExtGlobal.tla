------------------------------- MODULE ExtGlobal -------------------------------
(***************************************************************************)
(* The governance of an extension: who is its admin, the two-step transfer *)
(* of that role, the accounts permissioned to wrap and unwrap, and the     *)
(* delegation of fee claims.  It is the part of the ExtGlobalV2 account    *)
(* (programs/m_ext/src/state/mod.rs) the admin instructions write, with    *)
(* the ClaimConfig account beside it.                                      *)
(*                                                                         *)
(* An instruction is a transaction: it takes effect as a whole or not at   *)
(* all, so each handler is one action and each error a guard.              *)
(***************************************************************************)
EXTENDS Integers, FiniteSets

CONSTANTS
  Accounts,  \* the public keys that sign, or that name a token account
  None       \* an Option that is None, an account that does not exist

ASSUME AccountsAssumption == IsFiniteSet(Accounts) /\ None \notin Accounts

VARIABLES
  admin,             \* ExtGlobalV2::admin; None until the account is initialized
  pending_admin,     \* ExtGlobalV2::pending_admin
  wrap_authorities,  \* ExtGlobalV2::wrap_authorities: a vector without duplicates, so a set
  authority_slots,   \* how many authorities the account's allocated space has room for
  claim_config,      \* the ClaimConfig account, or None when there is none
  nominator          \* history: the admin who made the pending nomination

govVars == <<admin, pending_admin, wrap_authorities, authority_slots,
             claim_config, nominator>>

ClaimConfig == [claim_authority : Accounts, recipient_token_account : Accounts]

GovTypeOK ==
  /\ admin \in Accounts \cup {None}
  /\ pending_admin \in Accounts \cup {None}
  /\ wrap_authorities \in SUBSET Accounts
  /\ authority_slots \in Nat
  /\ claim_config \in ClaimConfig \cup {None}
  /\ nominator \in Accounts \cup {None}

GovInit ==
  /\ admin = None
  /\ pending_admin = None
  /\ wrap_authorities = {}
  /\ authority_slots = 0
  /\ claim_config = None
  /\ nominator = None

Initialized == admin # None

\* A slip ExtGlobalV2::size could make: one entry short.
OneSlotShort(authorities) == Cardinality(authorities) - 1

\* ExtGlobalV2::size, as the number of authorities there is room for.
SlotsFor(authorities) == Cardinality(authorities)

-----------------------------------------------------------------------------
(***************************************************************************)
(* Initialize creates the account once, with space for the authorities it  *)
(* is given; a list with duplicates is rejected, so the list is a set.     *)
(***************************************************************************)
InitializeGlobal(signer, authorities) ==
  /\ ~Initialized
  /\ admin' = signer
  /\ pending_admin' = None
  /\ wrap_authorities' = authorities
  /\ authority_slots' = SlotsFor(authorities)
  /\ UNCHANGED <<claim_config, nominator>>

\* has_one = admin: the signer is the admin of an existing global account.
IsAdmin(signer) == Initialized /\ signer = admin

TransferAdmin(signer, new_admin) ==
  /\ IsAdmin(signer)
  /\ new_admin # admin
  /\ pending_admin' = new_admin
  /\ nominator' = signer
  /\ UNCHANGED <<admin, wrap_authorities, authority_slots, claim_config>>

\* A slip AcceptAdmin could make: the nomination outlives its acceptance.
KeepNomination == UNCHANGED <<pending_admin, nominator>>

ClearNomination == pending_admin' = None /\ nominator' = None

AcceptAdmin(signer) ==
  /\ Initialized
  /\ pending_admin = signer
  /\ admin' = signer
  /\ ClearNomination
  /\ UNCHANGED <<wrap_authorities, authority_slots, claim_config>>

RevokeAdminTransfer(signer) ==
  /\ IsAdmin(signer)
  /\ pending_admin # None
  /\ ClearNomination
  /\ UNCHANGED <<admin, wrap_authorities, authority_slots, claim_config>>

-----------------------------------------------------------------------------
\* A slip AddWrapAuthority could make: room for the list before the push.
RoomForTheList == SlotsFor(wrap_authorities)

\* The account is reallocated before the push, while the list is still the old one.
RoomForOneMore == SlotsFor(wrap_authorities) + 1

\* An authority already in the list is refused, which is why the list is a set.
AddWrapAuthority(signer, account) ==
  /\ IsAdmin(signer)
  /\ account \notin wrap_authorities
  /\ wrap_authorities' = wrap_authorities \cup {account}
  /\ authority_slots' = RoomForOneMore
  /\ UNCHANGED <<admin, pending_admin, claim_config, nominator>>

\* The account shrinks to what the remaining list needs.
RemoveWrapAuthority(signer, account) ==
  /\ IsAdmin(signer)
  /\ account \in wrap_authorities
  /\ wrap_authorities' = wrap_authorities \ {account}
  /\ authority_slots' = SlotsFor(wrap_authorities')
  /\ UNCHANGED <<admin, pending_admin, claim_config, nominator>>

SetClaimConfig(signer, claim_authority, recipient) ==
  /\ IsAdmin(signer)
  /\ claim_config' = [claim_authority |-> claim_authority,
                      recipient_token_account |-> recipient]
  /\ UNCHANGED <<admin, pending_admin, wrap_authorities, authority_slots, nominator>>

RemoveClaimConfig(signer) ==
  /\ IsAdmin(signer)
  /\ claim_config # None
  /\ claim_config' = None
  /\ UNCHANGED <<admin, pending_admin, wrap_authorities, authority_slots, nominator>>

-----------------------------------------------------------------------------
\* The admin instructions that touch nothing but this state.
GovStep ==
  \E signer \in Accounts :
    \/ \E account \in Accounts :
         \/ TransferAdmin(signer, account)
         \/ AddWrapAuthority(signer, account)
         \/ RemoveWrapAuthority(signer, account)
         \/ \E recipient \in Accounts : SetClaimConfig(signer, account, recipient)
    \/ AcceptAdmin(signer)
    \/ RevokeAdminTransfer(signer)
    \/ RemoveClaimConfig(signer)

GovNext ==
  \/ \E signer \in Accounts, authorities \in SUBSET Accounts :
       InitializeGlobal(signer, authorities)
  \/ GovStep

GovSpec == GovInit /\ [][GovNext]_govVars

-----------------------------------------------------------------------------
(***************************************************************************)
(* A nomination that can be accepted was made by whoever is admin now, and *)
(* names somebody else: no account holds a nomination left over from a     *)
(* previous admin, from a revoked transfer, or from its own acceptance.    *)
(***************************************************************************)
NominationByAdmin ==
  pending_admin # None => nominator = admin /\ pending_admin # admin

(***************************************************************************)
(* The account's allocated space always fits its list exactly, through     *)
(* every order of additions and removals: Anchor serializes the list into  *)
(* that space when the instruction ends.                                   *)
(***************************************************************************)
SlotsFitAuthorities == authority_slots = Cardinality(wrap_authorities)
=============================================================================
