--------------------------------- MODULE Migrate ---------------------------------
(***************************************************************************)
(* migrate_m: the upgrade of an extension from M v1.  The program has been *)
(* upgraded already; its global account still has the layout, and the      *)
(* discriminator, of V1, which every other instruction refuses.  MigrateM  *)
(* rewrites it, carries the indices over, and points the extension to the  *)
(* new M mint and to a new vault account, which somebody has to have       *)
(* filled.  From then on the extension is MExt.                            *)
(*                                                                         *)
(* The last sync of V1 may lie any growth of M back.                       *)
(***************************************************************************)
EXTENDS MExt

CONSTANTS
  V1Indices,   \* the indices the V1 program may have left cached
  V1Supplies,  \* what it may have left minted
  AmountError  \* by how much the earn program's f64 conversion may be off, in units

ASSUME MigrateAssumption ==
  /\ V1Indices \subseteq INDEX_SCALE..MaxIndex
  /\ V1Supplies \subseteq Nat
  /\ AmountError \in Nat

VARIABLES
  version,   \* the layout of the global account: "V1" or "V2"
  shortfall  \* history: see Shortfall

\* A V1 account lacks the pending admin and the yield variant: two entries' worth.
V1Slots(authorities) ==
  IF Cardinality(authorities) < 2 THEN 0 ELSE Cardinality(authorities) - 2

(***************************************************************************)
(* The order of the indices V1 computed with, as far as it is V1's: its    *)
(* ext index never outran the M index it cached.  That one was an integer  *)
(* of the old M; the new mint publishes it as an f64, which may read back  *)
(* as one less, an order V2's sync refuses and the migration does not      *)
(* look at.                                                                *)
(***************************************************************************)
V1Order ==
  /\ last_ext_index <= last_m_index
  /\ last_m_index <= MIndex + 1

\* What V1 leaves behind: an extension with an admin, supply, indices and an empty new vault.
MigrateInit ==
  /\ version = "V1"
  /\ admin \in Accounts
  /\ pending_admin = None
  /\ wrap_authorities \in SUBSET Accounts
  /\ authority_slots = V1Slots(wrap_authorities)
  /\ claim_config = None
  /\ nominator = None
  /\ m_multiplier \in Multipliers
  /\ vault_state \in {"Initialized", "Frozen"}
  /\ vault_amount = 0
  /\ ext_supply \in V1Supplies
  /\ IF YieldVariant = "NoYield"
     THEN last_m_index = INDEX_SCALE ELSE last_m_index \in V1Indices
  /\ IF ScaledUi THEN last_ext_index \in V1Indices ELSE last_ext_index = last_m_index
  /\ V1Order
  /\ ext_multiplier = IF ScaledUi THEN IndexToMultiplier(last_ext_index) ELSE 0
  /\ IF ScaledUi THEN fee_bps \in Fees /\ ValidFee(fee_bps) ELSE fee_bps = 0
  /\ ops = 0
  /\ stale_minted = 0
  /\ shortfall = 0

(***************************************************************************)
(* External: earn's principal_to_amount_down of a principal and an f64.    *)
(* It may compute at the truncated index, or at the multiplier as it is,   *)
(* and each of its f64 operations may round: the amount is any between the *)
(* two results, give or take AmountError.                                  *)
(***************************************************************************)
EarnAmounts(principal, multiplier) ==
  LET least == PrincipalToAmountDown(principal, MultiplierToIndex(multiplier))
      most == (principal * multiplier) \div (INDEX_SCALE * MULTIPLIER_GRAIN)
  IN {amount \in (least - AmountError)..(most + AmountError) : amount >= 0}

\* The supply as an amount: at the multiplier the ext mint shows, which may be an old one.
ExtSupplyAmounts ==
  IF ScaledUi THEN EarnAmounts(ext_supply, ext_multiplier) ELSE {ext_supply}

\* A slip MigrateM could make: any vault will do.
AnyVault == vault_amount >= 0

NewVaultCovers ==
  \E vault_worth \in EarnAmounts(vault_amount, m_multiplier), supply_worth \in ExtSupplyAmounts :
    vault_worth >= supply_worth

\* A slip MigrateM could make: writing the list into the space V1 had.
KeepsV1Space == UNCHANGED authority_slots

ResizeAccount == authority_slots' = SlotsFor(wrap_authorities)

\* Two slips MigrateM could make: a new start at M's index, with nothing paid
\* for it, and the two indices taken for each other.
StartsAfresh == last_m_index' = MIndex /\ last_ext_index' = MIndex
SwapsIndices == last_m_index' = last_ext_index /\ last_ext_index' = last_m_index

CarryIndicesOver == UNCHANGED <<last_m_index, last_ext_index>>

\* History: the M principal that the accepted vault lacks, at the cached indices.
Shortfall ==
  LET needed == CeilDiv(ext_supply * ExtIndex, CachedMIndex)
  IN IF needed > vault_amount THEN needed - vault_amount ELSE 0

(***************************************************************************)
(* migrate.rs.  The account is rewritten under V2's discriminator, so that *)
(* there is no second time.  No index is synced.                           *)
(***************************************************************************)
MigrateM(signer) ==
  /\ version = "V1"
  /\ IsAdmin(signer)
  /\ vault_state = "Initialized"
  /\ NewVaultCovers
  /\ ResizeAccount
  /\ CarryIndicesOver
  /\ pending_admin' = None
  /\ version' = "V2"
  /\ shortfall' = Shortfall
  /\ UNCHANGED <<admin, wrap_authorities, claim_config, nominator, m_multiplier, vault_state,
                 vault_amount, ext_supply, ext_multiplier, fee_bps, historyVars>>

\* Initialize is never possible: the account exists.
MigrateNext ==
  \/ \E signer \in Accounts : MigrateM(signer)
  \/ version = "V2" /\ Operate /\ UNCHANGED <<version, shortfall>>
  \/ Environment /\ UNCHANGED <<version, shortfall>>

migrateVars == <<version, shortfall, vars>>

MigrateSpec == MigrateInit /\ [][MigrateNext]_migrateVars

-----------------------------------------------------------------------------
MigrateTypeOK == MExtTypeOK /\ version \in {"V1", "V2"} /\ shortfall \in Nat

(***************************************************************************)
(* No later sync, wrap, unwrap or claim widens the gap the migration       *)
(* accepted: what the new vault lacked of the supply V1 left is all that   *)
(* the migrated extension lacks, beyond what Backed allows any extension.  *)
(* How wide that gap may be is what the two properties below are about.    *)
(***************************************************************************)
BackedSinceMigration ==
  version = "V2" =>
    ext_supply * ExtIndex <= (vault_amount + ops + stale_minted + shortfall) * CachedMIndex

(***************************************************************************)
(* The rewritten account has room for its list, and keeps fitting it       *)
(* through the additions and removals that follow the migration.           *)
(***************************************************************************)
MigratedAccountFits == version = "V2" => SlotsFitAuthorities

(***************************************************************************)
(* conversion.rs:264 refuses a cached M index above M's own, which is what *)
(* migrate.rs:168-172 may carry over.  Such an extension is locked, with   *)
(* its wraps, unwraps and claims, but the next growth of M unlocks it, and *)
(* one that is not locked never is again while M's index is under the cap. *)
(***************************************************************************)
GrowthUnlocks ==
  [][ScaledUi /\ MIndex' <= MaxIndex /\ (LatestIndexOk \/ MIndex' > MIndex)
       => LatestIndexOk']_migrateVars

(***************************************************************************)
(* migrate.rs:118: the new vault has enough M to cover the supply of the   *)
(* extension.  The supply that counts is that of the next instruction: it  *)
(* syncs first.  Allowed for are what the f64 conversions may lose: one    *)
(* unit of the index of either side, and the rounding of the two amounts.  *)
(***************************************************************************)
MigrationIsCovered ==
  version' # version =>
    ext_supply * (IF ScaledUi THEN NextExtIndex - 1 ELSE NextExtIndex)
      < vault_amount * (MIndex + 1) + (2 * AmountError + 1) * INDEX_SCALE

MigrationsAreCovered == [][(ScaledUi => LatestIndexOk) => MigrationIsCovered]_migrateVars

(***************************************************************************)
(* Where migrate.rs:118 is right: a vault accepted while V1 has nothing    *)
(* left to sync covers the supply of the next instruction, however far     *)
(* M's index and the cached one are apart.                                 *)
(***************************************************************************)
SyncedMigrationsAreCovered ==
  [][(ScaledUi => LatestIndexOk /\ NextExtIndex = ExtIndex) => MigrationIsCovered]_migrateVars
=============================================================================
