--------------------------------- MODULE MExt ---------------------------------
(***************************************************************************)
(* The m_ext program: an extension token backed by M held in a vault.      *)
(*                                                                         *)
(* The variant chosen at compile time decides where M's yield goes.        *)
(*   "ScaledUi"  to the holders, less a fee: the ext mint's multiplier     *)
(*               follows M's at each sync, and the admin claims what the   *)
(*               vault holds beyond what the ext tokens are worth;         *)
(*   "NoYield"   to the admin: an ext token is always worth 1 M;           *)
(*   "Crank"     to earners, by claims this module does not contain; wrap  *)
(*               and unwrap are those of "NoYield".                        *)
(*                                                                         *)
(* External to the program: the M mint, whose multiplier the M earn        *)
(* program raises; the freezing and thawing of the vault's M account when  *)
(* the extension loses or regains its earner status; and the token         *)
(* program.  M and ext balances outside the vault are kept as totals: who  *)
(* of the holders has them is the token program's business, and any holder *)
(* may have all of them.                                                   *)
(***************************************************************************)
EXTENDS Conversion, ExtGlobal

CONSTANTS
  YieldVariant,      \* "ScaledUi", "NoYield" or "Crank"
  Multipliers,       \* the multipliers the M earn program may publish
  MSupply,           \* M principal in existence, in the vault or out of it
  Fees,              \* the fees an admin passes to Initialize and SetFee, valid or not
  Amounts,           \* the amounts passed to Wrap and Unwrap
  CreationSupplies,  \* what the ext mint may have minted before Initialize
  CreationMultipliers,  \* the multipliers the ext mint may have been created with
  MaxOps,            \* bound: wraps and unwraps in a behaviour
  MaxStaleMinted     \* bound: holders burn no more once stale_minted has reached it

ASSUME MExtAssumption ==
  /\ YieldVariant \in {"ScaledUi", "NoYield", "Crank"}
  /\ Multipliers \subseteq Nat
  /\ \A multiplier \in Multipliers : MultiplierToIndex(multiplier) >= INDEX_SCALE
  /\ MSupply \in Nat
  /\ Fees \subseteq Nat
  /\ Amounts \subseteq Nat
  /\ CreationSupplies \subseteq Nat
  /\ CreationMultipliers \subseteq Nat
  /\ MaxOps \in Nat
  /\ MaxStaleMinted \in Nat

VARIABLES
  m_multiplier,    \* external: the M mint's new_multiplier
  vault_state,     \* external: state of the vault's M account, "Initialized" or "Frozen"
  vault_amount,    \* M principal in the vault
  ext_supply,      \* the ext mint's supply, in principal
  ext_multiplier,  \* the ext mint's multiplier
  fee_bps,         \* YieldConfig::fee_bps
  last_m_index,    \* YieldConfig::last_m_index
  last_ext_index,  \* YieldConfig::last_ext_index
  ops,             \* history: wraps and unwraps so far
  stale_minted     \* history: see StaleMinted

yieldVars == <<fee_bps, last_m_index, last_ext_index>>
historyVars == <<ops, stale_minted>>
acctVars == <<m_multiplier, vault_state, vault_amount, ext_supply, ext_multiplier,
              yieldVars, historyVars>>
vars == <<govVars, acctVars>>

ScaledUi == YieldVariant = "ScaledUi"

\* The index of the M mint as every instruction reads it.
MIndex == MultiplierToIndex(m_multiplier)

\* The indices wrap, unwrap and the claims compute with: only "ScaledUi" caches its own.
ExtIndex == IF ScaledUi THEN last_ext_index ELSE INDEX_SCALE
CachedMIndex == IF ScaledUi THEN last_m_index ELSE MIndex

\* A slip a fee's validation could make: whatever is passed is a fee.
AnyFee(fee) == fee \in Fees

ValidFee(fee) == fee <= ONE_HUNDRED_PERCENT

Init ==
  /\ GovInit
  /\ m_multiplier \in Multipliers
  /\ vault_state \in {"Initialized", "Frozen"}
  /\ vault_amount = 0
  /\ ext_supply \in CreationSupplies
  /\ ext_multiplier \in CreationMultipliers
  /\ fee_bps = 0
  /\ last_m_index = INDEX_SCALE
  /\ last_ext_index = INDEX_SCALE
  /\ ops = 0
  /\ stale_minted = 0

-----------------------------------------------------------------------------
(***************************************************************************)
(* sync_index.  LatestExtIndex is what get_latest_index_and_timestamp      *)
(* computes from the cached indices, an error unless LatestIndexOk.        *)
(***************************************************************************)
LatestIndexOk ==
  MIndex = last_m_index
    \/ ValidIndexInput(last_ext_index, last_m_index, MIndex, fee_bps)

LatestExtIndex(ext_index, m_index, fee) ==
  IF MIndex = m_index THEN ext_index ELSE CalculateNewIndex(ext_index, m_index, MIndex, fee)

\* Three slips RecordIndex could make: paying a frozen vault's holders,
\* leaving the mint's multiplier alone, and failing while the vault is frozen.
RecordIgnoringFreeze(ext_index) ==
  /\ ext_multiplier' = IndexToMultiplier(ext_index)
  /\ last_m_index' = MIndex
  /\ last_ext_index' = ext_index

RecordWithoutMultiplier(ext_index) ==
  /\ last_m_index' = MIndex
  /\ last_ext_index' = IF vault_state = "Initialized" THEN ext_index ELSE last_ext_index
  /\ UNCHANGED ext_multiplier

RecordOnlyThawed(ext_index) ==
  /\ vault_state = "Initialized"
  /\ RecordIgnoringFreeze(ext_index)

\* An earning vault moves all three; a frozen one only skips M's growth.
RecordIndex(ext_index) ==
  /\ last_m_index' = MIndex
  /\ \/ /\ vault_state = "Initialized"
        /\ ext_multiplier' = IndexToMultiplier(ext_index)
        /\ last_ext_index' = ext_index
     \/ /\ vault_state # "Initialized"
        /\ UNCHANGED <<ext_multiplier, last_ext_index>>

\* Nothing at all is recorded while the ext index would stay the same.
SyncIndex ==
  \/ /\ ScaledUi
     /\ LatestIndexOk
     /\ LET ext_index == LatestExtIndex(last_ext_index, last_m_index, fee_bps) IN
          \/ ext_index = last_ext_index
               /\ UNCHANGED <<ext_multiplier, last_m_index, last_ext_index>>
          \/ ext_index # last_ext_index /\ RecordIndex(ext_index)
  \/ /\ ~ScaledUi
     /\ UNCHANGED <<ext_multiplier, last_m_index, last_ext_index>>

\* A slip sync_index could make: it returns the index from before the sync.
IndexBeforeSync == IF ScaledUi THEN last_ext_index ELSE INDEX_SCALE

\* The index sync_index returns: the recorded one, or 1.0 in the other variants.
SyncedExtIndex == IF ScaledUi THEN last_ext_index' ELSE INDEX_SCALE

(***************************************************************************)
(* History: M principal worth of ext tokens, at the cached M index, minted *)
(* against less than that while the cached index lags the M mint's.  When  *)
(* the cached index catches up the next sync pays these tokens for growth  *)
(* that happened before they were minted.                                  *)
(***************************************************************************)
StaleMinted(ext_principal, m_principal) ==
  LET worth == CeilDiv(ext_principal * last_ext_index', last_m_index')
  IN IF ScaledUi /\ last_m_index' # MIndex /\ worth > m_principal
     THEN worth - m_principal ELSE 0

-----------------------------------------------------------------------------
\* The signer that counts is the wrap authority if one signs, else the token's.
Permissioned(token_authority, wrap_authority) ==
  IF wrap_authority = None
  THEN token_authority \in wrap_authorities ELSE wrap_authority \in wrap_authorities

(***************************************************************************)
(* wrap.rs.  M principal and ext principal are both rounded down from the  *)
(* same amount, each at its own index.  A frozen vault account refuses the *)
(* transfer, which undoes the sync with the rest of the transaction.       *)
(***************************************************************************)
Wrap(token_authority, wrap_authority, amount) ==
  /\ Initialized
  /\ Permissioned(token_authority, wrap_authority)
  /\ amount # 0
  /\ ops < MaxOps
  /\ SyncIndex
  /\ LET m_principal == AmountToPrincipalDown(amount, MIndex)
         ext_principal == AmountToPrincipalDown(amount, SyncedExtIndex)
     IN /\ m_principal > 0
        /\ ext_principal > 0
        /\ vault_state = "Initialized"
        /\ vault_amount + m_principal <= MSupply
        /\ vault_amount' = vault_amount + m_principal
        /\ ext_supply' = ext_supply + ext_principal
        /\ stale_minted' = stale_minted + StaleMinted(ext_principal, m_principal + 1)
  /\ ops' = ops + 1
  /\ UNCHANGED <<govVars, m_multiplier, vault_state, fee_bps>>

\* unwrap.rs: the same conversions, the tokens move the other way.
Unwrap(token_authority, unwrap_authority, amount) ==
  /\ Initialized
  /\ Permissioned(token_authority, unwrap_authority)
  /\ amount # 0
  /\ ops < MaxOps
  /\ SyncIndex
  /\ LET ext_principal == AmountToPrincipalDown(amount, SyncedExtIndex)
         m_principal == AmountToPrincipalDown(amount, MIndex)
     IN /\ m_principal > 0
        /\ ext_principal > 0
        /\ ext_principal <= ext_supply
        /\ vault_state = "Initialized"
        /\ m_principal <= vault_amount
        /\ ext_supply' = ext_supply - ext_principal
        /\ vault_amount' = vault_amount - m_principal
  /\ ops' = ops + 1
  /\ UNCHANGED <<govVars, m_multiplier, vault_state, fee_bps, stale_minted>>

(***************************************************************************)
(* claim_excess: what the vault is worth, rounded down, beyond what the    *)
(* ext tokens are worth, rounded up, is minted as ext tokens.  Nothing is  *)
(* minted when it is less than a unit; less than none is an error.         *)
(***************************************************************************)
ClaimExcess ==
  /\ vault_state = "Initialized"
  /\ SyncIndex
  /\ LET required_m == PrincipalToAmountUp(ext_supply, SyncedExtIndex)
         vault_m == PrincipalToAmountDown(vault_amount, MIndex)
         excess_principal == AmountToPrincipalDown(vault_m - required_m, SyncedExtIndex)
     IN /\ vault_m >= required_m
        /\ ext_supply' = ext_supply + excess_principal
        /\ stale_minted' = stale_minted + StaleMinted(excess_principal, 0)
  /\ UNCHANGED <<govVars, m_multiplier, vault_state, vault_amount, fee_bps, ops>>

HasClaims == YieldVariant # "Crank"

ClaimFees(signer) == HasClaims /\ IsAdmin(signer) /\ ClaimExcess

ClaimFeesDelegated(signer, recipient) ==
  /\ HasClaims
  /\ Initialized
  /\ claim_config # None
  /\ signer = claim_config.claim_authority
  /\ recipient = claim_config.recipient_token_account
  /\ ClaimExcess

-----------------------------------------------------------------------------
(***************************************************************************)
(* initialize.rs: the vault must be thawed and the ext mint unissued.  The *)
(* call of sync_index that ends the handler sees the indices just set.     *)
(***************************************************************************)
Initialize(signer, authorities, fee) ==
  /\ InitializeGlobal(signer, authorities)
  /\ vault_state = "Initialized"
  /\ ext_supply = 0
  /\ IF ScaledUi
     THEN /\ ValidFee(fee)
          /\ fee_bps' = fee
          /\ last_m_index' = MIndex
          /\ last_ext_index' = LatestExtIndex(INDEX_SCALE, MIndex, fee)
          /\ ext_multiplier' = IF last_ext_index' = INDEX_SCALE
                               THEN ext_multiplier ELSE IndexToMultiplier(last_ext_index')
     ELSE /\ last_m_index' = IF YieldVariant = "Crank" THEN MIndex ELSE last_m_index
          /\ last_ext_index' = INDEX_SCALE
          /\ UNCHANGED <<fee_bps, ext_multiplier>>
  /\ UNCHANGED <<m_multiplier, vault_state, vault_amount, ext_supply, historyVars>>

\* scaled_ui/set_fee.rs
SetFee(signer, fee) ==
  /\ ScaledUi
  /\ IsAdmin(signer)
  /\ ValidFee(fee)
  /\ SyncIndex
  /\ fee_bps' = fee
  /\ UNCHANGED <<govVars, m_multiplier, vault_state, vault_amount, ext_supply, historyVars>>

\* scaled_ui/sync.rs: nobody's permission is needed.
Sync ==
  /\ ScaledUi
  /\ Initialized
  /\ SyncIndex
  /\ UNCHANGED <<govVars, m_multiplier, vault_state, vault_amount, ext_supply, fee_bps,
                 historyVars>>

\* The admin instructions of ExtGlobal; the crank variant has no claim config.
Govern ==
  /\ GovStep
  /\ HasClaims \/ claim_config' = claim_config
  /\ UNCHANGED acctVars

-----------------------------------------------------------------------------
(***************************************************************************)
(* The environment.                                                        *)
(***************************************************************************)
\* The M earn program publishes M's multiplier, which never falls.
PropagateIndex(multiplier) ==
  /\ multiplier > m_multiplier
  /\ m_multiplier' = multiplier
  /\ UNCHANGED <<govVars, vault_state, vault_amount, ext_supply, ext_multiplier, yieldVars,
                 historyVars>>

\* The extension stops being an approved earner of M, or becomes one again.
SetVaultState(state) ==
  /\ vault_state # state
  /\ vault_state' = state
  /\ UNCHANGED <<govVars, m_multiplier, vault_amount, ext_supply, ext_multiplier, yieldVars,
                 historyVars>>

\* Anybody may send M to the vault's account.
Donate ==
  /\ vault_state = "Initialized"
  /\ vault_amount < MSupply
  /\ vault_amount' = vault_amount + 1
  /\ UNCHANGED <<govVars, m_multiplier, vault_state, ext_supply, ext_multiplier, yieldVars,
                 historyVars>>

\* Any holder may burn ext tokens with the token program.
BurnExt ==
  /\ ext_supply > 0
  /\ stale_minted < MaxStaleMinted
  /\ ext_supply' = ext_supply - 1
  /\ UNCHANGED <<govVars, m_multiplier, vault_state, vault_amount, ext_multiplier, yieldVars,
                 historyVars>>

Environment ==
  \/ \E multiplier \in Multipliers : PropagateIndex(multiplier)
  \/ \E state \in {"Initialized", "Frozen"} : SetVaultState(state)
  \/ Donate
  \/ BurnExt

\* Every instruction but Initialize.
Operate ==
  \/ \E signer \in Accounts :
       \/ \E other \in Accounts \cup {None}, amount \in Amounts :
            Wrap(signer, other, amount) \/ Unwrap(signer, other, amount)
       \/ ClaimFees(signer)
       \/ \E recipient \in Accounts : ClaimFeesDelegated(signer, recipient)
       \/ \E fee \in Fees : SetFee(signer, fee)
  \/ Sync
  \/ Govern

Instruction ==
  \/ \E signer \in Accounts, authorities \in SUBSET Accounts, fee \in Fees :
       Initialize(signer, authorities, fee)
  \/ Operate

Next == Instruction \/ Environment

Spec == Init /\ [][Next]_vars

\* sync takes no signer: whoever is owed yield can call it, and in the end somebody does.
FairSpec == Spec /\ WF_vars(Sync)

-----------------------------------------------------------------------------
MExtTypeOK ==
  /\ GovTypeOK
  /\ m_multiplier \in Multipliers
  /\ vault_state \in {"Initialized", "Frozen"}
  /\ vault_amount \in 0..MSupply
  /\ ext_supply \in Nat
  /\ ext_multiplier \in Nat
  /\ fee_bps \in 0..ONE_HUNDRED_PERCENT
  /\ last_m_index \in Nat
  /\ last_ext_index \in Nat
  /\ ops \in 0..MaxOps
  /\ stale_minted \in Nat

(***************************************************************************)
(* The order of the indices calculate_new_index calls natural: 1.0, ext,   *)
(* cached M, M.  Truncation, fees, frozen periods and syncs that record    *)
(* nothing all have to keep it, or no instruction would sync again.        *)
(***************************************************************************)
IndexDomain ==
  /\ INDEX_SCALE <= last_ext_index
  /\ last_ext_index <= last_m_index
  /\ last_m_index <= MIndex

(***************************************************************************)
(* No history of fees, freezes and syncs makes sync_index fail, and with   *)
(* it wrap, unwrap and every claim, as long as M's index is under the cap. *)
(***************************************************************************)
NeverLockedOut ==
  ScaledUi /\ Initialized /\ MIndex <= MaxIndex => LatestIndexOk

(***************************************************************************)
(* The vault backs the ext tokens, at the indices the program has cached,  *)
(* but for one unit of M principal per wrap or unwrap and for what was     *)
(* minted against a lagging index.  It relates the two rounding            *)
(* directions of every instruction to the growth of the two indices.       *)
(***************************************************************************)
Backed ==
  Initialized =>
    ext_supply * ExtIndex <= (vault_amount + ops + stale_minted) * CachedMIndex

(***************************************************************************)
(* The same at M's own index, without the allowance for a lagging one:     *)
(* what the tests call solvent, up to the rounding of each operation.      *)
(***************************************************************************)
SolventWithinRounding ==
  Initialized => ext_supply * ExtIndex <= (vault_amount + ops) * MIndex

\* The ext index an instruction of this moment computes with.
NextExtIndex ==
  IF ScaledUi THEN LatestExtIndex(last_ext_index, last_m_index, fee_bps) ELSE INDEX_SCALE

(***************************************************************************)
(* The holders can leave together, whatever was wrapped, claimed and       *)
(* synced before: there is an amount whose unwrap burns the supply to the  *)
(* last unit, and the M it pays out is in the vault but for the allowance  *)
(* of Backed.  The sync that unwrap.rs starts with is part of it: what it  *)
(* gives the holders has to be in the vault as well.  And the amount, the  *)
(* widest number the claims compute, fits in a u64 where M's worth does.   *)
(***************************************************************************)
WholeSupplyCanLeave ==
  Initialized /\ (ScaledUi => LatestIndexOk) =>
    LET amount == PrincipalToAmountUp(ext_supply, NextExtIndex)
    IN /\ AmountToPrincipalDown(amount, NextExtIndex) = ext_supply
       /\ AmountToPrincipalDown(amount, MIndex) <= vault_amount + ops + stale_minted
       /\ amount <= PrincipalToAmountUp(vault_amount + ops + stale_minted, MIndex)

(***************************************************************************)
(* The multiplier wallets show is the index the program computes with:     *)
(* initialize.rs:112 says Initialize sets it to 1.0, and every sync after  *)
(* it that changes the one must change the other.                          *)
(***************************************************************************)
MultiplierMatchesIndex ==
  ScaledUi /\ Initialized => ext_multiplier = IndexToMultiplier(last_ext_index)

(***************************************************************************)
(* Holders are never paid more than M earned since the last sync, nothing  *)
(* is ever taken back, and nothing is paid by a step of a frozen vault.    *)
(***************************************************************************)
GrowthIsFair ==
  Initialized =>
    /\ last_ext_index' * last_m_index <= last_ext_index * last_m_index'
    /\ last_ext_index <= last_ext_index'
    /\ vault_state = "Frozen" => last_ext_index' = last_ext_index

FairGrowth == [][GrowthIsFair]_vars

(***************************************************************************)
(* A claim, the only step that mints without receiving M, never takes what *)
(* the holders need: afterwards the vault, at M's index, is worth the      *)
(* whole supply, with no allowance for rounding.                           *)
(***************************************************************************)
ClaimIsCovered ==
  ext_supply' > ext_supply /\ vault_amount' = vault_amount =>
    ext_supply' * ExtIndex' <= vault_amount * MIndex

ClaimsLeaveCollateral == [][ClaimIsCovered]_vars

(***************************************************************************)
(* Once M stops growing the holders have what it earned: from some point   *)
(* on a sync would change nothing, however fees and freezes interleave.    *)
(***************************************************************************)
CatchesUp ==
  <>[](ScaledUi /\ Initialized /\ MIndex <= MaxIndex =>
         LatestExtIndex(last_ext_index, last_m_index, fee_bps) = last_ext_index)

(***************************************************************************)
(* The extension implements BackedToken: behind the roundings of the       *)
(* handlers, each in its own direction and some at a lagging index, no     *)
(* wrap and no unwrap is off by a unit's worth, against the vault or       *)
(* against the holder, and no claim takes what backs the supply.           *)
(***************************************************************************)
Promise == INSTANCE BackedToken WITH
  reserve <- vault_amount, supply <- ext_supply, m_index <- MIndex,
  paid_index <- CachedMIndex, token_index <- ExtIndex

KeepsItsPromise == Promise!Spec
=============================================================================
