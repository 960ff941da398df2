--------------------------------- MODULE ExtSwap ---------------------------------
(***************************************************************************)
(* The ext_swap facility with two extensions, X and Y: two instances of    *)
(* MExt, each scaled-ui or no-yield, over the one M mint.  Whoever holds   *)
(* ext tokens may swap them through the facility, which unwraps them in    *)
(* the one extension and wraps the M in the other, in one transaction.     *)
(*                                                                         *)
(* A call into an extension is the action of MExt with the arguments the   *)
(* facility passes.  The two calls of a swap write different accounts, so  *)
(* that the swap is their conjunction, with the facility's M account       *)
(* between them.  An error of either call undoes both.                     *)
(*                                                                         *)
(* Of the extensions' own instructions this module has those that move     *)
(* tokens or change who may wrap; the others are in MExt.  The facility's  *)
(* key is derived from its program and has no private key: it signs        *)
(* nothing but its calls into the extensions.                              *)
(***************************************************************************)
EXTENDS SwapGlobal

CONSTANTS
  INDEX_SCALE, ONE_HUNDRED_PERCENT, MAX_INDEX_FACTOR, MULTIPLIER_GRAIN, F64Loss(_),
  Powf(_, _), Multipliers, MSupply, Fees, Amounts, CreationSupplies, CreationMultipliers,
  MaxOps, MaxStaleMinted,
  ProgramX, ProgramY,   \* the addresses of the two extension programs
  VariantX, VariantY,   \* their variants
  Facility,             \* swap_global: the key the facility signs with
  AuthorityLists,       \* the lists an extension may be initialized with
  Permittable           \* the keys an extension's admin may add to its list or remove

ASSUME ExtSwapAssumption ==
  /\ ProgramX # ProgramY
  /\ {ProgramX, ProgramY} \subseteq Programs
  /\ Facility \in Accounts
  /\ AuthorityLists \subseteq SUBSET Accounts
  /\ Permittable \subseteq Accounts

VARIABLES
  m_multiplier,  \* external: the M mint's multiplier, which both extensions read
  swap_m,        \* M principal in the facility's own M account
  takers,        \* history: who signed the last step, if it may take M from a vault
  x_admin, x_pending_admin, x_wrap_authorities, x_authority_slots, x_claim_config,
  x_nominator, x_vault_state, x_vault_amount, x_ext_supply, x_ext_multiplier,
  x_fee_bps, x_last_m_index, x_last_ext_index, x_ops, x_stale_minted,
  y_admin, y_pending_admin, y_wrap_authorities, y_authority_slots, y_claim_config,
  y_nominator, y_vault_state, y_vault_amount, y_ext_supply, y_ext_multiplier,
  y_fee_bps, y_last_m_index, y_last_ext_index, y_ops, y_stale_minted

X == INSTANCE MExt WITH
  YieldVariant <- VariantX,
  admin <- x_admin, pending_admin <- x_pending_admin,
  wrap_authorities <- x_wrap_authorities, authority_slots <- x_authority_slots,
  claim_config <- x_claim_config, nominator <- x_nominator,
  vault_state <- x_vault_state, vault_amount <- x_vault_amount,
  ext_supply <- x_ext_supply, ext_multiplier <- x_ext_multiplier, fee_bps <- x_fee_bps,
  last_m_index <- x_last_m_index, last_ext_index <- x_last_ext_index,
  ops <- x_ops, stale_minted <- x_stale_minted

Y == INSTANCE MExt WITH
  YieldVariant <- VariantY,
  admin <- y_admin, pending_admin <- y_pending_admin,
  wrap_authorities <- y_wrap_authorities, authority_slots <- y_authority_slots,
  claim_config <- y_claim_config, nominator <- y_nominator,
  vault_state <- y_vault_state, vault_amount <- y_vault_amount,
  ext_supply <- y_ext_supply, ext_multiplier <- y_ext_multiplier, fee_bps <- y_fee_bps,
  last_m_index <- y_last_m_index, last_ext_index <- y_last_ext_index,
  ops <- y_ops, stale_minted <- y_stale_minted

xGovVars == <<x_admin, x_pending_admin, x_wrap_authorities, x_authority_slots,
              x_claim_config, x_nominator>>
xAcctVars == <<x_vault_state, x_vault_amount, x_ext_supply, x_ext_multiplier, x_fee_bps,
               x_last_m_index, x_last_ext_index, x_ops, x_stale_minted>>
yGovVars == <<y_admin, y_pending_admin, y_wrap_authorities, y_authority_slots,
              y_claim_config, y_nominator>>
yAcctVars == <<y_vault_state, y_vault_amount, y_ext_supply, y_ext_multiplier, y_fee_bps,
               y_last_m_index, y_last_ext_index, y_ops, y_stale_minted>>

\* What an extension assumes of its constants (see MExt, Conversion), for both.
ASSUME ExtensionsAssumption ==
  /\ {VariantX, VariantY} \subseteq {"ScaledUi", "NoYield"}
  /\ INDEX_SCALE \in Nat \ {0}
  /\ ONE_HUNDRED_PERCENT \in Nat \ {0}
  /\ MAX_INDEX_FACTOR \in Nat \ {0}
  /\ MULTIPLIER_GRAIN \in Nat \ {0}
  /\ \A factor \in INDEX_SCALE..X!MaxIndex, fee \in 1..ONE_HUNDRED_PERCENT :
       /\ Powf(factor, fee) \in INDEX_SCALE..factor
       /\ fee = ONE_HUNDRED_PERCENT => Powf(factor, fee) = INDEX_SCALE
  /\ \A index \in INDEX_SCALE..X!MaxIndex : F64Loss(index) \in 0..MULTIPLIER_GRAIN
  /\ F64Loss(INDEX_SCALE) = 0
  /\ Multipliers \subseteq Nat
  /\ \A multiplier \in Multipliers : X!MultiplierToIndex(multiplier) >= INDEX_SCALE
  /\ MSupply \in Nat /\ MaxOps \in Nat /\ MaxStaleMinted \in Nat
  /\ Fees \subseteq Nat /\ Amounts \subseteq Nat
  /\ CreationSupplies \subseteq Nat /\ CreationMultipliers \subseteq Nat

\* What one extension consists of; M's multiplier is no part of it.
xVars == <<xGovVars, xAcctVars>>
yVars == <<yGovVars, yAcctVars>>

vars == <<swapGlobalVars, m_multiplier, swap_m, takers, xVars, yVars>>

Signers == Accounts \ {Facility}

\* The M that is with nobody in particular: neither in a vault nor in the facility's account.
HoldersM == MSupply - x_vault_amount - y_vault_amount - swap_m

Init ==
  /\ SwapGlobalInit
  /\ swap_m = 0
  /\ takers = {}
  /\ X!Init
  /\ Y!Init

-----------------------------------------------------------------------------
(***************************************************************************)
(* The calls into the extensions.                                          *)
(***************************************************************************)
ExtWrap(program, token_authority, wrap_authority, amount) ==
  \/ program = ProgramX /\ X!Wrap(token_authority, wrap_authority, amount)
  \/ program = ProgramY /\ Y!Wrap(token_authority, wrap_authority, amount)

ExtUnwrap(program, token_authority, unwrap_authority, amount) ==
  \/ program = ProgramX /\ X!Unwrap(token_authority, unwrap_authority, amount)
  \/ program = ProgramY /\ Y!Unwrap(token_authority, unwrap_authority, amount)

\* A transaction that calls one extension leaves the other alone.
NotCalled(program) ==
  \/ program = ProgramX /\ UNCHANGED xVars
  \/ program = ProgramY /\ UNCHANGED yVars

Other(program) == IF program = ProgramX THEN ProgramY ELSE ProgramX

VaultAmount(program) == IF program = ProgramX THEN x_vault_amount ELSE y_vault_amount

\* The facility signs itself when no authority comes with the transaction.
SignedBy(authority) == IF authority = None THEN Facility ELSE authority

\* History: a step that unwraps, in one extension or in the first of two, was signed by keys.
TakenBy(keys) == takers' = keys \ {None}

\* A slip Unwrap could make: the facility is its own unwrapper.
AnyUnwrapper(key) == TRUE

IsUnwrapper(key) == key \in whitelisted_unwrappers

-----------------------------------------------------------------------------
(***************************************************************************)
(* ext_swap/instructions/wrap.rs: open to whoever has M.                   *)
(***************************************************************************)
SwapWrap(signer, program, wrap_authority, amount) ==
  /\ IsExtensionWhitelisted(program)
  /\ amount # 0
  /\ ExtWrap(program, signer, SignedBy(wrap_authority), amount)
  /\ NotCalled(Other(program))
  /\ TakenBy({})
  /\ UNCHANGED <<swapGlobalVars, swap_m>>
  /\ HoldersM' >= 0

(***************************************************************************)
(* ext_swap/instructions/unwrap.rs: for whitelisted unwrappers, who may    *)
(* sign beside the owner of the tokens.                                    *)
(***************************************************************************)
SwapUnwrap(signer, program, unwrap_authority, amount) ==
  /\ IsExtensionWhitelisted(program)
  /\ IsUnwrapper(IF unwrap_authority = None THEN signer ELSE unwrap_authority)
  /\ amount # 0
  /\ ExtUnwrap(program, signer, SignedBy(unwrap_authority), amount)
  /\ NotCalled(Other(program))
  /\ TakenBy({signer, unwrap_authority})
  /\ UNCHANGED <<swapGlobalVars, swap_m>>

\* A slip Swap could make: what it wraps is the amount and all it had before.
AmountAndBalance(amount) == amount + X!PrincipalToAmountDown(swap_m, X!MIndex)

\* What is wrapped is the amount that was unwrapped, whatever M came of it.
WrappedAmount(amount) == amount

(***************************************************************************)
(* ext_swap/instructions/swap.rs: the M of the unwrap goes to the          *)
(* facility's account, and the wrap takes what it needs from there.        *)
(***************************************************************************)
Swap(signer, from, to, unwrap_authority, wrap_authority, amount) ==
  /\ from # to
  /\ IsExtensionWhitelisted(from)
  /\ IsExtensionWhitelisted(to)
  /\ amount # 0
  /\ ExtUnwrap(from, signer, SignedBy(unwrap_authority), amount)
  /\ ExtWrap(to, Facility, SignedBy(wrap_authority), WrappedAmount(amount))
  /\ swap_m' = swap_m + (VaultAmount(from) - VaultAmount(from)')
                      - (VaultAmount(to)' - VaultAmount(to))
  /\ swap_m' >= 0
  /\ TakenBy({signer, unwrap_authority, wrap_authority})
  /\ UNCHANGED swapGlobalVars

UseFacility ==
  \E signer \in Signers, amount \in Amounts, program \in {ProgramX, ProgramY},
     authority \in Signers \cup {None} :
    \/ SwapWrap(signer, program, authority, amount)
    \/ SwapUnwrap(signer, program, authority, amount)
    \/ \E wrap_authority \in Signers \cup {None} :
         Swap(signer, program, Other(program), authority, wrap_authority, amount)

AdministerFacility ==
  /\ \E signer \in Signers : AdministerSwap(signer)
  /\ TakenBy({})
  /\ UNCHANGED <<m_multiplier, swap_m, xVars, yVars>>

-----------------------------------------------------------------------------
(***************************************************************************)
(* Instructions sent to an extension directly, and its environment.        *)
(***************************************************************************)
UseX ==
  \/ \E signer \in Signers :
       \/ \E other \in Signers \cup {None}, amount \in Amounts : X!Wrap(signer, other, amount)
       \/ X!ClaimFees(signer)
       \/ \E fee \in Fees : X!SetFee(signer, fee)
       \/ \E authorities \in AuthorityLists, fee \in Fees :
            X!Initialize(signer, authorities, fee)
       \/ \E account \in Permittable :
            /\ X!AddWrapAuthority(signer, account) \/ X!RemoveWrapAuthority(signer, account)
            /\ UNCHANGED <<m_multiplier, xAcctVars>>
  \/ X!Sync
  \/ \E state \in {"Initialized", "Frozen"} : X!SetVaultState(state)
  \/ X!Donate
  \/ X!BurnExt

UseY ==
  \/ \E signer \in Signers :
       \/ \E other \in Signers \cup {None}, amount \in Amounts : Y!Wrap(signer, other, amount)
       \/ Y!ClaimFees(signer)
       \/ \E fee \in Fees : Y!SetFee(signer, fee)
       \/ \E authorities \in AuthorityLists, fee \in Fees :
            Y!Initialize(signer, authorities, fee)
       \/ \E account \in Permittable :
            /\ Y!AddWrapAuthority(signer, account) \/ Y!RemoveWrapAuthority(signer, account)
            /\ UNCHANGED <<m_multiplier, yAcctVars>>
  \/ Y!Sync
  \/ \E state \in {"Initialized", "Frozen"} : Y!SetVaultState(state)
  \/ Y!Donate
  \/ Y!BurnExt

UnwrapDirectly ==
  \E signer \in Signers, other \in Signers \cup {None}, amount \in Amounts :
    /\ \/ X!Unwrap(signer, other, amount) /\ UNCHANGED yVars
       \/ Y!Unwrap(signer, other, amount) /\ UNCHANGED xVars
    /\ TakenBy({signer, other})

UseExtension ==
  /\ \/ UseX /\ UNCHANGED yVars /\ TakenBy({})
     \/ UseY /\ UNCHANGED xVars /\ TakenBy({})
     \/ UnwrapDirectly
  /\ UNCHANGED <<swapGlobalVars, swap_m>>
  /\ HoldersM' >= 0

\* Both extensions see M's multiplier rise at once.
PropagateToBoth ==
  /\ \E multiplier \in Multipliers : X!PropagateIndex(multiplier) /\ Y!PropagateIndex(multiplier)
  /\ TakenBy({})
  /\ UNCHANGED <<swapGlobalVars, swap_m>>

\* Anybody may send M to the facility's account.
DonateToFacility ==
  /\ HoldersM > 0
  /\ swap_m' = swap_m + 1
  /\ TakenBy({})
  /\ UNCHANGED <<swapGlobalVars, m_multiplier, xVars, yVars>>

Next ==
  \/ UseFacility
  \/ AdministerFacility
  \/ UseExtension
  \/ PropagateToBoth
  \/ DonateToFacility

Spec == Init /\ [][Next]_vars

-----------------------------------------------------------------------------
ExtSwapTypeOK ==
  /\ SwapGlobalTypeOK
  /\ X!MExtTypeOK
  /\ Y!MExtTypeOK
  /\ swap_m \in 0..MSupply
  /\ takers \subseteq Signers
  /\ HoldersM \in 0..MSupply

(***************************************************************************)
(* Whatever goes through the facility, and in whichever order, each of the *)
(* two vaults backs its own ext tokens up to a unit for each call it got.  *)
(***************************************************************************)
ExtensionsBacked == X!Backed /\ Y!Backed

(***************************************************************************)
(* What each extension promises its holders it keeps with the facility as  *)
(* its caller: neither the two roundings of a swap nor claims, fees and    *)
(* syncs of the other extension reach them.                                *)
(***************************************************************************)
ExtensionsKeepTheirPromises == X!KeepsItsPromise /\ Y!KeepsItsPromise

(***************************************************************************)
(* A swap preserves value (ext_swap.test.ts:2022-2024).  The ext tokens    *)
(* burned in the one extension and those minted in the other are worth the *)
(* same, each at its own index, but for less than one unit of either.      *)
(* Only a swap changes both supplies at once.                              *)
(***************************************************************************)
WorthTheSame(burned, burned_index, minted, minted_index) ==
  /\ minted * minted_index < (burned + 1) * burned_index
  /\ burned * burned_index < (minted + 1) * minted_index

SwapIsFair ==
  /\ x_ext_supply' < x_ext_supply /\ y_ext_supply' > y_ext_supply =>
       WorthTheSame(x_ext_supply - x_ext_supply', X!ExtIndex',
                    y_ext_supply' - y_ext_supply, Y!ExtIndex')
  /\ y_ext_supply' < y_ext_supply /\ x_ext_supply' > x_ext_supply =>
       WorthTheSame(y_ext_supply - y_ext_supply', Y!ExtIndex',
                    x_ext_supply' - x_ext_supply, X!ExtIndex')

SwapsAreFair == [][SwapIsFair]_vars

(***************************************************************************)
(* Two programs decide together who may take M out of a vault: the         *)
(* extension's list and, when the facility is on it, the facility's own    *)
(* two lists.  To the holders it goes only if a key that signed the        *)
(* transaction is on the extension's list or is a whitelisted unwrapper's; *)
(* between vaults, which is open to everybody, only if both extensions are *)
(* whitelisted and the one that pays lists the facility or a signer.       *)
(***************************************************************************)
PermittedOut(program, authorities) ==
  \/ authorities \cap takers' # {}
  \/ /\ Facility \in authorities
     /\ IsExtensionWhitelisted(program)
     /\ whitelisted_unwrappers \cap takers' # {}

PermittedAcross(authorities) ==
  /\ {ProgramX, ProgramY} \subseteq whitelisted_extensions
  /\ authorities \cap ({Facility} \cup takers') # {}

OutflowIsPermitted ==
  /\ x_vault_amount' < x_vault_amount =>
       IF HoldersM' > HoldersM
       THEN PermittedOut(ProgramX, x_wrap_authorities) ELSE PermittedAcross(x_wrap_authorities)
  /\ y_vault_amount' < y_vault_amount =>
       IF HoldersM' > HoldersM
       THEN PermittedOut(ProgramY, y_wrap_authorities) ELSE PermittedAcross(y_wrap_authorities)

OutflowsArePermitted == [][OutflowIsPermitted]_vars

(***************************************************************************)
(* The facility implements Custody.  A swap's two calls, each with its own *)
(* rounding, amount to one move from vault to vault: the facility's        *)
(* account never donates (ext_swap.test.ts:2008-2011).                     *)
(***************************************************************************)
Held ==
  [place \in {"X", "Y", "facility", "holders"} |->
     CASE place = "X" -> x_vault_amount
       [] place = "Y" -> y_vault_amount
       [] place = "facility" -> swap_m
       [] place = "holders" -> HoldersM]

M == INSTANCE Custody WITH
  Vaults <- {"X", "Y"}, Facility <- "facility", Holders <- "holders", held <- Held

ImplementsCustody == M!Spec
=============================================================================
