# TLA+ specification of the M extension programs

This directory specifies, in TLA+, `programs/m_ext`, the Solana program that
implements M extensions (stablecoins backed by `$M` held in a vault), and
`programs/ext_swap`, the facility that swaps between them. The modules are
model-checked with TLC on small instances; the safety properties are proved
with TLAPS for every value of the constants. `PROJECT.json` is the
machine-readable index: components, runs, mutants, the map from definitions to
source lines, findings, hazards, theorems.

## 1. The system

An *extension* takes M from a user into a vault and mints ext tokens for it
(*wrap*), and gives M back for burned ext tokens (*unwrap*). M is rebasing: its
mint carries a multiplier that the M earn program raises, and an account's
amount is its principal times that multiplier. A vault approved as an earner is
thawed, and its M grows; a vault that is not is frozen. What happens to the
growth is the variant chosen at compile time (`lib.rs:27-47`):

| variant     | M's growth goes to | by |
|-------------|--------------------|----|
| `scaled-ui` | ext holders, less a fee | the ext mint's own multiplier, raised by `sync_index` at the start of every instruction; the fee is claimed by the admin |
| `no-yield`  | the admin | `claim_fees`; an ext token is always worth one M |
| `crank`     | earners, less their manager's fee | `sync` and `claim_for` by the earn authority |

### Components, their state and operations

| component | state | operations | status |
|---|---|---|---|
| governance | `ExtGlobalV2`: admin, pending admin, wrap authorities and the account's size; the `ClaimConfig` account | initialize, transfer / accept / revoke admin, add / remove wrap authority, set / remove claim config | `ExtGlobal` |
| index arithmetic | none | amount/principal conversions in both directions and roundings, multiplier/index, `calculate_new_index` | `Conversion` |
| extension vault | `YieldConfig` (fee, cached M and ext indices), the vault's M account, the ext mint's supply and multiplier | wrap, unwrap, sync, set_fee, initialize | `MExt` |
| fee claims | writes the supply | claim_fees, claim_fees_delegated | `MExt` |
| crank variant | `YieldConfig::earn_authority`, `Earner` and `EarnManager` accounts | set earn authority; add / remove / configure managers; add / remove / transfer earners; set recipient; remove orphans; sync; claim_for | `Crank` |
| ext_swap facility | `SwapGlobal`: admin, whitelisted extensions and unwrappers; its own M account | initialize, add / remove / reset the two lists; wrap, unwrap and swap, by calls into the extensions | `SwapGlobal`, `ExtSwap` |
| migrate_m | rewrites the V1 global account to `ExtGlobalV2`, points it to a new vault | one-off upgrade | `Migrate` |
| M mint, token programs, M earn program | multiplier, freezing, balances | external: environment actions of `MExt`, `Crank` and `ExtSwap` | as used |
| CLI, IDLs, tests, deployment | none of the system's | operator tooling | not modelled |

Interaction is by shared accounts and by calls within one transaction. A Solana
transaction is atomic: an instruction that returns an error, or whose CPI
fails, changes nothing. So one instruction is one TLA+ action, error paths are
disabled actions, and concurrency is the interleaving of instructions by
different signers with what happens outside the program: M's index
propagating, freezes and thaws, direct transfers, burns, accounts closed. The
*order* inside a handler matters where a later step reads what an earlier one
wrote (sync, then convert; check collateral, then two mints; reallocate, then
push), and the actions keep it by using primed or unprimed variables.

### What is hard here

* **Rounding in opposite directions.** Each wrap and unwrap rounds two
  principals down, each at its own index. Every one of them may shift a
  fraction of a unit between the vault and the holders, over any sequence.
* **Cached against live index.** The cached M index lags M's own whenever a
  sync records nothing (`conversion.rs:48`), and fees, freezes and truncation
  decide when that is. Claims read the live index, payments the cached one.
* **Being locked out.** Every instruction begins with `calculate_new_index`'s
  domain check; a history that left the indices out of order would disable
  wrap, unwrap and every claim for good.
* **Frozen periods.** Growth that happens while the vault is frozen belongs to
  nobody and must be skipped exactly once.
* **Three lists in two programs.** Who may take M out of a vault is decided by
  the extension's list and, when the facility is on it, by the facility's own two
  lists, edited by different admins in any order.
* **One transaction, two vaults.** A swap unwraps and wraps the same amount at
  two indices, each with its own rounding, through an account anybody may send
  M to.
* **State another version left.** The migration starts from indices that were
  last synced by the V1 program, and checks its collateral against them once.
* **Long-lived accounts.** Earners that are removed and added again, managers
  that are removed while they have earners, nominations that outlive a term.

The full list, with source lines and the properties that cover each, is
`hazards` in `PROJECT.json`.

## 2. The modules

`MC*` modules instantiate, `*_proofs` modules prove; every other module is a
specification.

```
Conversion      ExtGlobal                      EXTENDS: a line
       \          /
          MExt  - - - - - - - implements - - > BackedToken, ExtGlobal
        /   |  \
   Crank    |   Migrate         SwapGlobal
     .      |                       |
     .      +  two instances, X, Y  ExtSwap - implements - > Custody
     .
     + - - - - - - - - - - - - implements - - > YieldLedger
```

Crank, Migrate and both extensions of ExtSwap implement BackedToken as well.


* **Conversion** translates `utils/conversion.rs`. Indices are naturals scaled
  by `INDEX_SCALE` (1e12 in the code); every conversion keeps its integer
  division and its direction. `f64::powf` is the constant operator `Powf`, of
  which `PowfAssumption` says all that is used: for a factor x >= 1 and a fee in
  (0, 100%] the result lies between 1 and x, and is exactly 1 at 100%. A
  multiplier may be finer than the index scale (`MULTIPLIER_GRAIN`), and
  `MultiplierToIndex` truncates it as the code does. An index divided by 1e12 in
  f64 need not read back as itself: `F64Loss` is what the multiplier lacks, of
  which `F64Assumption` says that it is no more than one index unit, and nothing
  at 1.0.
* **ExtGlobal** is the admin part of the global account, with one action per
  instruction. `wrap_authorities` is a vector without duplicates in the code
  and a set here; `authority_slots` is the number of entries the account's
  allocated space has room for, which the code computes *before* it pushes.
  `nominator` is history.
* **MExt** extends both. Its actions are the handlers: `Wrap`, `Unwrap`,
  `ClaimFees`, `ClaimFeesDelegated`, `SetFee`, `Sync`, `Initialize`, `Govern`
  (ExtGlobal's instructions with the rest unchanged), and the environment:
  `PropagateIndex`, `SetVaultState`, `Donate`, `BurnExt`. All begin with
  `SyncIndex` where the code calls `sync_index`; the indices the rest of the
  handler uses are then the primed ones. M and ext balances outside the vault
  are totals. `ops` and `stale_minted` are history variables for the solvency
  bound (below).
* **Crank** extends MExt with `YieldVariant = "Crank"`: `Operate` is MExt's
  instructions, and the crank instructions are added beside them. An earner is
  keyed by its token account and a manager by its signer, as the PDAs are.
  Token accounts are `Initialized`, `Frozen` or `Closed`; the freeze authority
  and the owners change that at any time. `payouts` is history: what each
  account was paid since it first became an earner.
* **SwapGlobal** is the facility's account: the admin, who is whoever came first,
  and the two lists with the space they share. `space` is in bytes, since entries
  of the two lists differ in size and an addition sizes the account for both.
* **ExtSwap** composes the facility with two extensions: `X` and `Y` are
  instances of MExt over one M mint, each with its variant. A call into an
  extension is the MExt action with the arguments the facility passes
  (`ExtWrap`, `ExtUnwrap`); a swap is the conjunction of one call into each, which
  write different accounts, and of the balance of the facility's account, which
  is computed from what the two calls did to the vaults. `SignedBy` is the rule
  that the facility signs when no authority comes with the transaction.
  Extensions are also used past the facility (`UseExtension`, `UnwrapDirectly`).
  `takers` is history: the keys that signed a step that unwraps.
* **Migrate** extends MExt: `MigrateInit` is what V1 leaves behind, with any
  supply and any two cached indices of which the ext index is not the larger;
  the M index may be one above what the new mint's f64 reads back as. `MigrateM`
  is the instruction; MExt's own instructions follow it, since they refuse V1's
  discriminator before. Supply and vault are valued by the earn program's
  function of an f64 multiplier, which is external: `EarnAmounts` lets it return
  any amount between the result at the truncated index and that at the exact
  multiplier, give or take `AmountError`. `shortfall` is history: the M the
  accepted vault lacks.
* **BackedToken**, **YieldLedger** and **Custody** are abstract specifications.
  BackedToken is what an extension promises its holders: issue and redeem at
  equal value up to a unit, reward only out of a covered reserve, settle no more
  than M's growth. It knows neither the roundings nor the claims nor the earners.
  YieldLedger is what the crank variant promises about who is paid for which
  growth: an index that grows, and for each claimant the index it was paid up to;
  a payment covers the growth between the two, and growth not claimed for may be
  renounced. It knows no managers, fees, roundings or removed accounts. Custody
  is what the facility promises about M: each step moves some of it between two
  places, and the facility's own account only ever receives donations.

Some operators are marked in a comment as *a slip ... could make*. They are not
used by the specifications. Each is a plausible mistake in the definition it
precedes (a rounding turned around, a reset forgotten, a freeze ignored), kept
so that it can be put in that definition's place: the `mutants` of
`PROJECT.json` name, for each property of each run, one such mistake under
which TLC reports that property violated.

## 3. The properties

* **Backed** (all variants): `ext_supply * ExtIndex <= (vault + ops +
  stale_minted) * CachedMIndex`. The vault is worth the supply, at the indices
  the program has cached, but for *one unit of M principal per wrap or unwrap*
  and for what was minted while the cached index lagged. The unit is what
  rounding costs; `stale_minted` is 0 unless the early return of `sync_index`
  has left the cached index behind.
* **SolventWithinRounding**: the same at M's live index without the second
  allowance. It holds when no growth is lost to truncation and fees stay below
  100% (run `exact_growth`), and fails at a fee of 100% (`full_fee`).
  The crank variant mints only against M's own index and has it unconditionally.
* **WholeSupplyCanLeave** (all variants): after whatever was wrapped, claimed and
  synced there is an amount whose unwrap burns the supply to the last unit; the M
  it pays is in the vault, but for the allowances of `Backed`, and so is what the
  sync at the start of that unwrap gives the holders. The amount is no more than
  what M itself is worth, so that a supply M could pay for is never too large for
  the u64 in which the claims compute it (`conversion.rs:104`).
* **IndexDomain**, **NeverLockedOut**: 1.0 <= ext <= cached M <= M, hence
  `sync_index` never rejects its own state below the cap.
* **FairGrowth** (action): between two syncs holders or earners get no more
  than M grew, nothing is taken back, and no step of a frozen vault pays.
* **ClaimsLeaveCollateral** (action): a step that mints without receiving M
  leaves the vault worth the whole supply at M's live index, with no allowance.
* **MultiplierMatchesIndex**: what wallets show is what the program computes
  with.
* **CatchesUp** (liveness): once M stops growing, from some point on a sync
  would change nothing.
* **PaidOnce** (crank): all an account was paid, fees included, is at most what
  its largest snapshot would have earned in a single claim since its first day
  as an earner, however claims are split and the account removed and re-added.
  **ImplementsLedger**: the crank variant implements YieldLedger, of which
  `PaidOnce` is a consequence: no growth is paid for twice, to any account, by any
  order of claims, transfers between managers, removals and new additions.
* **EarnerNotAhead**, **EarnerHasManager** (crank): a claim never underflows,
  and an earner never loses the manager account its instructions load.
* **NominationByAdmin**, **SlotsFitAuthorities**: no stale admin nomination can
  be accepted; the account's space always fits its list.
* **KeepsItsPromise** (all variants, and an extension that was migrated): the
  extension implements BackedToken, with the vault as the reserve and the cached
  M index as the index whose growth is settled. A claim is a reward, and may
  settle growth in the same step. **ExtensionsKeepTheirPromises** (facility): so
  do both extensions of a swap, whose steps the facility combines.
* **ExtensionsBacked** (facility): both vaults keep backing their own supplies,
  whatever is swapped, wrapped and unwrapped, in whatever order.
* **SwapsAreFair** (action): the tokens a swap burns and those it mints are worth
  the same, each at its own index, but for less than a unit of either.
* **OutflowsArePermitted** (action): M leaves a vault for the holders only if a
  key that *signed the transaction* is on the extension's list, or, with the
  facility on that list, is a whitelisted unwrapper of a whitelisted extension; it
  leaves for another vault only when both extensions are whitelisted and the
  paying one lists the facility or a key that signed.
* **ImplementsCustody**: the facility implements Custody. What is sent to its
  account is not swapped away, and no swap is served from it.
* **SpaceFitsLists**: the facility's account is never too small for its lists,
  although an addition may shrink an account that removals left too large.
* **BackedSinceMigration**, **MigratedAccountFits**: whatever the new vault lacked
  of the supply when it was accepted is all a later instruction finds lacking,
  beyond the allowances of `Backed`; and the rewritten account fits its list.
* **SyncedMigrationsAreCovered** (action): how much that may be. The check is what
  `migrate.rs:118` says it is whenever V1 has nothing left to sync, however far
  the cached M index and M's own are apart, but for what f64 may lose: one unit of
  either index, and the rounding of the two amounts. It is the other half of
  finding F4.
* **GrowthUnlocks** (action): V1's cached M index may be one above the published
  one. `conversion.rs:264` then refuses every sync of the migrated extension, and
  with it wraps, unwraps and claims; but any growth of M unlocks it, and an
  extension that is not locked never is again. `NeverLockedOut` itself does not
  hold of a migrated extension.

## 4. The runs

| run | config | asks | result |
|---|---|---|---|
| scaled_ui | MCScaledUi | rounding, freezes, all fees, uneven growth; liveness of sync | pass |
| no_yield | MCNoYield | every order of admin instructions of three accounts, up to four wraps and unwraps with claims of all growth | pass |
| exact_growth | MCExactGrowth | solvency at the live index | pass |
| crank_claims | MCCrank | one earner: claims, freezes, re-adding, fees; the ledger of who is paid for what | pass |
| crank_managers | MCCrankManagers | two managers, two earners, transfers, orphans, closed accounts | pass |
| ext_swap | MCExtSwap | a scaled-ui and a no-yield extension, swaps while M grows; what each still promises | pass |
| swap_permissions | MCExtSwapLists | every order in which the lists of both programs change, and are reset | pass |
| migrate | MCMigrate | any V1 state, migrated and then used; claims and the promise to holders after it | pass |
| full_fee | MCFullFee | a fee of 100% that is lowered later | violation (F1) |
| creation | MCCreation | an ext mint created with another multiplier | violation (F2) |
| test_vectors | MCTestVectors | the fee test's inputs | violation (F3) |
| migrate_stale | MCMigrateStale | the migration's check of an extension that has not synced | violation (F4) |

**Bounds and why they are enough.** `INDEX_SCALE = 4` makes one unit of
rounding a quarter of a token, so every division that can round does, with
indices from 1.0 to the cap. `UnevenMultipliers` holds a multiplier
finer than the scale, growth by factors that do not divide, and one index beyond
the cap; `DoublingMultipliers` is growth that truncation cannot hide (for
`exact_growth`). Fees are in halves: 0, 50%, 100% and an invalid one. Amounts
include zero, amounts that round to nothing, and amounts that are worth
different principals at the two indices. `MSupply` bounds the vault, `MaxOps`
the wraps and unwraps, `MaxStaleMinted` the burning, which would otherwise
let a holder and the admin mint and burn forever. Larger values add sequences but no
new rounding case, and the theorems need none of the bounds. `no_yield` has three
interchangeable accounts (an admin, a nominee, and a bystander who may be nominated
instead), since the properties of governance depend on who signs; one account
plays every role in the other runs of one extension, whose properties do not.
`crank_claims` needs
two growth steps so that a claim can be split, and two snapshots; `crank_managers`
two managers and two earners, with symmetric managers.

`ext_swap` lets M grow twice, by factors that do not divide, with two calls per
extension: enough for a swap to go out at one index and back at another. Its
extensions permit the facility alone from the start; the order in which
permissions come and go is the question of `swap_permissions`, which has two
keys besides the facility's, one unit of M and no growth. One key is on the
extensions' lists from the start and never an unwrapper; the other is on none of
them and may be whitelisted as an unwrapper; the facility comes and goes on
either list. Each key signs alone or beside the other, so that a check of the
wrong signer, or of the wrong list, shows. A list of unwrappers with one entry is
enough to find a size that forgets it. State spaces go up to about 620,000 distinct states (`scaled_ui`).
`migrate` starts from every pair of V1's indices in V1's order, among them a
cached M index one above M's own, from supplies that the vault covers exactly,
barely and not at all, and from every fee. A multiplier has a grain of half an
index unit there, odd indices read back as the one below, and each of the two
amounts may be off by one (`AmountError`); `migrate_stale` has no such error, so
that its trace is due to the lag alone.

Deadlock is checked in every run.

**Fairness.** Only `FairSpec` states any: `WF_vars(Sync)`. `scaled_ui/sync.rs`
takes no signer, so anyone who is owed yield can call it, and every other
instruction syncs as well; the assumption is that somebody in the end does.
M's growth, claims, thaws and governance are never assumed to happen.

**Findings.**

* **F1** (`full_fee`). `sync_index` returns before it records `last_m_index`
  whenever the ext index comes out unchanged, as it always does at a fee of
  100%. A wrap at that fee, after a growth of M, buys ext tokens at the ext
  index of before; when `set_fee` lowers the fee, the next sync pays those tokens
  the whole unrecorded growth, which their M did not earn in the vault, and the
  vault ends up worth less than the supply. `set_fee.rs:75-78` says it
  syncs first and checks that the vault is solvent after the update. The same early return is
  why `Backed` carries `stale_minted`: growth so small that it truncates to
  nothing stays unsynced in the same way, but then by less than an index unit.
* **F2** (`creation`). `initialize.rs:112` and `:222` say the ext mint's
  multiplier is set to 1.0. The sync it calls for that sees no change and
  writes nothing: a mint created with another multiplier keeps it.
* **F3** (`test_vectors`). Four inputs of `test_calculate_new_index_with_fee`
  are rejected by the domain check of the function they test; the default
  features compile the test out.
* **F4** (`migrate_stale`). `migrate.rs:118` says the new vault has enough M to
  cover the outstanding supply. For scaled-ui the supply is valued at the
  multiplier of V1's last sync and the vault at M's present one. After growth of
  M in between, the check accepts a vault that the sync of the next instruction
  finds worth less than the supply. `BackedSinceMigration` therefore carries
  `shortfall`, which records what the vault lacks at that moment, and
  `SyncedMigrationsAreCovered` says that without this lag it lacks no more than
  f64 may hide.

## 5. The proofs

All theorems are for arbitrary constants within the named assumptions
(`ScaleAssumption`, `PowfAssumption`, `F64Assumption`, `AccountsAssumption`, `MExtAssumption`,
`CrankAssumption`, `SwapGlobalAssumption`, `ExtSwapAssumption`,
`ExtensionsAssumption`, `MigrateAssumption`): any scale, any set of accounts, any fees, amounts and
supplies, any multipliers whose index is at least 1.0, any sequence of
operations. What is taken on trust about floating point is `Powf`'s two bounds,
that an index loses at most a unit in its multiplier (`F64Assumption`), and that
the earn program's conversion is off by at most `AmountError`, any number
(`MigrateAssumption`). TLC evaluates all assumptions on each instance.

**Conversion_proofs.** Division bounds (`DivBounds`, `CeilBounds`), then
`NewIndexBounds`: on inputs in its domain, `calculate_new_index` returns an
index not below the old one, not above M's, and grown by no more than M's ratio.
The conversions are shown to fit each other: an amount rounded up and converted
back is the same principal (`WholeBalanceHasAnAmount`), so that a balance can be
moved to the last unit, and rounded down both ways it is that principal or one
unit less (`RoundTripLosesAUnit`).

**ExtGlobal_proofs.** `NominationByAdmin` and `SlotsFitAuthorities` are
inductive with the types.

**MExt_proofs.** The inductive invariant is `IInv`, the types with `IndexOrder`,
the order of the two cached indices. It is needed because each half depends on
the other: the order makes the division bounds apply, and those keep it. That
the cached M index stays at or below M's own (`IndexDomain`) is inductive on top
of it (`IndexStep`, `IndexDomainStep`) and kept apart, because a migrated
extension has only the first. `SyncBounds` is the lemma about `sync_index` everything uses.
`Backed` is then inductive relative to `IInv`: the arithmetic of each kind of
movement is a lemma over plain naturals (`WrapArithmetic`, `UnwrapArithmetic`,
`ClaimArithmetic`, `StaleClaimArithmetic`), and `SyncKeepsBacking` uses that a
sync multiplies the ext index by no more than the cached M index. `FairGrowth`
and `ClaimsLeaveCollateral` follow step by step from `IInv`. `FairOverAnyPeriod`
sums `FairGrowth` up over time: from any moment on, to any later one, the ext
index has grown by no larger factor than M's and has not fallen, whatever fees
and freezes came in between. (`CrankFairOverAnyPeriod` and
`MigratedFairOverAnyPeriod`, the latter from V1's last sync on, are the same of the
other two programs, from the same lemma `GrownFairlyStep`.) `WholeSupplyCanLeave` is `Backed` carried through
the sync of the last unwrap and through its conversions (`BackedCanLeave`).
`ImplementsGovernance` shows MExt is a refinement of `GovSpec`, so what
ExtGlobal promises holds of the whole program.

**Promise_proofs.** The refinement of BackedToken. Each wrap, unwrap and claim is
shown to be `Issue`, `Redeem` or `Reward`, or to move nothing, from the division
bounds; syncs, fees and M's growth are `Settle` and `Grow`. `FreshStart`
strengthens the invariant: an extension that has not been initialized has its
indices at 1.0, without which Initialize would be a loss in abstract terms.
`MultiplierMatchesIndexHolds` is here too, for ext mints created at 1.0 (without
that assumption it is F2).

**Crank_proofs.** `CrankIInv` adds to `IInv`: before Initialize the ext index is
1.0; every earner's index lies between 1.0 and the ext index, under a manager that
has an account; and every earner has had its first day. The lower bound on an
earner's index makes the division in `Rewards` one by a positive number, and
`RewardsBounds` says a claim from l to e pays at most snapshot * (e - l) / l. The
instructions of MExt are covered by its own step lemmas, so `Backed`,
`FairGrowth`, `ClaimsLeaveCollateral`, `WholeSupplyCanLeave` and the refinements of
`GovSpec` and of BackedToken are proved for the crank variant from the same
lemmas.

`CrankImplementsLedger` maps each step to one of YieldLedger: a sync to `Accrue`,
where every account that is no earner at the moment renounces what accrues
(`SyncAccrues`); a claim to `Pay`, of the earner's share and the manager's fee
together, within the growth since the last one by `RewardsBounds`
(`ClaimForPays`); the first addition of an account to `Join` (`AddEarnerJoins`); a
removal to `Renounce` (`RemovalRenounces`); everything else, a second addition
included, changes nothing in the ledger. `PaidOnce` is then proved of the ledger alone
(`LedgerPaysOnce`): `LedgerIInv` adds to it that claims lie between the first day
and the index and that nothing was paid before the first day;
`PaidOnceArithmetic` adds one payment to those before it.

**Solvency at the live index.** `SolventWithinRoundingHolds` assumes
`NoHiddenGrowth`: whenever M's index rises above the cached one, the ext index
the code computes rises too. It is false of a fee of 100% and of growth that
truncation hides, which is where F1 comes from; `NeverStale` then says that the
cached index lags only while a sync would change something, so that
`stale_minted` stays 0 and `Backed` is the same statement as solvency.
`CrankSolventWithinRounding` needs no such assumption: only scaled-ui compares
the two indices that way.

**SwapGlobal_proofs.** `SpaceFitsLists` with the types; the lists are finite
because the accounts are, or because they only grow by one at a time.

**ExtSwap_proofs.** `ExtensionsBehave` is the composition theorem: projected to
either extension, every step of the facility is a step of MExt or a stutter, so
whatever is proved of `MExt!Spec` is true of both extensions. `PX` and `PY` are
instances of Promise_proofs, and with it of MExt_proofs, over the variables of
the one and the other; `ExtensionsBacked` and `ExtensionsKeepTheirPromises` are
their theorems. `Movements` classifies every step by
where M went; that the places never run negative (`ExtSwapTypeOK`), that the
outflows are permitted to one who signed, and the refinement of Custody are read
off it. A swap
is one move because its two calls take and give the same principal of M, which
holds because both round the same amount at the same index of M. `SwapsAreFair`
uses that each call's principals are worth the amount up to a unit.

**Migrate_proofs.** `MigrateIInv` is `IInv` with the backing up to `shortfall`,
which `MigrateM` establishes with equality at worst (`ShortfallBounds`) and the
step lemmas of MExt keep. `IInv` holds from `MigrateInit` on, so `FairGrowth` and
`ClaimsLeaveCollateral` carry over, and so does the refinement of BackedToken: the
migration itself moves no M and changes no index (`MigrationMovesNothing`), and
V1's indices are an initial state of BackedToken (`MigratePromiseInit`).
`IndexDomain` and `NeverLockedOut` do not carry over; what does is
`GrowthUnlocks`, since the cached M index is at most one above M's own and a sync
only ever sets it to that. `SyncedMigrationsAreCovered` bounds both amounts by
what the external conversion may return (`CoverArithmetic`, `CoverBounds`).

**Only model-checked.** `CatchesUp`, because liveness under fairness is out of
the prover's reach. Everything else a passing run checks is proved.

## 6. What is left out

* u64 and u128 widths: numbers are naturals, since an overflow makes an
  instruction fail, which changes nothing. Two places where the width matters are
  covered by bounds that are proved: the amount the supply is worth is at most
  what M backs it with is worth (`WholeSupplyCanLeave`), and the `as u64` of the
  crank sync (`crank/earn_authority/sync.rs:68`), which would truncate instead of
  failing, converts an index that is at most M's, a u64 itself (`IndexDomain`).
* The values of f64 operations beyond their assumed bounds: `powf`, the division
  by 1e12, and the valuation of supply and vault in `migrate_m`; `new_multiplier_effective_timestamp`;
  other timestamps, which are stored and emitted and decide nothing.
* Rent, PDAs and bumps, mint and account checks that fix which accounts an
  instruction gets: a model has one extension and its accounts.
* Who holds M and ext tokens outside the vaults; a user's balance of ext tokens
  bounds an unwrap only through the supply.
* In ExtSwap: the crank variant as a partner, fee claims by a delegate, and the
  admin transfers of the two extensions. To the facility an extension is its
  wrap and unwrap, which are the same in every variant; the rest is in MExt and
  Crank. The mint and token program an entry of the facility's list stores are
  never read.
* In Migrate: the V1 program, of which only the state it leaves is modelled. That
  its ext index is at most its cached M index is taken from V1; `migrate.rs` does
  not check it, and the other order would lock the extension for good. The crank
  variant after a migration and wM's earner accounts, which the migration does
  not touch, are not modelled either.
* Account creation when an associated token account is missing: it fixes who
  pays rent.
* The command line services, IDLs, tests and deployment scripts: they keep no
  state of the system and send the instructions above.

**Not modelled, and why.** The M earn program is not part of this repository;
of it there is what the extensions see, a multiplier and a freeze. The token
helpers are calls into the token programs, of which there is what they do to
the balances, and of the earn crate's conversion how far its result may lie
from the exact one.

## 7. Plan

*Done:* Conversion, ExtGlobal, MExt, Crank, SwapGlobal, ExtSwap, Migrate, the
abstract specifications BackedToken, YieldLedger and Custody with the proofs that
they are implemented, exit of the whole supply, and the widths that matter.

*Left:*

1. **A two-step handover of a role**, which the nomination of ExtGlobal
   implements; the facility's admin has none.
2. **Progress of crank claims**: which claims still succeed when rounding leaves
   the vault a unit short of the supply.

## 8. Running

```
tlc -workers 2 -config MCScaledUi.cfg MCMExt      # likewise for the other configs
tlapm Crank_proofs.tla                            # likewise for the other proofs
```

The larger runs take two to three minutes each. ExtSwap_proofs checks in
three to four minutes, each other proof module in less than one.
