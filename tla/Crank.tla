--------------------------------- MODULE Crank ---------------------------------
(***************************************************************************)
(* The crank variant of m_ext: the yield of M goes to earners, in claims   *)
(* that the earn authority makes for them.  An earner is an ext token      *)
(* account that an earn manager has signed up; the manager may take a fee. *)
(*                                                                         *)
(* Wrapping, unwrapping, governance and the vault are MExt's.  This module *)
(* adds the earn authority's sync and claims, the Earner and EarnManager   *)
(* accounts and the instructions that write them.  Timestamps are left     *)
(* out: they are stored and emitted, nothing depends on them.              *)
(***************************************************************************)
EXTENDS MExt

CONSTANTS
  Managers,     \* the keys earn managers sign with
  Holders,      \* ext token accounts that may earn or receive what others earn
  FeeAccounts,  \* ext token accounts that managers name for their fees
  TokenStates,  \* the states a token account may be in
  Snapshots     \* the balances the earn authority claims for

EarnManager == [is_active : BOOLEAN, fee_bps : 0..ONE_HUNDRED_PERCENT,
                fee_token_account : FeeAccounts]

Earner == [last_claim_index : Nat, user : Accounts, earn_manager : Managers,
           recipient_token_account : Holders \cup {None}]

ASSUME CrankAssumption ==
  /\ YieldVariant = "Crank"
  /\ None \notin Holders \cup FeeAccounts
  /\ None \notin EarnManager
  /\ None \notin Earner
  /\ TokenStates \subseteq {"Initialized", "Frozen", "Closed"}
  /\ Snapshots \subseteq Nat

VARIABLES
  earn_authority,  \* YieldConfig::earn_authority
  earn_managers,   \* the EarnManager account of each manager, or None
  earners,         \* the Earner account of each token account, or None
  token_state,     \* external: the state of the ext token accounts
  payouts          \* history: what was claimed for each token account, fees included

crankVars == <<earn_authority, earn_managers, earners, token_state, payouts>>
allVars == <<vars, crankVars>>

\* The index of an account's first day as an earner, its largest snapshot, all it was paid.
Payout == [since : Nat, snapshot : Nat, amount : Nat]

CrankTypeOK ==
  /\ MExtTypeOK
  /\ earn_authority \in Accounts \cup {None}
  /\ earn_managers \in [Managers -> EarnManager \cup {None}]
  /\ earners \in [Holders -> Earner \cup {None}]
  /\ token_state \in [Holders \cup FeeAccounts -> TokenStates]
  /\ payouts \in [Holders -> Payout]

CrankInit ==
  /\ Init
  /\ earn_authority = None
  /\ earn_managers = [manager \in Managers |-> None]
  /\ earners = [account \in Holders |-> None]
  /\ token_state \in [Holders \cup FeeAccounts -> TokenStates]
  /\ payouts = [account \in Holders |-> [since |-> 0, snapshot |-> 0, amount |-> 0]]

IsActive(manager) == earn_managers[manager] # None /\ earn_managers[manager].is_active

-----------------------------------------------------------------------------
(***************************************************************************)
(* The admin: the earn authority and the earn managers.                    *)
(***************************************************************************)
\* This variant's Initialize takes an earn authority and leaves the fee alone.
CrankInitialize(signer, authorities, fee, authority) ==
  /\ Initialize(signer, authorities, fee)
  /\ earn_authority' = authority
  /\ UNCHANGED <<earn_managers, earners, token_state, payouts>>

SetEarnAuthority(signer, authority) ==
  /\ IsAdmin(signer)
  /\ earn_authority' = authority
  /\ UNCHANGED <<vars, earn_managers, earners, token_state, payouts>>

\* Adding a manager that exists writes its account again, and makes it active.
AddEarnManager(signer, manager, fee, fee_account) ==
  /\ IsAdmin(signer)
  /\ ValidFee(fee)
  /\ token_state[fee_account] = "Initialized"
  /\ earn_managers' = [earn_managers EXCEPT ![manager] =
       [is_active |-> TRUE, fee_bps |-> fee, fee_token_account |-> fee_account]]
  /\ UNCHANGED <<vars, earn_authority, earners, token_state, payouts>>

\* A slip RemoveEarnManager could make: the account is closed.
Discarded(earn_manager) == None

\* The account stays, for the instructions of the manager's earners.
Deactivated(earn_manager) == [earn_manager EXCEPT !.is_active = FALSE]

RemoveEarnManager(signer, manager) ==
  /\ IsAdmin(signer)
  /\ earn_managers[manager] # None
  /\ earn_managers' = [earn_managers EXCEPT ![manager] = Deactivated(earn_managers[manager])]
  /\ UNCHANGED <<vars, earn_authority, earners, token_state, payouts>>

-----------------------------------------------------------------------------
(***************************************************************************)
(* The earn managers and the earners.                                      *)
(***************************************************************************)
\* Each of the two settings is an Option; a manager that was removed may still set them.
ConfigureEarnManager(manager, fee, fee_account) ==
  /\ earn_managers[manager] # None
  /\ fee # None => ValidFee(fee)
  /\ fee_account # None => token_state[fee_account] = "Initialized"
  /\ earn_managers' = [earn_managers EXCEPT
       ![manager].fee_bps = IF fee = None THEN @ ELSE fee,
       ![manager].fee_token_account = IF fee_account = None THEN @ ELSE fee_account]
  /\ UNCHANGED <<vars, earn_authority, earners, token_state, payouts>>

\* Two slips AddEarner could make: a start from 1.0, and from M's index.
StartFromOne == INDEX_SCALE
StartFromM == last_m_index

\* The index a new earner's first claim starts from.
StartIndex == last_ext_index

AddEarner(manager, user, account) ==
  /\ IsActive(manager)
  /\ token_state[account] # "Closed"
  /\ earners[account] = None
  /\ earners' = [earners EXCEPT ![account] =
       [last_claim_index |-> StartIndex, user |-> user, earn_manager |-> manager,
        recipient_token_account |-> None]]
  /\ payouts' = [payouts EXCEPT ![account].since = IF @ = 0 THEN last_ext_index ELSE @]
  /\ UNCHANGED <<vars, earn_authority, earn_managers, token_state>>

\* An active manager may remove its earner, anybody the earner of a removed one.
RemoveEarner(manager, account) ==
  /\ earners[account] # None
  /\ earners[account].earn_manager = manager
  /\ IsActive(manager)
  /\ earners' = [earners EXCEPT ![account] = None]
  /\ UNCHANGED <<vars, earn_authority, earn_managers, token_state, payouts>>

RemoveOrphanedEarner(account) ==
  /\ earners[account] # None
  /\ earn_managers[earners[account].earn_manager] # None
  /\ ~IsActive(earners[account].earn_manager)
  /\ earners' = [earners EXCEPT ![account] = None]
  /\ UNCHANGED <<vars, earn_authority, earn_managers, token_state, payouts>>

TransferEarner(manager, account, to_earn_manager) ==
  /\ earners[account] # None
  /\ earners[account].earn_manager = manager
  /\ IsActive(manager)
  /\ IsActive(to_earn_manager)
  /\ earners' = [earners EXCEPT ![account].earn_manager = to_earn_manager]
  /\ UNCHANGED <<vars, earn_authority, earn_managers, token_state, payouts>>

\* Signed by the earner's user, or by its manager while that is active.
SetRecipient(signer, account, recipient) ==
  /\ earners[account] # None
  /\ earn_managers[earners[account].earn_manager] # None
  /\ \/ signer = earners[account].user
     \/ signer = earners[account].earn_manager /\ IsActive(signer)
  /\ recipient # None => token_state[recipient] # "Closed"
  /\ earners' = [earners EXCEPT ![account].recipient_token_account = recipient]
  /\ UNCHANGED <<vars, earn_authority, earn_managers, token_state, payouts>>

-----------------------------------------------------------------------------
(***************************************************************************)
(* The earn authority.                                                     *)
(***************************************************************************)
\* Two slips CrankSync could make: a frozen vault's earners are paid too, and
\* M's whole index is applied instead of its growth.
SyncedWhileFrozen == (last_ext_index * MIndex) \div last_m_index
SyncedByWholeIndex == (last_ext_index * MIndex) \div INDEX_SCALE

\* The ext index follows M's in full, except for what M grew while the vault was frozen.
SyncedIndex ==
  IF vault_state = "Initialized"
  THEN (last_ext_index * MIndex) \div last_m_index ELSE last_ext_index

CrankSync(signer) ==
  /\ Initialized
  /\ signer = earn_authority
  /\ last_ext_index' = SyncedIndex
  /\ last_m_index' = MIndex
  /\ UNCHANGED <<govVars, m_multiplier, vault_state, vault_amount, ext_supply,
                 ext_multiplier, fee_bps, historyVars, crankVars>>

\* A slip Rewards could make: a part of a unit is paid as one.
RewardsRoundedUp(snapshot, from, to) == CeilDiv(snapshot * to, from) - snapshot

\* What an account that held the snapshot earned while the index rose.
Rewards(snapshot, from, to) == (snapshot * to) \div from - snapshot

\* No fee is taken for a removed manager, nor into an account that is gone.
FeeOn(rewards, earn_manager) ==
  IF earn_manager.is_active /\ token_state[earn_manager.fee_token_account] # "Closed"
  THEN (rewards * earn_manager.fee_bps) \div ONE_HUNDRED_PERCENT ELSE 0

\* A slip ClaimFor could make: the earner is paid as if there were no fee.
UnreducedShare(rewards, fee) == rewards

EarnerShare(rewards, fee) == rewards - fee

\* History: an account's payouts after it was paid for the snapshot.
Paid(payout, snapshot, rewards) ==
  [since |-> payout.since, amount |-> payout.amount + rewards,
   snapshot |-> IF snapshot > payout.snapshot THEN snapshot ELSE payout.snapshot]

\* Where an earner's rewards are sent.
RecipientOf(account) ==
  IF earners[account].recipient_token_account = None
  THEN account ELSE earners[account].recipient_token_account

(***************************************************************************)
(* claim_for: the fee and the earner's share are minted one after the      *)
(* other, against a check of the collateral made before either.            *)
(***************************************************************************)
ClaimFor(signer, account, snapshot) ==
  /\ Initialized
  /\ signer = earn_authority
  /\ earners[account] # None
  /\ earn_managers[earners[account].earn_manager] # None
  /\ earners[account].last_claim_index < last_ext_index
  /\ LET earn_manager == earn_managers[earners[account].earn_manager]
         rewards == Rewards(snapshot, earners[account].last_claim_index, last_ext_index)
         fee == FeeOn(rewards, earn_manager)
     IN /\ ext_supply + rewards <= PrincipalToAmountDown(vault_amount, MIndex)
        /\ fee > 0 => token_state[earn_manager.fee_token_account] = "Initialized"
        /\ token_state[RecipientOf(account)] = "Initialized"
        /\ ext_supply' = ext_supply + fee + EarnerShare(rewards, fee)
        /\ payouts' = [payouts EXCEPT ![account] = Paid(@, snapshot, rewards)]
  /\ earners' = [earners EXCEPT ![account].last_claim_index = last_ext_index]
  /\ UNCHANGED <<govVars, m_multiplier, vault_state, vault_amount, ext_multiplier, yieldVars,
                 historyVars, earn_authority, earn_managers, token_state>>

-----------------------------------------------------------------------------
\* Ext token accounts are frozen, thawed and closed by the token program.
SetTokenState(account, state) ==
  /\ token_state[account] # state
  /\ token_state' = [token_state EXCEPT ![account] = state]
  /\ UNCHANGED <<vars, earn_authority, earn_managers, earners, payouts>>

AdminStep ==
  \E signer \in Accounts :
    \/ \E authorities \in SUBSET Accounts, fee \in Fees, authority \in Accounts :
         CrankInitialize(signer, authorities, fee, authority)
    \/ \E authority \in Accounts : SetEarnAuthority(signer, authority)
    \/ \E manager \in Managers :
         \/ \E fee \in Fees, fee_account \in FeeAccounts :
              AddEarnManager(signer, manager, fee, fee_account)
         \/ RemoveEarnManager(signer, manager)

ManagerStep ==
  \E manager \in Managers :
    \/ \E fee \in Fees \cup {None}, fee_account \in FeeAccounts \cup {None} :
         ConfigureEarnManager(manager, fee, fee_account)
    \/ \E account \in Holders :
         \/ \E user \in Accounts : AddEarner(manager, user, account)
         \/ RemoveEarner(manager, account)
         \/ \E to_earn_manager \in Managers :
              TransferEarner(manager, account, to_earn_manager)

EarnerStep ==
  \E account \in Holders :
    \/ RemoveOrphanedEarner(account)
    \/ \E signer \in Accounts \cup Managers, recipient \in Holders \cup {None} :
         SetRecipient(signer, account, recipient)

EarnAuthorityStep ==
  \E signer \in Accounts :
    \/ CrankSync(signer)
    \/ \E account \in Holders, snapshot \in Snapshots : ClaimFor(signer, account, snapshot)

CrankNext ==
  \/ (Operate \/ Environment) /\ UNCHANGED crankVars
  \/ AdminStep
  \/ ManagerStep
  \/ EarnerStep
  \/ EarnAuthorityStep
  \/ \E account \in Holders \cup FeeAccounts, state \in TokenStates :
       SetTokenState(account, state)

CrankSpec == CrankInit /\ [][CrankNext]_allVars

-----------------------------------------------------------------------------
(***************************************************************************)
(* claim_for.rs:102: an earner's index is never above the global one, so   *)
(* its rewards never underflow.  Re-adding, transfers between managers and *)
(* syncs of a frozen vault all have to keep it.                            *)
(***************************************************************************)
EarnerNotAhead ==
  \A account \in Holders :
    earners[account] # None => earners[account].last_claim_index <= last_ext_index

\* The index up to which an account has been paid, or has no claim to be.
PaidUpTo(account) ==
  IF earners[account] = None THEN last_ext_index ELSE earners[account].last_claim_index

(***************************************************************************)
(* No growth is paid twice, and none from before an account first became   *)
(* an earner: however its claims are split, and however often it is        *)
(* removed and added again, all it was paid is at most what its largest    *)
(* snapshot would have earned in one claim.                                *)
(***************************************************************************)
PaidOnce ==
  \A account \in Holders :
    payouts[account].amount * payouts[account].since
      <= payouts[account].snapshot * (PaidUpTo(account) - payouts[account].since)

(***************************************************************************)
(* The crank implements YieldLedger: an account that is no earner, be it   *)
(* not yet, no longer or not at the moment, renounces what accrues.  Fees, *)
(* transfers to another manager and removed managers change nothing in     *)
(* what is paid for which growth.                                          *)
(***************************************************************************)
ClaimedUpTo == [account \in Holders |-> PaidUpTo(account)]
FirstDays == [account \in Holders |-> payouts[account].since]
LargestSnapshots == [account \in Holders |-> payouts[account].snapshot]
PaidOut == [account \in Holders |-> payouts[account].amount]

Ledger == INSTANCE YieldLedger WITH
  Claimants <- Holders, index <- last_ext_index, claimed <- ClaimedUpTo,
  first <- FirstDays, largest <- LargestSnapshots, paid <- PaidOut

ImplementsLedger == Ledger!Spec

(***************************************************************************)
(* remove_earn_manager.rs:31: the earner instructions require the earn     *)
(* manager account, so every earner's manager must have one: else the      *)
(* earner could be neither paid nor removed.                               *)
(***************************************************************************)
EarnerHasManager ==
  \A account \in Holders :
    earners[account] # None => earn_managers[earners[account].earn_manager] # None
=============================================================================
