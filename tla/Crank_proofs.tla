------------------------------ MODULE Crank_proofs ------------------------------
(***************************************************************************)
(* What holds of the crank variant for every set of managers, earners and  *)
(* snapshots, on top of what MExt_proofs shows of wrapping and unwrapping. *)
(*                                                                         *)
(* The argument: every step is a step of MExt, a sync or a claim of the    *)
(* earn authority, or a change of accounts that leaves MExt's state alone. *)
(* An earner's index lies between 1.0 and the ext index (EarnersInv), so a *)
(* claim's rewards are a number and cover exactly the growth between the   *)
(* two (RewardsBounds): it is a payment of YieldLedger (ClaimForPays), and *)
(* that PaidOnce holds is shown of the ledger alone (LedgerPaysOnce).      *)
(***************************************************************************)
EXTENDS Crank, Promise_proofs

\* Every earner is between the start and the ext index, under a manager with an account.
EarnersInv ==
  \A account \in Holders : earners[account] # None =>
    /\ INDEX_SCALE <= earners[account].last_claim_index
    /\ earners[account].last_claim_index <= last_ext_index
    /\ earn_managers[earners[account].earn_manager] # None

\* An earner has had its first day.
FirstDaysInv ==
  \A account \in Holders : earners[account] # None => payouts[account].since # 0

\* What every step relies on and keeps; before Initialize the ext index is 1.0.
CrankIInv ==
  /\ CrankTypeOK
  /\ IndexDomain
  /\ ~Initialized => last_ext_index = INDEX_SCALE
  /\ EarnersInv
  /\ FirstDaysInv

\* It gives MExt's invariant.
LEMMA CrankHasIInv == CrankIInv => IInv
BY DEF CrankIInv, CrankTypeOK, IInv, IndexDomain, IndexOrder

-----------------------------------------------------------------------------
\* What a step that changes an account may be.
AccountStep ==
  \/ \E signer, authority \in Accounts : SetEarnAuthority(signer, authority)
  \/ \E signer \in Accounts, manager \in Managers, fee \in Fees, fee_account \in FeeAccounts :
       AddEarnManager(signer, manager, fee, fee_account)
  \/ \E signer \in Accounts, manager \in Managers : RemoveEarnManager(signer, manager)
  \/ \E account \in Holders \cup FeeAccounts, state \in TokenStates :
       SetTokenState(account, state)
  \/ ManagerStep
  \/ EarnerStep

\* Every step is one of MExt, a sync, a claim, or a change of accounts.
LEMMA CrankCases ==
  ASSUME [CrankNext]_allVars
  PROVE  \/ [Next]_vars /\ UNCHANGED <<earn_managers, earners, token_state, payouts>>
              /\ earn_authority' \in {earn_authority} \cup Accounts \cup {None}
         \/ \E signer \in Accounts : CrankSync(signer)
         \/ \E signer \in Accounts, account \in Holders, snapshot \in Snapshots :
              ClaimFor(signer, account, snapshot)
         \/ AccountStep
<1>1. CASE UNCHANGED allVars
  BY <1>1 DEF allVars, crankVars
<1>2. CASE (Operate \/ Environment) /\ UNCHANGED crankVars
  BY <1>2 DEF crankVars, Next, Instruction
<1>3. ASSUME NEW signer \in Accounts, NEW authorities \in SUBSET Accounts, NEW fee \in Fees,
             NEW authority \in Accounts,
             CrankInitialize(signer, authorities, fee, authority)
      PROVE  /\ [Next]_vars /\ UNCHANGED <<earn_managers, earners, token_state, payouts>>
             /\ earn_authority' \in {earn_authority} \cup Accounts \cup {None}
  BY <1>3 DEF CrankInitialize, Next, Instruction
<1>4. CASE AdminStep
  BY <1>3, <1>4 DEF AdminStep, AccountStep
<1>5. CASE EarnAuthorityStep
  BY <1>5 DEF EarnAuthorityStep
<1> QED
  BY <1>1, <1>2, <1>4, <1>5 DEF CrankNext, AccountStep

\* A change of accounts leaves everything of MExt as it is.
LEMMA AccountStepFrame ==
  ASSUME AccountStep
  PROVE  UNCHANGED vars
BY DEF AccountStep, SetEarnAuthority, AddEarnManager, RemoveEarnManager, SetTokenState,
       ManagerStep, ConfigureEarnManager, AddEarner, RemoveEarner, TransferEarner, EarnerStep,
       RemoveOrphanedEarner, SetRecipient

\* The instructions of MExt leave the ext index alone, but for Initialize that sets it.
LEMMA MExtKeepsIndex ==
  ASSUME CrankIInv, [Next]_vars
  PROVE  last_ext_index' = last_ext_index
<1>1. ~ScaledUi
  BY CrankAssumption DEF ScaledUi
<1>2. SyncIndex => last_ext_index' = last_ext_index
  BY <1>1 DEF SyncIndex
<1>3. ASSUME NEW signer, NEW authorities, NEW fee, Initialize(signer, authorities, fee)
      PROVE  last_ext_index' = last_ext_index
  BY <1>1, <1>3 DEF Initialize, InitializeGlobal, CrankIInv
<1>4. CASE Next
  BY <1>2, <1>3, <1>4, NextCases
     DEF Wrap, Unwrap, ClaimExcess, SetFee, Sync, Govern, PropagateIndex, SetVaultState,
         Donate, BurnExt, acctVars, yieldVars
<1> QED
  BY <1>4 DEF vars, acctVars, yieldVars

-----------------------------------------------------------------------------
(***************************************************************************)
(* The earn authority's sync keeps the order of the indices, never lowers  *)
(* the ext index, and raises it by no more than M's growth.                *)
(***************************************************************************)
LEMMA CrankSyncBounds ==
  ASSUME IInv, IndexDomain, NEW signer, CrankSync(signer)
  PROVE  /\ IInv' /\ IndexDomain'
         /\ last_ext_index <= last_ext_index'
         /\ last_ext_index' * last_m_index <= last_ext_index * last_m_index'
         /\ vault_state = "Frozen" => last_ext_index' = last_ext_index
<1> DEFINE grown == (last_ext_index * MIndex) \div last_m_index
<1>1. /\ INDEX_SCALE \in Nat \ {0} /\ MIndex \in Nat /\ last_m_index \in Nat \ {0}
      /\ last_ext_index \in Nat /\ INDEX_SCALE <= last_ext_index
      /\ last_ext_index <= last_m_index /\ last_m_index <= MIndex
      /\ vault_state \in {"Initialized", "Frozen"}
  BY ScaleAssumption, MIndexBounds DEF IInv, MExtTypeOK, IndexDomain, MIndex
<1>2. /\ UNCHANGED <<m_multiplier, vault_state, vault_amount, ext_supply, ext_multiplier>>
      /\ UNCHANGED <<fee_bps, ops, stale_minted>> /\ UNCHANGED govVars
      /\ last_m_index' = MIndex /\ last_ext_index' = SyncedIndex
  BY DEF CrankSync, historyVars
<1>3. MIndex' = MIndex
  BY <1>2 DEF MIndex
<1>4. last_ext_index * MIndex \in Nat
  BY <1>1, MulType
<1>5. /\ grown \in Nat /\ grown * last_m_index <= last_ext_index * MIndex
      /\ last_ext_index * MIndex < grown * last_m_index + last_m_index
  BY <1>1, <1>4, DivBounds
<1> HIDE DEF grown
<1>6. last_ext_index <= grown
  <2>1. last_m_index * last_ext_index <= MIndex * last_ext_index
    BY <1>1, MulMono
  <2>2. last_ext_index * last_m_index < (grown + 1) * last_m_index
    BY <1>1, <1>5, <2>1
  <2> QED
    BY <1>1, <1>5, <2>2
<1>7. grown <= MIndex
  <2>1. last_ext_index * MIndex <= last_m_index * MIndex
    BY <1>1, MulMono
  <2>2. grown * last_m_index <= MIndex * last_m_index
    BY <1>1, <1>5, <2>1
  <2> QED
    BY <1>1, <1>5, <2>2, MulCancel
<1>8. /\ last_ext_index' \in Nat /\ last_ext_index <= last_ext_index'
      /\ last_ext_index' <= MIndex
      /\ last_ext_index' * last_m_index <= last_ext_index * MIndex
      /\ vault_state = "Frozen" => last_ext_index' = last_ext_index
  <2>1. CASE vault_state = "Initialized"
    BY <1>2, <1>5, <1>6, <1>7, <2>1 DEF SyncedIndex, grown
  <2>2. CASE vault_state # "Initialized"
    <3>1. last_ext_index' = last_ext_index
      BY <1>2, <2>2 DEF SyncedIndex
    <3>2. last_m_index * last_ext_index <= MIndex * last_ext_index
      BY <1>1, MulMono
    <3> QED
      BY <1>1, <3>1, <3>2
  <2> QED
    BY <2>1, <2>2
<1>9. MExtTypeOK'
  BY <1>1, <1>2, <1>8, GovTypeStep DEF IInv, MExtTypeOK
<1> QED
  BY <1>1, <1>2, <1>3, <1>8, <1>9 DEF IInv, IndexDomain, IndexOrder

-----------------------------------------------------------------------------
\* An account that held the snapshot is paid no more than its share of the growth.
LEMMA RewardsBounds ==
  ASSUME NEW snapshot \in Nat, NEW from \in Nat \ {0}, NEW to \in Nat, from <= to
  PROVE  /\ Rewards(snapshot, from, to) \in Nat
         /\ Rewards(snapshot, from, to) * from <= snapshot * (to - from)
<1> DEFINE q == (snapshot * to) \div from
<1>1. snapshot * to \in Nat
  BY MulType
<1>2. q \in Nat /\ q * from <= snapshot * to /\ snapshot * to < q * from + from
  BY <1>1, DivBounds
<1> HIDE DEF q
<1>3. snapshot <= q
  <2>1. snapshot * from <= snapshot * to
    BY MulMonoRight
  <2>2. snapshot * from < (q + 1) * from
    BY <1>2, <2>1
  <2> QED
    BY <1>2, <2>2
<1>4. (q - snapshot) * from <= snapshot * (to - from)
  BY <1>2
<1> QED
  BY <1>2, <1>3, <1>4 DEF Rewards, q

(***************************************************************************)
(* PaidOnce adds up: what was paid up to l, with what is paid from l to    *)
(* the index e, is no more than the largest snapshot earned since s.       *)
(***************************************************************************)
LEMMA PaidOnceArithmetic ==
  ASSUME NEW s \in Nat, NEW l \in Nat, NEW e \in Nat, s <= l, l <= e,
         NEW paid \in Nat, NEW old \in Nat, paid * s <= old * (l - s),
         NEW rewards \in Nat, NEW new \in Nat, rewards * l <= new * (e - l),
         NEW largest \in Nat, old <= largest, new <= largest
  PROVE  (paid + rewards) * s <= largest * (e - s)
<1>1. l - s \in Nat /\ e - l \in Nat
  OBVIOUS
<1>2. rewards * s <= rewards * l
  BY MulMonoRight
<1>3. old * (l - s) <= largest * (l - s)
  BY <1>1, MulMono
<1>4. new * (e - l) <= largest * (e - l)
  BY <1>1, MulMono
<1>5. (paid + rewards) * s = paid * s + rewards * s
  OBVIOUS
<1>6. largest * (e - s) = largest * (l - s) + largest * (e - l)
  OBVIOUS
<1>7. /\ rewards * s \in Nat /\ rewards * l \in Nat /\ paid * s \in Nat
      /\ old * (l - s) \in Nat /\ largest * (l - s) \in Nat
      /\ new * (e - l) \in Nat /\ largest * (e - l) \in Nat
  BY <1>1, MulType
<1> QED
  BY <1>2, <1>3, <1>4, <1>5, <1>6, <1>7

(***************************************************************************)
(* A claim: the fee and the earner's share make up the rewards, which the  *)
(* vault was worth beyond the supply.                                      *)
(***************************************************************************)
LEMMA ClaimForMints ==
  ASSUME CrankIInv, NEW signer, NEW account \in Holders, NEW snapshot \in Snapshots,
         ClaimFor(signer, account, snapshot)
  PROVE  \E rewards \in Nat :
           /\ rewards * earners[account].last_claim_index
                <= snapshot * (last_ext_index - earners[account].last_claim_index)
           /\ ext_supply' = ext_supply + rewards
           /\ (ext_supply + rewards) * INDEX_SCALE <= vault_amount * MIndex
           /\ payouts' = [payouts EXCEPT ![account] = Paid(@, snapshot, rewards)]
<1> DEFINE manager == earn_managers[earners[account].earn_manager]
           rewards == Rewards(snapshot, earners[account].last_claim_index, last_ext_index)
           fee == FeeOn(rewards, manager)
<1>1. /\ earners[account] # None /\ earners[account] \in Earner
      /\ INDEX_SCALE <= earners[account].last_claim_index
      /\ earners[account].last_claim_index <= last_ext_index
      /\ manager \in EarnManager
  BY DEF ClaimFor, CrankIInv, CrankTypeOK, EarnersInv, Earner
<1>2. /\ INDEX_SCALE \in Nat \ {0} /\ MIndex \in Nat /\ vault_amount \in Nat
      /\ ext_supply \in Nat /\ last_ext_index \in Nat /\ snapshot \in Nat
      /\ earners[account].last_claim_index \in Nat \ {0}
  BY <1>1, ScaleAssumption, MExtAssumption, CrankAssumption, MIndexBounds
     DEF CrankIInv, CrankTypeOK, MExtTypeOK, MIndex, Earner
<1>3. /\ rewards \in Nat
      /\ rewards * earners[account].last_claim_index
           <= snapshot * (last_ext_index - earners[account].last_claim_index)
  BY <1>1, <1>2, RewardsBounds
<1>4. /\ ext_supply + rewards <= PrincipalToAmountDown(vault_amount, MIndex)
      /\ ext_supply' = ext_supply + fee + EarnerShare(rewards, fee)
      /\ payouts' = [payouts EXCEPT ![account] = Paid(@, snapshot, rewards)]
  BY DEF ClaimFor
<1> HIDE DEF rewards, manager
<1>5. fee \in Nat
  <2>1. manager.fee_bps \in Nat /\ ONE_HUNDRED_PERCENT \in Nat \ {0}
    BY <1>1, ScaleAssumption DEF EarnManager
  <2>2. rewards * manager.fee_bps \in Nat
    BY <1>3, <2>1, MulType
  <2>3. (rewards * manager.fee_bps) \div ONE_HUNDRED_PERCENT \in Nat
    BY <2>1, <2>2, DivBounds
  <2> QED
    BY <2>3 DEF FeeOn
<1> HIDE DEF fee
<1>6. ext_supply' = ext_supply + rewards
  BY <1>2, <1>3, <1>4, <1>5 DEF EarnerShare
<1>7. (ext_supply + rewards) * INDEX_SCALE <= vault_amount * MIndex
  <2> DEFINE worth == PrincipalToAmountDown(vault_amount, MIndex)
  <2>1. MIndex * vault_amount \in Nat
    BY <1>2, MulType
  <2>2. worth \in Nat /\ worth * INDEX_SCALE <= MIndex * vault_amount
    BY <1>2, <2>1, DivBounds DEF PrincipalToAmountDown
  <2> HIDE DEF worth
  <2>3. (ext_supply + rewards) * INDEX_SCALE <= worth * INDEX_SCALE
    <3>1. ext_supply + rewards \in Nat /\ ext_supply + rewards <= worth
      BY <1>2, <1>3, <1>4 DEF worth
    <3> QED
      BY <1>2, <2>2, <3>1, MulMono
  <2> QED
    BY <1>2, <1>3, <2>1, <2>2, <2>3
<1> QED
  BY <1>3, <1>4, <1>6, <1>7

-----------------------------------------------------------------------------
\* MExt's own invariant through every step of the crank variant.
LEMMA CrankKeepsIInv ==
  ASSUME CrankIInv, [CrankNext]_allVars
  PROVE  IInv' /\ IndexDomain'
<1>1. IInv /\ IndexDomain
  BY CrankHasIInv DEF CrankIInv
<1>2. CASE [Next]_vars
  BY <1>1, <1>2, IInvStep, IndexDomainStep
<1>3. ASSUME NEW signer, NEW account \in Holders, NEW snapshot \in Snapshots,
             ClaimFor(signer, account, snapshot)
      PROVE  IInv' /\ IndexDomain'
  <2>1. ext_supply' \in Nat
    <3>1. PICK rewards \in Nat : ext_supply' = ext_supply + rewards
      BY <1>3, ClaimForMints
    <3> QED
      BY <1>1, <3>1 DEF IInv, MExtTypeOK
  <2>2. /\ UNCHANGED <<m_multiplier, vault_state, vault_amount, ext_multiplier>>
        /\ UNCHANGED <<fee_bps, last_m_index, last_ext_index, ops, stale_minted>>
        /\ UNCHANGED govVars
    BY <1>3 DEF ClaimFor, yieldVars, historyVars
  <2>3. GovTypeOK'
    BY <1>1, <2>2, GovTypeStep DEF IInv, MExtTypeOK
  <2> QED
    BY <1>1, <2>1, <2>2, <2>3 DEF IInv, MExtTypeOK, IndexDomain, IndexOrder, MIndex
<1>4. CASE AccountStep
  BY <1>1, <1>4, AccountStepFrame, IInvStep, IndexDomainStep
<1> QED
  BY <1>1, <1>2, <1>3, <1>4, CrankCases, CrankSyncBounds

\* The types of what a change of accounts writes.
LEMMA AccountStepTypes ==
  ASSUME CrankIInv, AccountStep
  PROVE  /\ earn_authority' \in Accounts \cup {None}
         /\ earn_managers' \in [Managers -> EarnManager \cup {None}]
         /\ earners' \in [Holders -> Earner \cup {None}]
         /\ token_state' \in [Holders \cup FeeAccounts -> TokenStates]
         /\ payouts' \in [Holders -> Payout]
<1> DEFINE Typed == /\ earn_authority' \in Accounts \cup {None}
                    /\ earn_managers' \in [Managers -> EarnManager \cup {None}]
                    /\ earners' \in [Holders -> Earner \cup {None}]
                    /\ token_state' \in [Holders \cup FeeAccounts -> TokenStates]
                    /\ payouts' \in [Holders -> Payout]
<1>1. /\ earn_authority \in Accounts \cup {None}
      /\ earn_managers \in [Managers -> EarnManager \cup {None}]
      /\ earners \in [Holders -> Earner \cup {None}]
      /\ token_state \in [Holders \cup FeeAccounts -> TokenStates]
      /\ payouts \in [Holders -> Payout]
      /\ last_ext_index \in Nat
  BY DEF CrankIInv, CrankTypeOK, MExtTypeOK
<1>2. /\ Fees \subseteq Nat /\ ONE_HUNDRED_PERCENT \in Nat
      /\ None \notin FeeAccounts /\ None \notin EarnManager /\ None \notin Earner
  BY MExtAssumption, ScaleAssumption, CrankAssumption
<1>3. ASSUME NEW authority \in Accounts, NEW signer, SetEarnAuthority(signer, authority)
      PROVE  Typed
  BY <1>1, <1>3 DEF SetEarnAuthority
<1>4. ASSUME NEW signer, NEW manager \in Managers, NEW fee \in Fees,
             NEW fee_account \in FeeAccounts, AddEarnManager(signer, manager, fee, fee_account)
      PROVE  Typed
  BY <1>1, <1>2, <1>4 DEF AddEarnManager, ValidFee, EarnManager
<1>5. ASSUME NEW signer, NEW manager \in Managers, RemoveEarnManager(signer, manager)
      PROVE  Typed
  BY <1>1, <1>5 DEF RemoveEarnManager, Deactivated, EarnManager
<1>6. ASSUME NEW account \in Holders \cup FeeAccounts, NEW state \in TokenStates,
             SetTokenState(account, state)
      PROVE  Typed
  BY <1>1, <1>6 DEF SetTokenState
<1>7. ASSUME NEW manager \in Managers, NEW fee \in Fees \cup {None},
             NEW fee_account \in FeeAccounts \cup {None},
             ConfigureEarnManager(manager, fee, fee_account)
      PROVE  Typed
  <2>1. earn_managers[manager] \in EarnManager
    BY <1>1, <1>7 DEF ConfigureEarnManager
  <2>2. fee # None => fee \in 0..ONE_HUNDRED_PERCENT
    BY <1>2, <1>7 DEF ConfigureEarnManager, ValidFee
  <2> DEFINE written == [earn_managers[manager] EXCEPT
                          !.fee_bps = IF fee = None THEN @ ELSE fee,
                          !.fee_token_account = IF fee_account = None THEN @ ELSE fee_account]
  <2>3. written \in EarnManager
    BY <2>1, <2>2 DEF EarnManager
  <2>4. earn_managers' = [earn_managers EXCEPT ![manager] = written]
    BY <1>1, <1>7, <2>1 DEF ConfigureEarnManager, EarnManager
  <2> HIDE DEF written
  <2>5. earn_managers' \in [Managers -> EarnManager \cup {None}]
    BY <1>1, <2>3, <2>4
  <2> QED
    BY <1>1, <1>7, <2>5 DEF ConfigureEarnManager
<1>8. ASSUME NEW manager \in Managers, NEW user \in Accounts, NEW account \in Holders,
             AddEarner(manager, user, account)
      PROVE  Typed
  <2>1. earners' \in [Holders -> Earner \cup {None}]
    BY <1>1, <1>8 DEF AddEarner, StartIndex, Earner
  <2>2. payouts' \in [Holders -> Payout]
    BY <1>1, <1>8 DEF AddEarner, Payout
  <2> QED
    BY <1>1, <1>8, <2>1, <2>2 DEF AddEarner
<1>9. ASSUME NEW manager \in Managers, NEW account \in Holders,
             RemoveEarner(manager, account) \/ RemoveOrphanedEarner(account)
      PROVE  Typed
  BY <1>1, <1>9 DEF RemoveEarner, RemoveOrphanedEarner
<1>10. ASSUME NEW manager \in Managers, NEW account \in Holders, NEW to_earn_manager \in Managers,
              TransferEarner(manager, account, to_earn_manager)
       PROVE  Typed
  BY <1>1, <1>10 DEF TransferEarner, Earner
<1>11. ASSUME NEW signer, NEW account \in Holders, NEW recipient \in Holders \cup {None},
              SetRecipient(signer, account, recipient)
       PROVE  Typed
  BY <1>1, <1>11 DEF SetRecipient, Earner
<1>12. ASSUME NEW account \in Holders, RemoveOrphanedEarner(account) PROVE Typed
  BY <1>1, <1>12 DEF RemoveOrphanedEarner
<1> HIDE DEF Typed
<1>13. Typed
  BY <1>3, <1>4, <1>5, <1>6, <1>7, <1>8, <1>9, <1>10, <1>11, <1>12
     DEF AccountStep, ManagerStep, EarnerStep
<1> QED
  BY <1>13 DEF Typed

\* Every step keeps the types.
LEMMA CrankTypeStep ==
  ASSUME CrankIInv, [CrankNext]_allVars
  PROVE  CrankTypeOK'
<1>1. MExtTypeOK'
  BY CrankKeepsIInv DEF IInv
<1>2. ASSUME UNCHANGED <<earn_managers, earners, token_state, payouts>>,
             earn_authority' \in {earn_authority} \cup Accounts \cup {None}
      PROVE  CrankTypeOK'
  BY <1>1, <1>2 DEF CrankIInv, CrankTypeOK
<1>3. ASSUME NEW signer, CrankSync(signer) PROVE CrankTypeOK'
  BY <1>2, <1>3 DEF CrankSync, crankVars
<1>4. ASSUME NEW signer, NEW account \in Holders, NEW snapshot \in Snapshots,
             ClaimFor(signer, account, snapshot)
      PROVE  CrankTypeOK'
  <2>1. PICK rewards \in Nat :
          payouts' = [payouts EXCEPT ![account] = Paid(@, snapshot, rewards)]
    BY <1>4, ClaimForMints
  <2>2. /\ payouts \in [Holders -> Payout] /\ snapshot \in Nat /\ last_ext_index \in Nat
        /\ earners \in [Holders -> Earner \cup {None}]
    BY CrankAssumption DEF CrankIInv, CrankTypeOK, MExtTypeOK
  <2>3. payouts' \in [Holders -> Payout]
    <3>1. Paid(payouts[account], snapshot, rewards) \in Payout
      BY <2>2 DEF Paid, Payout
    <3> QED
      BY <2>1, <2>2, <3>1
  <2>4. earners' \in [Holders -> Earner \cup {None}]
    BY <1>4, <2>2 DEF ClaimFor, Earner
  <2> QED
    BY <1>1, <1>4, <2>3, <2>4 DEF ClaimFor, CrankIInv, CrankTypeOK
<1>5. CASE AccountStep
  BY <1>1, <1>5, AccountStepTypes DEF CrankTypeOK
<1> QED
  BY <1>2, <1>3, <1>4, <1>5, CrankCases

-----------------------------------------------------------------------------
\* No step takes an earner out of its bounds or its manager's account away.
LEMMA EarnersStep ==
  ASSUME CrankIInv, [CrankNext]_allVars
  PROVE  EarnersInv'
<1>1. /\ EarnersInv /\ INDEX_SCALE \in Nat /\ last_ext_index \in Nat
      /\ INDEX_SCALE <= last_ext_index
      /\ earners \in [Holders -> Earner \cup {None}]
      /\ earn_managers \in [Managers -> EarnManager \cup {None}]
      /\ None \notin EarnManager /\ None \notin Earner
  BY ScaleAssumption, CrankAssumption DEF CrankIInv, CrankTypeOK, MExtTypeOK, IndexDomain
<1>2. \A account \in Holders : earners[account] # None =>
        earners[account] \in Earner /\ earners[account].last_claim_index \in Nat
  BY <1>1 DEF Earner
<1>3. CASE [Next]_vars /\ UNCHANGED <<earn_managers, earners>>
  BY <1>1, <1>3, MExtKeepsIndex DEF EarnersInv
<1>4. ASSUME NEW signer, CrankSync(signer) PROVE EarnersInv'
  <2>1. /\ last_ext_index' \in Nat /\ last_ext_index <= last_ext_index'
        /\ UNCHANGED <<earn_managers, earners>>
    BY <1>4, CrankHasIInv, CrankSyncBounds DEF CrankSync, crankVars, IInv, MExtTypeOK, CrankIInv
  <2> QED
    BY <1>1, <1>2, <2>1 DEF EarnersInv
<1>5. ASSUME NEW signer, NEW account \in Holders, NEW snapshot, ClaimFor(signer, account, snapshot)
      PROVE  EarnersInv'
  BY <1>1, <1>2, <1>5 DEF ClaimFor, EarnersInv, Earner, yieldVars
<1>6. ASSUME AccountStep PROVE EarnersInv'
  <2>1. last_ext_index' = last_ext_index
    BY <1>6, AccountStepFrame DEF vars, acctVars, yieldVars
  <2>2. ASSUME UNCHANGED earners,
               \A manager \in Managers :
                 earn_managers[manager] # None => earn_managers'[manager] # None
        PROVE  EarnersInv'
    BY <1>1, <1>2, <2>1, <2>2 DEF EarnersInv, Earner
  <2>3. ASSUME NEW authority, NEW signer, SetEarnAuthority(signer, authority) PROVE EarnersInv'
    BY <2>2, <2>3 DEF SetEarnAuthority
  <2>4. ASSUME NEW signer, NEW manager \in Managers, NEW fee \in Fees,
               NEW fee_account \in FeeAccounts,
               AddEarnManager(signer, manager, fee, fee_account)
        PROVE  EarnersInv'
    <3> DEFINE written == [is_active |-> TRUE, fee_bps |-> fee, fee_token_account |-> fee_account]
    <3>1. written # None
      <4>1. fee \in 0..ONE_HUNDRED_PERCENT
        BY <2>4, MExtAssumption, ScaleAssumption DEF AddEarnManager, ValidFee
      <4>2. written \in EarnManager
        BY <4>1 DEF EarnManager
      <4> QED
        BY <1>1, <4>2
    <3> QED
      BY <1>1, <2>2, <2>4, <3>1 DEF AddEarnManager
  <2>5. ASSUME NEW signer, NEW manager \in Managers, RemoveEarnManager(signer, manager)
        PROVE  EarnersInv'
    <3>1. Deactivated(earn_managers[manager]) # None
      BY <1>1, <2>5 DEF RemoveEarnManager, Deactivated, EarnManager
    <3> QED
      BY <1>1, <2>2, <2>5, <3>1 DEF RemoveEarnManager
  <2>6. ASSUME NEW account, NEW state, SetTokenState(account, state) PROVE EarnersInv'
    BY <2>2, <2>6 DEF SetTokenState
  <2>7. ASSUME NEW manager \in Managers, NEW fee \in Fees \cup {None},
               NEW fee_account \in FeeAccounts \cup {None},
               ConfigureEarnManager(manager, fee, fee_account)
        PROVE  EarnersInv'
    <3>1. earn_managers' \in [Managers -> EarnManager \cup {None}]
      BY <1>6, AccountStepTypes
    <3>2. \A other \in Managers \ {manager} : earn_managers'[other] = earn_managers[other]
      BY <1>1, <2>7 DEF ConfigureEarnManager
    <3>3. earn_managers'[manager] # None
      <4>1. earn_managers[manager] \in EarnManager
        BY <1>1, <2>7 DEF ConfigureEarnManager
      <4>2. fee # None => fee \in 0..ONE_HUNDRED_PERCENT
        BY <2>7, MExtAssumption, ScaleAssumption DEF ConfigureEarnManager, ValidFee
      <4> DEFINE written ==
            [earn_managers[manager] EXCEPT
               !.fee_bps = IF fee = None THEN @ ELSE fee,
               !.fee_token_account = IF fee_account = None THEN @ ELSE fee_account]
      <4>3. written \in EarnManager
        BY <4>1, <4>2 DEF EarnManager
      <4>4. earn_managers'[manager] = written
        BY <1>1, <2>7, <4>1 DEF ConfigureEarnManager, EarnManager
      <4> QED
        BY <1>1, <4>3, <4>4
    <3>4. UNCHANGED earners
      BY <2>7 DEF ConfigureEarnManager
    <3> QED
      BY <2>2, <3>2, <3>3, <3>4
  <2>8. ASSUME NEW manager \in Managers, NEW user \in Accounts, NEW account \in Holders,
               AddEarner(manager, user, account)
        PROVE  EarnersInv'
    BY <1>1, <1>2, <2>1, <2>8 DEF AddEarner, StartIndex, IsActive, EarnersInv, Earner
  <2>9. ASSUME NEW manager, NEW account \in Holders,
               RemoveEarner(manager, account) \/ RemoveOrphanedEarner(account)
        PROVE  EarnersInv'
    BY <1>1, <1>2, <2>1, <2>9 DEF RemoveEarner, RemoveOrphanedEarner, EarnersInv
  <2>10. ASSUME NEW manager, NEW account \in Holders, NEW to_earn_manager \in Managers,
                TransferEarner(manager, account, to_earn_manager)
         PROVE  EarnersInv'
    BY <1>1, <1>2, <2>1, <2>10 DEF TransferEarner, IsActive, EarnersInv, Earner
  <2>11. ASSUME NEW signer, NEW account \in Holders, NEW recipient,
                SetRecipient(signer, account, recipient)
         PROVE  EarnersInv'
    BY <1>1, <1>2, <2>1, <2>11 DEF SetRecipient, EarnersInv, Earner
  <2> QED
    BY <1>6, <2>3, <2>4, <2>5, <2>6, <2>7, <2>8, <2>9, <2>10, <2>11
       DEF AccountStep, ManagerStep, EarnerStep
<1> QED
  BY <1>3, <1>4, <1>5, <1>6, CrankCases

-----------------------------------------------------------------------------
\* An account's first day is set when it becomes an earner, and never again.
LEMMA FirstDaysStep ==
  ASSUME CrankIInv, [CrankNext]_allVars
  PROVE  FirstDaysInv'
<1>1. /\ FirstDaysInv /\ payouts \in [Holders -> Payout]
      /\ earners \in [Holders -> Earner \cup {None}] /\ None \notin Earner
      /\ last_ext_index \in Nat \ {0}
  BY ScaleAssumption, CrankAssumption DEF CrankIInv, CrankTypeOK, MExtTypeOK, IndexDomain
<1>2. ASSUME UNCHANGED payouts,
             \A account \in Holders : earners'[account] # None => earners[account] # None
      PROVE  FirstDaysInv'
  BY <1>1, <1>2 DEF FirstDaysInv
<1>3. ASSUME UNCHANGED <<earners, payouts>> PROVE FirstDaysInv'
  BY <1>2, <1>3
<1>4. ASSUME NEW signer, CrankSync(signer) PROVE FirstDaysInv'
  BY <1>3, <1>4 DEF CrankSync, crankVars
<1>5. ASSUME NEW signer, NEW account \in Holders, NEW snapshot \in Snapshots,
             ClaimFor(signer, account, snapshot)
      PROVE  FirstDaysInv'
  <2>1. PICK rewards \in Nat :
          payouts' = [payouts EXCEPT ![account] = Paid(@, snapshot, rewards)]
    BY <1>5, ClaimForMints
  <2>2. \A other \in Holders : payouts'[other].since = payouts[other].since
    BY <1>1, <2>1 DEF Paid
  <2>3. /\ earners[account] # None
        /\ \A other \in Holders \ {account} : earners'[other] = earners[other]
    BY <1>1, <1>5 DEF ClaimFor
  <2> QED
    BY <1>1, <2>2, <2>3 DEF FirstDaysInv
<1>6. CASE AccountStep
  <2>1. ASSUME NEW manager, NEW user, NEW account \in Holders, AddEarner(manager, user, account)
        PROVE  FirstDaysInv'
    <3>1. payouts'[account].since # 0
      BY <1>1, <2>1 DEF AddEarner, Payout
    <3>2. \A other \in Holders \ {account} :
            earners'[other] = earners[other] /\ payouts'[other] = payouts[other]
      BY <1>1, <2>1 DEF AddEarner
    <3> QED
      BY <1>1, <3>1, <3>2 DEF FirstDaysInv
  <2>2. ASSUME NEW manager, NEW account \in Holders,
               RemoveEarner(manager, account) \/ RemoveOrphanedEarner(account)
        PROVE  FirstDaysInv'
    BY <1>1, <1>2, <2>2 DEF RemoveEarner, RemoveOrphanedEarner
  <2>3. ASSUME NEW manager, NEW account \in Holders, NEW to_earn_manager,
               TransferEarner(manager, account, to_earn_manager)
        PROVE  FirstDaysInv'
    BY <1>1, <1>2, <2>3 DEF TransferEarner
  <2>4. ASSUME NEW signer, NEW account \in Holders, NEW recipient,
               SetRecipient(signer, account, recipient)
        PROVE  FirstDaysInv'
    BY <1>1, <1>2, <2>4 DEF SetRecipient
  <2>5. ASSUME NEW signer, NEW manager, NEW fee, NEW fee_account, NEW authority, NEW state,
               \/ SetEarnAuthority(signer, authority)
               \/ AddEarnManager(signer, manager, fee, fee_account)
               \/ RemoveEarnManager(signer, manager)
               \/ SetTokenState(fee_account, state)
               \/ ConfigureEarnManager(manager, fee, fee_account)
        PROVE  FirstDaysInv'
    BY <1>3, <2>5
       DEF SetEarnAuthority, AddEarnManager, RemoveEarnManager, SetTokenState,
           ConfigureEarnManager
  <2> QED
    BY <1>6, <2>1, <2>2, <2>3, <2>4, <2>5 DEF AccountStep, ManagerStep, EarnerStep
<1> QED
  BY <1>3, <1>4, <1>5, <1>6, CrankCases

-----------------------------------------------------------------------------
LEMMA CrankIInvInit == CrankInit => CrankIInv
<1> SUFFICES ASSUME CrankInit PROVE CrankIInv
  OBVIOUS
<1>1. MExtTypeOK /\ IndexDomain /\ last_ext_index = INDEX_SCALE
  BY IInvInit, IndexDomainInit DEF CrankInit, Init, IInv
<1>2. CrankTypeOK
  BY <1>1 DEF CrankInit, CrankTypeOK, Payout
<1>3. EarnersInv
  BY DEF CrankInit, EarnersInv
<1>4. FirstDaysInv
  BY DEF CrankInit, FirstDaysInv
<1> QED
  BY <1>1, <1>2, <1>3, <1>4 DEF CrankIInv

LEMMA CrankIInvStep ==
  ASSUME CrankIInv, [CrankNext]_allVars
  PROVE  CrankIInv'
<1>1. CrankTypeOK' /\ IndexDomain' /\ EarnersInv' /\ FirstDaysInv'
  BY CrankTypeStep, CrankKeepsIInv, EarnersStep, FirstDaysStep DEF IInv
<1>2. ~Initialized' => last_ext_index' = INDEX_SCALE
  <2>1. CASE [Next]_vars
    BY <2>1, MExtKeepsIndex, StaysInitialized DEF CrankIInv
  <2>2. CASE AccountStep
    BY <2>2, AccountStepFrame DEF vars, acctVars, yieldVars, govVars, CrankIInv, Initialized
  <2>3. ASSUME NEW signer, NEW account, NEW snapshot,
               CrankSync(signer) \/ ClaimFor(signer, account, snapshot)
        PROVE  Initialized'
    BY <2>3 DEF CrankSync, ClaimFor, govVars, Initialized
  <2> QED
    BY <2>1, <2>2, <2>3, CrankCases
<1> QED
  BY <1>1, <1>2 DEF CrankIInv

(***************************************************************************)
(* The invariant every theorem below rests on: the types, the order of the *)
(* indices, and the bounds of every earner's index and its first day.      *)
(***************************************************************************)
THEOREM CrankInductiveInvariant == CrankSpec => []CrankIInv
BY CrankIInvInit, CrankIInvStep, PTL DEF CrankSpec

\* The earners' index, cached from M at each sync, is between 1.0 and M's own.
THEOREM CrankIndexDomain == CrankSpec => []IndexDomain
BY CrankInductiveInvariant, PTL DEF CrankIInv

\* Every variable of the crank variant keeps its type, the fees within 100%.
THEOREM CrankTypeCorrect == CrankSpec => []CrankTypeOK
<1>1. CrankIInv => CrankTypeOK
  BY DEF CrankIInv
<1> QED
  BY <1>1, CrankInductiveInvariant, PTL

\* However earners are added, moved and removed, none is ahead of the ext index.
THEOREM EarnerNotAheadHolds == CrankSpec => []EarnerNotAhead
<1>1. CrankIInv => EarnerNotAhead
  BY DEF CrankIInv, EarnersInv, EarnerNotAhead
<1> QED
  BY <1>1, CrankInductiveInvariant, PTL

\* Every earner's manager has an account, even after the admin removed the manager.
THEOREM EarnerHasManagerHolds == CrankSpec => []EarnerHasManager
<1>1. CrankIInv => EarnerHasManager
  BY DEF CrankIInv, EarnersInv, EarnerHasManager
<1> QED
  BY <1>1, CrankInductiveInvariant, PTL

-----------------------------------------------------------------------------
(***************************************************************************)
(* The ledger: each step of the crank variant is one of YieldLedger's, or  *)
(* nothing that the ledger sees.                                           *)
(***************************************************************************)
\* The types of the ledger that the crank keeps.
LEMMA LedgerTypes ==
  ASSUME CrankIInv
  PROVE  /\ last_ext_index \in Nat \ {0}
         /\ ClaimedUpTo \in [Holders -> Nat] /\ FirstDays \in [Holders -> Nat]
         /\ LargestSnapshots \in [Holders -> Nat] /\ PaidOut \in [Holders -> Nat]
         /\ earners \in [Holders -> Earner \cup {None}] /\ payouts \in [Holders -> Payout]
<1>1. /\ last_ext_index \in Nat \ {0} /\ INDEX_SCALE \in Nat \ {0}
      /\ earners \in [Holders -> Earner \cup {None}] /\ payouts \in [Holders -> Payout]
  BY ScaleAssumption DEF CrankIInv, CrankTypeOK, MExtTypeOK, IndexDomain
<1>2. \A account \in Holders : PaidUpTo(account) \in Nat
  BY <1>1 DEF PaidUpTo, Earner
<1>3. \A account \in Holders :
        /\ payouts[account].since \in Nat /\ payouts[account].snapshot \in Nat
        /\ payouts[account].amount \in Nat
  BY <1>1 DEF Payout
<1> QED
  BY <1>1, <1>2, <1>3 DEF ClaimedUpTo, FirstDays, LargestSnapshots, PaidOut

\* What leaves the payouts and every account's claimed index alone is invisible.
LEMMA LedgerKept ==
  ASSUME UNCHANGED <<payouts, last_ext_index>>,
         \A account \in Holders : PaidUpTo(account)' = PaidUpTo(account)
  PROVE  UNCHANGED Ledger!ledger
BY DEF Ledger!ledger, ClaimedUpTo, FirstDays, LargestSnapshots, PaidOut

\* What leaves earners, payouts and the index alone is invisible.
LEMMA LedgerUntouched ==
  ASSUME UNCHANGED <<earners, payouts, last_ext_index>>
  PROVE  UNCHANGED Ledger!ledger
<1>1. \A account \in Holders : PaidUpTo(account)' = PaidUpTo(account)
  BY DEF PaidUpTo
<1> QED
  BY <1>1, LedgerKept

\* A sync: the growth accrues to the earners, and everybody else renounces it.
LEMMA SyncAccrues ==
  ASSUME CrankIInv, NEW signer, CrankSync(signer)
  PROVE  Ledger!Next \/ UNCHANGED Ledger!ledger
<1>1. /\ UNCHANGED <<earners, payouts>> /\ last_ext_index <= last_ext_index'
      /\ last_ext_index \in Nat /\ last_ext_index' \in Nat
  BY CrankHasIInv, CrankSyncBounds DEF CrankSync, crankVars, CrankIInv, IInv, MExtTypeOK
<1>2. CASE last_ext_index' = last_ext_index
  BY <1>1, <1>2, LedgerUntouched
<1>3. CASE last_ext_index' # last_ext_index
  <2> DEFINE renouncing == {account \in Holders : earners[account] = None}
  <2>1. last_ext_index' > last_ext_index
    BY <1>1, <1>3
  <2>2. renouncing \in SUBSET Holders
    OBVIOUS
  <2>3. ClaimedUpTo' = [account \in Holders |->
          IF account \in renouncing THEN last_ext_index' ELSE ClaimedUpTo[account]]
    BY <1>1 DEF ClaimedUpTo, PaidUpTo
  <2>4. UNCHANGED <<FirstDays, LargestSnapshots, PaidOut>>
    BY <1>1 DEF FirstDays, LargestSnapshots, PaidOut
  <2> HIDE DEF renouncing
  <2>5. Ledger!Accrue
    BY <1>1, <2>1, <2>2, <2>3, <2>4 DEF Ledger!Accrue
  <2> QED
    BY <2>5 DEF Ledger!Next
<1> QED
  BY <1>2, <1>3

\* A claim for an earner is a payment for the growth since its last one.
LEMMA ClaimForPays ==
  ASSUME CrankIInv, NEW signer, NEW account \in Holders, NEW snapshot \in Snapshots,
         ClaimFor(signer, account, snapshot)
  PROVE  Ledger!Pay(account)
<1>1. /\ last_ext_index \in Nat
      /\ ClaimedUpTo \in [Holders -> Nat] /\ FirstDays \in [Holders -> Nat]
      /\ LargestSnapshots \in [Holders -> Nat] /\ PaidOut \in [Holders -> Nat]
      /\ earners \in [Holders -> Earner \cup {None}] /\ payouts \in [Holders -> Payout]
      /\ snapshot \in Nat /\ None \notin Earner
  BY LedgerTypes, CrankAssumption
<1> DEFINE l == earners[account].last_claim_index
           largest == IF snapshot > LargestSnapshots[account]
                      THEN snapshot ELSE LargestSnapshots[account]
<1>2. PICK rewards \in Nat :
        /\ rewards * l <= snapshot * (last_ext_index - l)
        /\ ext_supply' = ext_supply + rewards
        /\ (ext_supply + rewards) * INDEX_SCALE <= vault_amount * MIndex
        /\ payouts' = [payouts EXCEPT ![account] = Paid(@, snapshot, rewards)]
  BY ClaimForMints
<1>3. /\ earners[account] # None /\ earners[account] \in Earner
      /\ earners' = [earners EXCEPT ![account].last_claim_index = last_ext_index]
      /\ UNCHANGED last_ext_index
  BY <1>1 DEF ClaimFor, yieldVars
<1>4. l \in Nat /\ l <= last_ext_index /\ ClaimedUpTo[account] = l
  BY <1>3 DEF Earner, CrankIInv, EarnersInv, ClaimedUpTo, PaidUpTo
<1>5. FirstDays[account] # 0
  BY <1>3 DEF FirstDays, CrankIInv, FirstDaysInv
<1>6. /\ UNCHANGED FirstDays
      /\ LargestSnapshots' = [LargestSnapshots EXCEPT ![account] = largest]
      /\ PaidOut' = [PaidOut EXCEPT ![account] = @ + rewards]
  BY <1>1, <1>2 DEF Paid, FirstDays, LargestSnapshots, PaidOut
<1>7. ClaimedUpTo' = [ClaimedUpTo EXCEPT ![account] = last_ext_index]
  <2>1. /\ earners'[account] \in Earner /\ earners'[account] # None
        /\ earners'[account].last_claim_index = last_ext_index
        /\ \A other \in Holders \ {account} : earners'[other] = earners[other]
    BY <1>1, <1>3 DEF Earner
  <2>2. /\ PaidUpTo(account)' = last_ext_index
        /\ \A other \in Holders \ {account} : PaidUpTo(other)' = PaidUpTo(other)
    BY <1>3, <2>1 DEF PaidUpTo
  <2> QED
    BY <2>2 DEF ClaimedUpTo
<1>8. /\ largest \in Nat /\ LargestSnapshots[account] <= largest /\ snapshot <= largest
      /\ PaidOut[account] \in Nat
  BY <1>1
<1> HIDE DEF l, largest
<1>9. rewards * l <= largest * (last_ext_index - l)
  <2>1. last_ext_index - l \in Nat
    BY <1>1, <1>4
  <2>2. snapshot * (last_ext_index - l) <= largest * (last_ext_index - l)
    BY <1>1, <1>8, <2>1, MulMono
  <2>3. /\ rewards * l \in Nat /\ snapshot * (last_ext_index - l) \in Nat
        /\ largest * (last_ext_index - l) \in Nat
    BY <1>1, <1>4, <1>8, <2>1, MulType
  <2> QED
    BY <1>2, <2>2, <2>3
<1>10. /\ LargestSnapshots' \in [Holders -> Nat] /\ PaidOut' \in [Holders -> Nat]
       /\ LargestSnapshots'[account] = largest /\ PaidOut'[account] = PaidOut[account] + rewards
       /\ \A other \in Holders \ {account} :
            /\ LargestSnapshots'[other] = LargestSnapshots[other]
            /\ PaidOut'[other] = PaidOut[other]
  BY <1>1, <1>6, <1>8
<1>11. PaidOut'[account] - PaidOut[account] = rewards /\ PaidOut[account] <= PaidOut'[account]
  BY <1>8, <1>10
<1> QED
  BY <1>3, <1>4, <1>5, <1>6, <1>7, <1>8, <1>9, <1>10, <1>11 DEF Ledger!Pay

\* A new earner joins on its first day; one that comes back starts where the index is.
LEMMA AddEarnerJoins ==
  ASSUME CrankIInv, NEW manager \in Managers, NEW user \in Accounts, NEW account \in Holders,
         AddEarner(manager, user, account)
  PROVE  Ledger!Next \/ UNCHANGED Ledger!ledger
<1>1. /\ last_ext_index \in Nat
      /\ ClaimedUpTo \in [Holders -> Nat] /\ FirstDays \in [Holders -> Nat]
      /\ earners \in [Holders -> Earner \cup {None}] /\ payouts \in [Holders -> Payout]
      /\ None \notin Earner
  BY LedgerTypes, CrankAssumption
<1> DEFINE earner == [last_claim_index |-> last_ext_index, user |-> user,
                      earn_manager |-> manager, recipient_token_account |-> None]
<1>2. /\ earners[account] = None /\ UNCHANGED last_ext_index
      /\ earners' = [earners EXCEPT ![account] = earner]
      /\ payouts' = [payouts EXCEPT ![account].since = IF @ = 0 THEN last_ext_index ELSE @]
  BY DEF AddEarner, StartIndex, vars, acctVars, yieldVars
<1>3. earner # None /\ earner.last_claim_index = last_ext_index
  BY <1>1 DEF Earner
<1> HIDE DEF earner
<1>4. \A other \in Holders : PaidUpTo(other)' = PaidUpTo(other)
  BY <1>1, <1>2, <1>3 DEF PaidUpTo
<1>5. CASE payouts[account].since = 0
  <2>1. /\ FirstDays[account] = 0 /\ UNCHANGED <<LargestSnapshots, PaidOut>>
        /\ FirstDays' = [FirstDays EXCEPT ![account] = last_ext_index]
    BY <1>1, <1>2, <1>5 DEF Payout, FirstDays, LargestSnapshots, PaidOut
  <2>2. ClaimedUpTo' = [ClaimedUpTo EXCEPT ![account] = last_ext_index]
    BY <1>2, <1>4 DEF ClaimedUpTo, PaidUpTo
  <2>3. Ledger!Join(account)
    BY <1>2, <2>1, <2>2 DEF Ledger!Join
  <2> QED
    BY <2>3 DEF Ledger!Next
<1>6. CASE payouts[account].since # 0
  <2>1. UNCHANGED payouts
    BY <1>1, <1>2, <1>6 DEF Payout
  <2> QED
    BY <1>2, <1>4, <2>1, LedgerKept
<1> QED
  BY <1>5, <1>6

\* Whoever is removed renounces what accrued since the last claim.
LEMMA RemovalRenounces ==
  ASSUME CrankIInv, NEW manager, NEW account \in Holders,
         RemoveEarner(manager, account) \/ RemoveOrphanedEarner(account)
  PROVE  Ledger!Next
<1>1. /\ UNCHANGED <<payouts, last_ext_index>>
      /\ earners' = [earners EXCEPT ![account] = None]
      /\ earners \in [Holders -> Earner \cup {None}]
  BY LedgerTypes DEF RemoveEarner, RemoveOrphanedEarner, vars, acctVars, yieldVars
<1>2. /\ PaidUpTo(account)' = last_ext_index
      /\ \A other \in Holders \ {account} : PaidUpTo(other)' = PaidUpTo(other)
  BY <1>1 DEF PaidUpTo
<1>3. ClaimedUpTo' = [ClaimedUpTo EXCEPT ![account] = last_ext_index]
  BY <1>2 DEF ClaimedUpTo
<1>4. UNCHANGED <<FirstDays, LargestSnapshots, PaidOut>>
  BY <1>1 DEF FirstDays, LargestSnapshots, PaidOut
<1> QED
  BY <1>1, <1>3, <1>4 DEF Ledger!Renounce, Ledger!Next

\* A change of accounts joins, renounces, or pays and forgoes nothing.
LEMMA AccountStepLedger ==
  ASSUME CrankIInv, AccountStep
  PROVE  Ledger!Next \/ UNCHANGED Ledger!ledger
<1>1. UNCHANGED last_ext_index
  BY AccountStepFrame DEF vars, acctVars, yieldVars
<1>2. earners \in [Holders -> Earner \cup {None}] /\ None \notin Earner
  BY LedgerTypes, CrankAssumption
<1>3. ASSUME NEW account \in Holders, NEW earner \in Earner, earners[account] \in Earner,
             earners' = [earners EXCEPT ![account] = earner],
             earner.last_claim_index = earners[account].last_claim_index,
             UNCHANGED payouts
      PROVE  UNCHANGED Ledger!ledger
  <2>1. \A other \in Holders : PaidUpTo(other)' = PaidUpTo(other)
    BY <1>1, <1>2, <1>3 DEF PaidUpTo
  <2> QED
    BY <1>1, <1>3, <2>1, LedgerKept
<1>4. ASSUME NEW manager \in Managers, NEW account \in Holders, NEW to_earn_manager \in Managers,
             TransferEarner(manager, account, to_earn_manager)
      PROVE  UNCHANGED Ledger!ledger
  <2> DEFINE earner == [earners[account] EXCEPT !.earn_manager = to_earn_manager]
  <2>1. /\ earners[account] \in Earner /\ UNCHANGED payouts
        /\ earners' = [earners EXCEPT ![account] = earner]
    BY <1>2, <1>4 DEF TransferEarner
  <2>2. earner \in Earner /\ earner.last_claim_index = earners[account].last_claim_index
    BY <2>1 DEF Earner
  <2> HIDE DEF earner
  <2> QED
    BY <1>3, <2>1, <2>2
<1>5. ASSUME NEW signer, NEW account \in Holders, NEW recipient \in Holders \cup {None},
             SetRecipient(signer, account, recipient)
      PROVE  UNCHANGED Ledger!ledger
  <2> DEFINE earner == [earners[account] EXCEPT !.recipient_token_account = recipient]
  <2>1. /\ earners[account] \in Earner /\ UNCHANGED payouts
        /\ earners' = [earners EXCEPT ![account] = earner]
    BY <1>2, <1>5 DEF SetRecipient
  <2>2. earner \in Earner /\ earner.last_claim_index = earners[account].last_claim_index
    BY <2>1 DEF Earner
  <2> HIDE DEF earner
  <2> QED
    BY <1>3, <2>1, <2>2
<1>6. ASSUME NEW signer, NEW manager, NEW fee, NEW fee_account, NEW authority, NEW state,
             \/ SetEarnAuthority(signer, authority)
             \/ AddEarnManager(signer, manager, fee, fee_account)
             \/ RemoveEarnManager(signer, manager)
             \/ SetTokenState(fee_account, state)
             \/ ConfigureEarnManager(manager, fee, fee_account)
      PROVE  UNCHANGED Ledger!ledger
  <2>1. UNCHANGED <<earners, payouts>>
    BY <1>6 DEF SetEarnAuthority, AddEarnManager, RemoveEarnManager, SetTokenState,
                ConfigureEarnManager
  <2> QED
    BY <1>1, <2>1, LedgerUntouched
<1> QED
  BY <1>4, <1>5, <1>6, AddEarnerJoins, RemovalRenounces DEF AccountStep, ManagerStep, EarnerStep

LEMMA CrankLedgerStep ==
  ASSUME CrankIInv, [CrankNext]_allVars
  PROVE  Ledger!Next \/ UNCHANGED Ledger!ledger
<1>1. CASE [Next]_vars /\ UNCHANGED <<earners, payouts>>
  BY <1>1, MExtKeepsIndex, LedgerUntouched
<1>2. ASSUME NEW signer, NEW account \in Holders, NEW snapshot \in Snapshots,
             ClaimFor(signer, account, snapshot)
      PROVE  Ledger!Next
  BY <1>2, ClaimForPays DEF Ledger!Next
<1> QED
  BY <1>1, <1>2, SyncAccrues, AccountStepLedger, CrankCases

LEMMA CrankLedgerInit == CrankInit => Ledger!Init
<1> SUFFICES ASSUME CrankInit PROVE Ledger!Init
  OBVIOUS
<1>1. last_ext_index \in Nat \ {0}
  BY CrankIInvInit, LedgerTypes
<1>2. /\ earners = [account \in Holders |-> None]
      /\ payouts = [account \in Holders |-> [since |-> 0, snapshot |-> 0, amount |-> 0]]
  BY DEF CrankInit
<1> QED
  BY <1>1, <1>2 DEF Ledger!Init, ClaimedUpTo, PaidUpTo, FirstDays, LargestSnapshots, PaidOut

(***************************************************************************)
(* Whatever the admin, the managers, the earners and the earn authority    *)
(* do, in whatever order: every claim is one payment for growth that was   *)
(* not paid for, and all else joins, renounces or moves nothing.           *)
(***************************************************************************)
THEOREM CrankImplementsLedger == CrankSpec => ImplementsLedger
<1>1. CrankIInv /\ [CrankNext]_allVars => [Ledger!Next]_(Ledger!ledger)
  BY CrankLedgerStep
<1> QED
  BY <1>1, CrankLedgerInit, CrankInductiveInvariant, PTL DEF CrankSpec, ImplementsLedger, Ledger!Spec

-----------------------------------------------------------------------------
(***************************************************************************)
(* What the ledger promises follows from its own steps: to the bound of    *)
(* PaidOnce belongs that nothing was paid before the first day, and that   *)
(* claims do not run ahead of the index.                                   *)
(***************************************************************************)
LedgerIInv ==
  /\ last_ext_index \in Nat
  /\ ClaimedUpTo \in [Holders -> Nat] /\ FirstDays \in [Holders -> Nat]
  /\ LargestSnapshots \in [Holders -> Nat] /\ PaidOut \in [Holders -> Nat]
  /\ \A account \in Holders :
       /\ FirstDays[account] <= ClaimedUpTo[account]
       /\ ClaimedUpTo[account] <= last_ext_index
       /\ FirstDays[account] = 0 => PaidOut[account] = 0
       /\ PaidOut[account] * FirstDays[account]
            <= LargestSnapshots[account] * (ClaimedUpTo[account] - FirstDays[account])

\* A bound that holds up to one index holds up to any later one.
LEMMA LaterIndex ==
  ASSUME NEW paid \in Nat, NEW since \in Nat, NEW snapshot \in Nat,
         NEW upto \in Nat, NEW later \in Nat, since <= upto, upto <= later,
         paid * since <= snapshot * (upto - since)
  PROVE  since <= later /\ paid * since <= snapshot * (later - since)
<1>1. upto - since \in Nat /\ later - since \in Nat /\ upto - since <= later - since
  OBVIOUS
<1>2. snapshot * (upto - since) <= snapshot * (later - since)
  BY <1>1, MulMonoRight
<1>3. /\ paid * since \in Nat /\ snapshot * (upto - since) \in Nat
      /\ snapshot * (later - since) \in Nat
  BY <1>1, MulType
<1> QED
  BY <1>2, <1>3

LEMMA LedgerIInvStep ==
  ASSUME LedgerIInv, Ledger!Next \/ UNCHANGED Ledger!ledger
  PROVE  LedgerIInv'
<1>1. /\ last_ext_index \in Nat
      /\ ClaimedUpTo \in [Holders -> Nat] /\ FirstDays \in [Holders -> Nat]
      /\ LargestSnapshots \in [Holders -> Nat] /\ PaidOut \in [Holders -> Nat]
  BY DEF LedgerIInv
\* Payments apart, claims move on and what was paid stays.
<1>2. ASSUME last_ext_index' \in Nat, ClaimedUpTo' \in [Holders -> Nat],
             UNCHANGED <<FirstDays, LargestSnapshots, PaidOut>>,
             \A account \in Holders : /\ ClaimedUpTo[account] <= ClaimedUpTo'[account]
                                      /\ ClaimedUpTo'[account] <= last_ext_index'
      PROVE  LedgerIInv'
  <2>1. ASSUME NEW account \in Holders
        PROVE  /\ FirstDays[account] <= ClaimedUpTo'[account]
               /\ PaidOut[account] * FirstDays[account]
                    <= LargestSnapshots[account] * (ClaimedUpTo'[account] - FirstDays[account])
    <3>1. /\ FirstDays[account] \in Nat /\ ClaimedUpTo[account] \in Nat
          /\ ClaimedUpTo'[account] \in Nat /\ PaidOut[account] \in Nat
          /\ LargestSnapshots[account] \in Nat
      BY <1>1, <1>2
    <3> QED
      BY <1>2, <3>1, LaterIndex DEF LedgerIInv
  <2> QED
    BY <1>1, <1>2, <2>1 DEF LedgerIInv
<1>3. CASE UNCHANGED Ledger!ledger
  BY <1>3 DEF Ledger!ledger, LedgerIInv
<1>4. CASE Ledger!Accrue
  <2>1. PICK renouncing \in SUBSET Holders :
          ClaimedUpTo' = [account \in Holders |->
            IF account \in renouncing THEN last_ext_index' ELSE ClaimedUpTo[account]]
    BY <1>4 DEF Ledger!Accrue
  <2>2. /\ last_ext_index' \in Nat /\ last_ext_index' > last_ext_index
        /\ UNCHANGED <<FirstDays, LargestSnapshots, PaidOut>>
    BY <1>4 DEF Ledger!Accrue
  <2>3. \A account \in Holders : ClaimedUpTo[account] <= last_ext_index
    BY DEF LedgerIInv
  <2> QED
    BY <1>1, <1>2, <2>1, <2>2, <2>3
<1>5. ASSUME NEW account \in Holders, Ledger!Renounce(account) PROVE LedgerIInv'
  <2>1. /\ ClaimedUpTo' = [ClaimedUpTo EXCEPT ![account] = last_ext_index]
        /\ UNCHANGED <<FirstDays, LargestSnapshots, PaidOut, last_ext_index>>
    BY <1>5 DEF Ledger!Renounce
  <2>2. \A other \in Holders : ClaimedUpTo[other] <= last_ext_index
    BY DEF LedgerIInv
  <2> QED
    BY <1>1, <1>2, <2>1, <2>2
<1>6. ASSUME NEW account \in Holders, Ledger!Join(account) PROVE LedgerIInv'
  <2>1. /\ ClaimedUpTo' = [ClaimedUpTo EXCEPT ![account] = last_ext_index]
        /\ FirstDays' = [FirstDays EXCEPT ![account] = last_ext_index]
        /\ FirstDays[account] = 0
        /\ UNCHANGED <<LargestSnapshots, PaidOut, last_ext_index>>
    BY <1>6 DEF Ledger!Join
  <2>2. PaidOut[account] = 0
    BY <2>1 DEF LedgerIInv
  <2>3. /\ FirstDays'[account] = last_ext_index /\ ClaimedUpTo'[account] = last_ext_index
        /\ FirstDays'[account] <= ClaimedUpTo'[account]
        /\ ClaimedUpTo'[account] <= last_ext_index
        /\ PaidOut[account] * FirstDays'[account]
             <= LargestSnapshots[account] * (ClaimedUpTo'[account] - FirstDays'[account])
    BY <1>1, <2>1, <2>2
  <2>4. \A other \in Holders \ {account} :
          FirstDays'[other] = FirstDays[other] /\ ClaimedUpTo'[other] = ClaimedUpTo[other]
    BY <1>1, <2>1
  <2>5. ClaimedUpTo' \in [Holders -> Nat] /\ FirstDays' \in [Holders -> Nat]
    BY <1>1, <2>1
  <2> QED
    BY <1>1, <2>1, <2>2, <2>3, <2>4, <2>5 DEF LedgerIInv
<1>7. ASSUME NEW account \in Holders, Ledger!Pay(account) PROVE LedgerIInv'
  <2>1. /\ LargestSnapshots' \in [Holders -> Nat] /\ PaidOut' \in [Holders -> Nat]
        /\ FirstDays[account] # 0
        /\ LargestSnapshots[account] <= LargestSnapshots'[account]
        /\ PaidOut[account] <= PaidOut'[account]
        /\ (PaidOut'[account] - PaidOut[account]) * ClaimedUpTo[account]
             <= LargestSnapshots'[account] * (last_ext_index - ClaimedUpTo[account])
        /\ \A other \in Holders \ {account} :
             LargestSnapshots'[other] = LargestSnapshots[other] /\ PaidOut'[other] = PaidOut[other]
        /\ ClaimedUpTo' = [ClaimedUpTo EXCEPT ![account] = last_ext_index]
        /\ UNCHANGED <<last_ext_index, FirstDays>>
    BY <1>7 DEF Ledger!Pay
  <2> DEFINE s == FirstDays[account]
             l == ClaimedUpTo[account]
             e == last_ext_index
             paid == PaidOut[account]
             old == LargestSnapshots[account]
             rewards == PaidOut'[account] - PaidOut[account]
             largest == LargestSnapshots'[account]
  <2>2. /\ s \in Nat /\ l \in Nat /\ e \in Nat /\ paid \in Nat /\ old \in Nat
        /\ rewards \in Nat /\ largest \in Nat /\ old <= largest
        /\ PaidOut'[account] = paid + rewards
    BY <1>1, <2>1
  <2>3. s <= l /\ l <= e /\ paid * s <= old * (l - s)
    BY DEF LedgerIInv
  <2>4. rewards * l <= largest * (e - l)
    BY <2>1
  <2> HIDE DEF s, l, e, paid, old, rewards, largest
  <2>5. s <= e /\ (paid + rewards) * s <= largest * (e - s)
    BY <2>2, <2>3, <2>4, PaidOnceArithmetic
  <2>6. PaidOut'[account] * FirstDays[account]
          <= LargestSnapshots'[account] * (last_ext_index - FirstDays[account])
        /\ FirstDays[account] <= last_ext_index
    BY <2>2, <2>5 DEF s, e, largest
  <2> QED
    BY <1>1, <2>1, <2>6 DEF LedgerIInv
<1> QED
  BY <1>3, <1>4, <1>5, <1>6, <1>7 DEF Ledger!Next

LEMMA LedgerIInvInit == Ledger!Init => LedgerIInv
<1> SUFFICES ASSUME Ledger!Init PROVE LedgerIInv
  OBVIOUS
<1>1. /\ last_ext_index \in Nat \ {0}
      /\ ClaimedUpTo = [account \in Holders |-> last_ext_index]
      /\ FirstDays = [account \in Holders |-> 0] /\ PaidOut = [account \in Holders |-> 0]
      /\ LargestSnapshots = [account \in Holders |-> 0]
  BY DEF Ledger!Init
<1> QED
  BY <1>1 DEF LedgerIInv

(***************************************************************************)
(* Whoever keeps to the ledger pays no growth twice: the payments of each  *)
(* claimant together are no more than its largest balance earned between   *)
(* its first day and its last claim.                                       *)
(***************************************************************************)
THEOREM LedgerPaysOnce == Ledger!Spec => []Ledger!PaidOnce
<1>1. LedgerIInv /\ [Ledger!Next]_(Ledger!ledger) => LedgerIInv'
  BY LedgerIInvStep
<1>2. LedgerIInv => Ledger!PaidOnce
  BY DEF LedgerIInv, Ledger!PaidOnce
<1> QED
  BY <1>1, <1>2, LedgerIInvInit, PTL DEF Ledger!Spec

(***************************************************************************)
(* No account is paid more than its largest snapshot earned since the      *)
(* account first became an earner, for any number of claims, re-additions  *)
(* and transfers: the crank implements the ledger, and the ledger pays     *)
(* once.                                                                   *)
(***************************************************************************)
THEOREM PaidOnceHolds == CrankSpec => []PaidOnce
<1>1. Ledger!PaidOnce => PaidOnce
  BY DEF Ledger!PaidOnce, PaidOnce, ClaimedUpTo, FirstDays, LargestSnapshots, PaidOut
<1> QED
  BY <1>1, CrankImplementsLedger, LedgerPaysOnce, PTL DEF ImplementsLedger

-----------------------------------------------------------------------------
\* What holds of MExt's variables through a claim, which mints against the vault alone.
LEMMA ClaimForFacts ==
  ASSUME CrankIInv, NEW signer, NEW account \in Holders, NEW snapshot \in Snapshots,
         ClaimFor(signer, account, snapshot)
  PROVE  /\ ext_supply' \in Nat /\ vault_amount \in Nat /\ MIndex \in Nat
         /\ ext_supply' * INDEX_SCALE <= vault_amount * MIndex
         /\ UNCHANGED <<m_multiplier, vault_amount, ops, stale_minted, last_m_index>>
         /\ UNCHANGED <<last_ext_index, govVars>>
<1>1. UNCHANGED <<m_multiplier, vault_amount, ops, stale_minted, last_m_index,
                  last_ext_index, govVars>>
  BY DEF ClaimFor, yieldVars, historyVars
<1>2. PICK rewards \in Nat :
        /\ rewards * earners[account].last_claim_index
             <= snapshot * (last_ext_index - earners[account].last_claim_index)
        /\ ext_supply' = ext_supply + rewards
        /\ (ext_supply + rewards) * INDEX_SCALE <= vault_amount * MIndex
        /\ payouts' = [payouts EXCEPT ![account] = Paid(@, snapshot, rewards)]
  BY ClaimForMints
<1>3. ext_supply \in Nat /\ vault_amount \in Nat /\ MIndex \in Nat
  BY MExtAssumption, MIndexBounds DEF CrankIInv, CrankTypeOK, MExtTypeOK, MIndex
<1> QED
  BY <1>1, <1>2, <1>3

\* In this variant the backing is reckoned at 1.0 and at M's own index.
LEMMA CrankIndices ==
  /\ ExtIndex = INDEX_SCALE /\ ExtIndex' = INDEX_SCALE
  /\ CachedMIndex = MIndex /\ CachedMIndex' = MIndex'
BY CrankAssumption DEF ExtIndex, CachedMIndex, ScaledUi

\* No claim, sync or change of accounts ends the backing.
LEMMA CrankBackedStep ==
  ASSUME CrankIInv, Backed, [CrankNext]_allVars
  PROVE  Backed'
<1>1. IInv
  BY CrankHasIInv
<1>2. CASE [Next]_vars
  BY <1>1, <1>2, BackedStep
<1>3. ASSUME UNCHANGED <<m_multiplier, vault_amount, ext_supply, ops, stale_minted, govVars>>
      PROVE  Backed'
  BY <1>3, CrankIndices DEF Backed, Initialized, MIndex, govVars
<1>4. ASSUME NEW signer, CrankSync(signer) PROVE Backed'
  BY <1>3, <1>4 DEF CrankSync, historyVars
<1>5. ASSUME NEW signer, NEW account \in Holders, NEW snapshot \in Snapshots,
             ClaimFor(signer, account, snapshot)
      PROVE  Backed'
  <2>1. /\ ext_supply' \in Nat /\ vault_amount \in Nat /\ MIndex \in Nat
        /\ ext_supply' * INDEX_SCALE <= vault_amount * MIndex
        /\ UNCHANGED <<m_multiplier, vault_amount, ops, stale_minted>>
    BY <1>5, ClaimForFacts
  <2>2. ops \in Nat /\ stale_minted \in Nat /\ INDEX_SCALE \in Nat
    BY <1>1, MExtAssumption, ScaleAssumption DEF IInv, MExtTypeOK
  <2> DEFINE backing == vault_amount + ops + stale_minted
  <2>3. backing \in Nat /\ vault_amount <= backing
    BY <2>1, <2>2
  <2> HIDE DEF backing
  <2>4. ext_supply' * INDEX_SCALE <= backing * MIndex
    <3>1. ext_supply' * INDEX_SCALE \in Nat
      BY <2>1, <2>2, MulType
    <3> QED
      BY <2>1, <2>3, <3>1, FreshClaimArithmetic
  <2>5. vault_amount' + ops' + stale_minted' = backing /\ MIndex' = MIndex
    BY <2>1 DEF backing, MIndex
  <2> QED
    BY <2>4, <2>5, CrankIndices DEF Backed
<1>6. CASE AccountStep
  BY <1>1, <1>2, <1>6, AccountStepFrame
<1> QED
  BY <1>2, <1>4, <1>5, <1>6, CrankCases

(***************************************************************************)
(* With every sync, claim and fee of the crank variant, the vault backs    *)
(* the ext tokens at M's index but for a unit per wrap or unwrap.          *)
(***************************************************************************)
THEOREM CrankBackedHolds == CrankSpec => []Backed
<1>1. CrankInit => Backed
  BY DEF CrankInit, Init, GovInit, Backed, Initialized
<1> QED
  BY <1>1, CrankInductiveInvariant, CrankBackedStep, PTL DEF CrankSpec

\* Nor do claims for earners take what the whole supply needs to leave.
THEOREM CrankWholeSupplyCanLeave == CrankSpec => []WholeSupplyCanLeave
<1>1. CrankIInv /\ Backed => WholeSupplyCanLeave
  BY BackedCanLeave, CrankHasIInv
<1> QED
  BY <1>1, CrankInductiveInvariant, CrankBackedHolds, PTL

(***************************************************************************)
(* This variant reckons at M's own index, so that it never mints against a *)
(* lagging one: what the tests call solvent holds up to a unit of M per    *)
(* wrap or unwrap, with no condition on fees and growth.                   *)
(***************************************************************************)
THEOREM CrankSolventWithinRounding == CrankSpec => []SolventWithinRounding
<1> DEFINE NothingStale == stale_minted = 0
<1>1. CrankInit => NothingStale
  BY DEF CrankInit, Init
<1>2. ASSUME CrankIInv, NothingStale, [CrankNext]_allVars PROVE NothingStale'
  <2>1. CASE [Next]_vars
    <3>1. ~ScaledUi /\ ~ScaledUi'
      BY CrankAssumption DEF ScaledUi
    <3>2. NoHiddenGrowth /\ NeverStale /\ IInv
      BY <1>2, <3>1, CrankHasIInv DEF NoHiddenGrowth, NeverStale
    <3> QED
      BY <2>1, <3>2, NeverStaleStep DEF NeverStale
  <2>2. ASSUME NEW signer, NEW account, NEW snapshot,
               CrankSync(signer) \/ ClaimFor(signer, account, snapshot)
        PROVE  NothingStale'
    BY <1>2, <2>2 DEF CrankSync, ClaimFor, historyVars
  <2>3. CASE AccountStep
    BY <1>2, <2>3, AccountStepFrame DEF vars, acctVars, historyVars
  <2> QED
    BY <1>2, <2>1, <2>2, <2>3, CrankCases
<1>3. CrankIInv /\ Backed /\ NothingStale => SolventWithinRounding
  BY NotStaleIsSolvent, CrankHasIInv DEF CrankIInv
<1> HIDE DEF NothingStale
<1> QED
  BY <1>1, <1>2, <1>3, CrankInductiveInvariant, CrankBackedHolds, PTL DEF CrankSpec

\* No step of the crank variant pays earners for more than M grew, or while frozen.
LEMMA CrankFairGrowthStep ==
  ASSUME CrankIInv, [CrankNext]_allVars
  PROVE  [GrowthIsFair]_vars
<1>1. IInv
  BY CrankHasIInv
<1>2. CASE [Next]_vars
  BY <1>1, <1>2, FairGrowthStep
<1>3. ASSUME NEW signer, CrankSync(signer) PROVE GrowthIsFair
  BY <1>1, <1>3, CrankSyncBounds DEF GrowthIsFair, CrankIInv
<1>4. ASSUME NEW signer, NEW account \in Holders, NEW snapshot \in Snapshots,
             ClaimFor(signer, account, snapshot)
      PROVE  GrowthIsFair
  <2>1. UNCHANGED <<last_m_index, last_ext_index>>
    BY <1>4, ClaimForFacts
  <2>2. last_ext_index \in Nat /\ last_m_index \in Nat
    BY <1>1 DEF IInv, MExtTypeOK
  <2> QED
    BY <2>1, <2>2 DEF GrowthIsFair
<1> QED
  BY <1>2, <1>3, <1>4, CrankCases, AccountStepFrame

\* The earn authority's syncs share no more than M's growth, and none of a frozen vault's.
THEOREM CrankFairGrowthHolds == CrankSpec => FairGrowth
BY CrankFairGrowthStep, CrankInductiveInvariant, PTL DEF CrankSpec, FairGrowth

(***************************************************************************)
(* All of the earn authority's syncs together, over any period, raise the  *)
(* earners' index by no larger a factor than M's, and never lower it.      *)
(***************************************************************************)
THEOREM CrankFairOverAnyPeriod ==
  ASSUME NEW ext \in Nat, NEW m \in Nat \ {0}
  PROVE  CrankSpec => [](Initialized /\ last_ext_index = ext /\ last_m_index = m
                           => []GrownFairlyFrom(ext, m))
<1>1. CrankIInv /\ Initialized /\ last_ext_index = ext /\ last_m_index = m
        => GrownFairlyFrom(ext, m)
  BY DEF GrownFairlyFrom
<1>2. ASSUME CrankIInv, CrankIInv', GrownFairlyFrom(ext, m), [CrankNext]_allVars
      PROVE  GrownFairlyFrom(ext, m)'
  <2>1. IInv /\ IInv' /\ Initialized
    BY <1>2 DEF CrankIInv, CrankTypeOK, IInv, IndexDomain, IndexOrder, GrownFairlyFrom
  <2>2. Initialized'
    <3>1. CASE [Next]_vars
      BY <2>1, <3>1, StaysInitialized
    <3>2. ASSUME NEW signer, NEW account, NEW snapshot,
                 CrankSync(signer) \/ ClaimFor(signer, account, snapshot) \/ UNCHANGED vars
          PROVE  Initialized'
      BY <2>1, <3>2 DEF CrankSync, ClaimFor, vars, govVars, Initialized
    <3> QED
      BY <1>2, <3>1, <3>2, CrankCases, AccountStepFrame
  <2> QED
    BY <1>2, <2>1, <2>2, CrankFairGrowthStep, GrownFairlyStep
<1> QED
  BY <1>1, <1>2, CrankInductiveInvariant, PTL DEF CrankSpec

\* The two mints of a claim together fit in what the vault is worth.
LEMMA CrankClaimIsCoveredStep ==
  ASSUME CrankIInv, [CrankNext]_allVars
  PROVE  [ClaimIsCovered]_vars
<1>1. IInv
  BY CrankHasIInv
<1>2. CASE [Next]_vars
  BY <1>1, <1>2, ClaimIsCoveredStep
<1>3. ASSUME NEW signer, CrankSync(signer) PROVE ClaimIsCovered
  BY <1>1, <1>3 DEF CrankSync, ClaimIsCovered, IInv, MExtTypeOK
<1>4. ASSUME NEW signer, NEW account \in Holders, NEW snapshot \in Snapshots,
             ClaimFor(signer, account, snapshot)
      PROVE  ClaimIsCovered
  BY <1>4, ClaimForFacts, CrankIndices DEF ClaimIsCovered
<1> QED
  BY <1>2, <1>3, <1>4, CrankCases, AccountStepFrame

(***************************************************************************)
(* A claim for an earner, fee and share together, leaves the vault worth   *)
(* the whole supply at M's index.                                          *)
(***************************************************************************)
THEOREM CrankClaimsLeaveCollateral == CrankSpec => ClaimsLeaveCollateral
BY CrankClaimIsCoveredStep, CrankInductiveInvariant, PTL DEF CrankSpec, ClaimsLeaveCollateral

(***************************************************************************)
(* The crank variant keeps to the governance specification as well: its    *)
(* own instructions leave admins and authorities alone.                    *)
(***************************************************************************)
THEOREM CrankImplementsGovernance == CrankSpec => GovSpec
<1>1. CrankInit => GovInit
  BY DEF CrankInit, Init
<1>2. ASSUME [CrankNext]_allVars PROVE [GovNext]_govVars
  <2>1. CASE [Next]_vars
    BY <2>1, NextGoverns
  <2>2. ASSUME NEW signer, NEW account, NEW snapshot,
               CrankSync(signer) \/ ClaimFor(signer, account, snapshot)
        PROVE  UNCHANGED govVars
    BY <2>2 DEF CrankSync, ClaimFor
  <2>3. CASE AccountStep
    BY <2>3, AccountStepFrame DEF vars
  <2> QED
    BY <1>2, <2>1, <2>2, <2>3, CrankCases
<1> QED
  BY <1>1, <1>2, PTL DEF CrankSpec, GovSpec
-----------------------------------------------------------------------------
\* A claim for an earner is a reward, and what only moves earners is invisible to the promise.
LEMMA CrankPromiseStep ==
  ASSUME CrankIInv, [CrankNext]_allVars
  PROVE  Promise!Next \/ UNCHANGED Promise!token
<1>1. IInv
  BY CrankHasIInv
<1>2. CASE [Next]_vars
  <2>1. CASE Initialized
    <3>1. PromiseIInv
      BY <1>1, <2>1 DEF PromiseIInv, FreshStart
    <3> QED
      BY <1>2, <3>1, PromiseStep
  <2>2. CASE ~Initialized
    <3>1. ASSUME NEW signer \in Accounts, NEW authorities, NEW fee,
                 Initialize(signer, authorities, fee)
          PROVE  Promise!Next
      <4>1. /\ UNCHANGED <<vault_amount, ext_supply, m_multiplier>>
            /\ MIndex' = MIndex /\ MIndex \in Nat
        BY <1>1, <3>1, MIndexBounds DEF Initialize, MIndex, IInv, MExtTypeOK
      <4> QED
        BY <4>1, CrankIndices, ScaleAssumption
        DEF Promise!Next, Promise!SettleOnly, Promise!Settle
    <3>2. ASSUME Environment PROVE Promise!Next \/ UNCHANGED Promise!token
      BY <1>1, <3>2, EnvironmentPromise
    <3>3. CASE UNCHANGED vars
      BY <3>3, Invisible DEF vars, acctVars, yieldVars
    <3>4. ASSUME Govern PROVE UNCHANGED Promise!token
      BY <3>4, Invisible DEF Govern, acctVars, yieldVars
    <3> QED
      BY <1>2, <2>2, <3>1, <3>2, <3>3, <3>4, NextCases
      DEF Environment, Wrap, Unwrap, SetFee, Sync, IsAdmin
  <2> QED
    BY <2>1, <2>2
<1>3. ASSUME NEW signer, CrankSync(signer) PROVE UNCHANGED Promise!token
  <2>1. UNCHANGED <<m_multiplier, vault_amount, ext_supply>>
    BY <1>3 DEF CrankSync
  <2> QED
    BY <2>1, CrankIndices DEF Promise!token, MIndex
<1>4. ASSUME NEW signer, NEW account \in Holders, NEW snapshot \in Snapshots,
             ClaimFor(signer, account, snapshot)
      PROVE  Promise!Next
  <2>1. /\ ext_supply' * INDEX_SCALE <= vault_amount * MIndex
        /\ UNCHANGED <<m_multiplier, vault_amount>> /\ MIndex \in Nat
    BY <1>4, ClaimForFacts
  <2>2. PICK rewards \in Nat : ext_supply' = ext_supply + rewards
    BY <1>4, ClaimForMints
  <2>3. ext_supply \in Nat /\ MIndex' = MIndex
    BY <1>1, <2>1 DEF IInv, MExtTypeOK, MIndex
  <2>4. Promise!Settle
    BY <2>1, <2>3, CrankIndices, ScaleAssumption DEF Promise!Settle
  <2>5. CASE rewards = 0
    BY <2>1, <2>2, <2>3, <2>4, <2>5 DEF Promise!Next, Promise!SettleOnly
  <2>6. CASE rewards # 0
    <3>1. ext_supply' > ext_supply
      BY <2>2, <2>3, <2>6
    <3> QED
      BY <2>1, <2>4, <3>1, CrankIndices DEF Promise!Next, Promise!Reward
  <2> QED
    BY <2>5, <2>6
<1>5. CASE AccountStep
  BY <1>5, AccountStepFrame, Invisible DEF vars, acctVars, yieldVars
<1> QED
  BY <1>2, <1>3, <1>4, <1>5, CrankCases

(***************************************************************************)
(* The crank variant keeps the same promise: to the vault and to those who *)
(* wrap and unwrap, a claim for an earner is like a claim of the admin.    *)
(***************************************************************************)
THEOREM CrankKeepsItsPromise == CrankSpec => KeepsItsPromise
<1>1. CrankInit => Promise!Init
  BY PromiseInit DEF CrankInit
<1>2. CrankIInv /\ [CrankNext]_allVars => [Promise!Next]_(Promise!token)
  BY CrankPromiseStep
<1> QED
  BY <1>1, <1>2, CrankInductiveInvariant, PTL DEF CrankSpec, KeepsItsPromise, Promise!Spec
=============================================================================
