----------------------------- MODULE Promise_proofs -----------------------------
(***************************************************************************)
(* MExt implements BackedToken; and a mint created at 1.0 always shows the *)
(* index the program computes with.                                        *)
(*                                                                         *)
(* The argument: every handler first syncs, which is a Settle (SyncSettles *)
(* from SyncBounds), and then moves two principals that are the same       *)
(* amount rounded down at two indices (SameAmount) or mints what a claim   *)
(* may.  Initialize settles as well, because nothing can have moved the    *)
(* ext index before it (FreshStart).                                       *)
(***************************************************************************)
EXTENDS MExt_proofs

\* Before Initialize nothing has touched the indices or the ext mint's multiplier.
FreshStart ==
  ~Initialized =>
    /\ last_ext_index = INDEX_SCALE
    /\ last_m_index = INDEX_SCALE
    /\ ext_multiplier \in CreationMultipliers

PromiseIInv == IInv /\ FreshStart

LEMMA FreshStartStep ==
  ASSUME FreshStart, [Next]_vars
  PROVE  FreshStart'
<1>1. CASE Initialized
  BY <1>1, StaysInitialized DEF FreshStart
<1>2. CASE UNCHANGED vars
  BY <1>2 DEF vars, acctVars, yieldVars, govVars, FreshStart, Initialized
<1>3. ASSUME ~Initialized, Environment PROVE FreshStart'
  BY <1>3
  DEF Environment, PropagateIndex, SetVaultState, Donate, BurnExt, govVars, yieldVars,
      FreshStart, Initialized
<1>4. ASSUME ~Initialized, NEW signer \in Accounts, NEW authorities, NEW fee,
             Initialize(signer, authorities, fee)
      PROVE  FreshStart'
  BY <1>4, AccountsAssumption DEF Initialize, InitializeGlobal, FreshStart, Initialized
<1>5. ASSUME Govern PROVE Initialized
  BY <1>5, AccountsAssumption
  DEF Govern, GovStep, TransferAdmin, AddWrapAuthority, RemoveWrapAuthority, SetClaimConfig,
      AcceptAdmin, RevokeAdminTransfer, RemoveClaimConfig, IsAdmin
<1> QED
  BY <1>1, <1>2, <1>3, <1>4, <1>5, NextCases
  DEF Environment, Wrap, Unwrap, SetFee, Sync, IsAdmin

THEOREM FreshStartHolds == Spec => []PromiseIInv
<1>1. Init => FreshStart
  BY DEF Init, FreshStart
<1> QED
  BY <1>1, FreshStartStep, InductiveInvariant, PTL DEF Spec, PromiseIInv

-----------------------------------------------------------------------------
\* A sync settles growth of M that had not been settled before.
LEMMA SyncSettles ==
  ASSUME IInv, SyncIndex, UNCHANGED m_multiplier
  PROVE  Promise!Settle
<1>1. /\ MIndex \in Nat \ {0} /\ MIndex' = MIndex
      /\ CachedMIndex' \in Nat \ {0} /\ CachedMIndex' <= MIndex
      /\ INDEX_SCALE \in Nat \ {0}
  BY SyncedFacts
<1>2. CASE ScaledUi
  <2>1. /\ last_ext_index <= last_ext_index'
        /\ last_ext_index' * last_m_index <= last_ext_index * last_m_index'
    BY SyncBounds
  <2>2. last_m_index <= last_m_index'
    BY <1>2, SyncBounds
  <2> QED
    BY <1>1, <1>2, <2>1, <2>2 DEF Promise!Settle, ExtIndex, CachedMIndex, ScaledUi
<1>3. CASE ~ScaledUi
  <2>1. ExtIndex = INDEX_SCALE /\ ExtIndex' = INDEX_SCALE
        /\ CachedMIndex = MIndex /\ CachedMIndex' = MIndex
    BY <1>1, <1>3 DEF ExtIndex, CachedMIndex, ScaledUi
  <2> QED
    BY <1>1, <2>1 DEF Promise!Settle
<1> QED
  BY <1>2, <1>3

LEMMA WrapIssues ==
  ASSUME IInv, NEW signer, NEW other, NEW amount \in Amounts, Wrap(signer, other, amount)
  PROVE  Promise!Issue
<1> DEFINE m == AmountToPrincipalDown(amount, MIndex)
           x == AmountToPrincipalDown(amount, SyncedExtIndex)
<1>1. SyncIndex /\ UNCHANGED m_multiplier
  BY DEF Wrap
<1>2. m > 0 /\ x > 0 /\ vault_amount' = vault_amount + m /\ ext_supply' = ext_supply + x
  BY DEF Wrap
<1>3. /\ SyncedExtIndex \in Nat \ {0} /\ MIndex \in Nat \ {0} /\ amount \in Nat
      /\ ext_supply \in Nat /\ vault_amount \in Nat /\ SyncedExtIndex = ExtIndex'
  BY <1>1, SyncedFacts
<1>4. m \in Nat /\ x \in Nat
  BY <1>3, PrincipalType
<1>5. x * SyncedExtIndex < (m + 1) * MIndex /\ m * MIndex < (x + 1) * SyncedExtIndex
  BY <1>3, SameAmount
<1> HIDE DEF m, x
<1>6. vault_amount' - vault_amount = m /\ ext_supply' - ext_supply = x
  BY <1>2, <1>3, <1>4
<1>7. vault_amount' > vault_amount /\ ext_supply' > ext_supply
  BY <1>2, <1>3, <1>4
<1>8. Promise!Equivalent(vault_amount' - vault_amount, ext_supply' - ext_supply)
  BY <1>3, <1>5, <1>6 DEF Promise!Equivalent
<1> QED
  BY <1>1, <1>7, <1>8, SyncSettles DEF Promise!Issue

LEMMA UnwrapRedeems ==
  ASSUME IInv, NEW signer, NEW other, NEW amount \in Amounts, Unwrap(signer, other, amount)
  PROVE  Promise!Redeem
<1> DEFINE m == AmountToPrincipalDown(amount, MIndex)
           x == AmountToPrincipalDown(amount, SyncedExtIndex)
<1>1. SyncIndex /\ UNCHANGED m_multiplier
  BY DEF Unwrap
<1>2. m > 0 /\ x > 0 /\ vault_amount' = vault_amount - m /\ ext_supply' = ext_supply - x
  BY DEF Unwrap
<1>3. /\ SyncedExtIndex \in Nat \ {0} /\ MIndex \in Nat \ {0} /\ amount \in Nat
      /\ ext_supply \in Nat /\ vault_amount \in Nat /\ SyncedExtIndex = ExtIndex'
  BY <1>1, SyncedFacts
<1>4. m \in Nat /\ x \in Nat
  BY <1>3, PrincipalType
<1>5. x * SyncedExtIndex < (m + 1) * MIndex /\ m * MIndex < (x + 1) * SyncedExtIndex
  BY <1>3, SameAmount
<1> HIDE DEF m, x
<1>6. vault_amount - vault_amount' = m /\ ext_supply - ext_supply' = x
  BY <1>2, <1>3, <1>4
<1>7. vault_amount' < vault_amount /\ ext_supply' < ext_supply
  BY <1>2, <1>3, <1>4
<1>8. Promise!Equivalent(vault_amount - vault_amount', ext_supply - ext_supply')
  BY <1>3, <1>5, <1>6 DEF Promise!Equivalent
<1> QED
  BY <1>1, <1>7, <1>8, SyncSettles DEF Promise!Redeem

\* A claim rewards its recipient, or has nothing to reward it with.
LEMMA ClaimRewards ==
  ASSUME IInv, ClaimExcess
  PROVE  Promise!Reward \/ Promise!SettleOnly
<1>1. SyncIndex /\ UNCHANGED m_multiplier /\ UNCHANGED vault_amount
  BY DEF ClaimExcess
<1>2. PICK x \in Nat : /\ ext_supply' = ext_supply + x
                       /\ (ext_supply + x) * SyncedExtIndex <= vault_amount * MIndex
  BY ClaimMints
<1>3. ext_supply \in Nat /\ SyncedExtIndex = ExtIndex'
  BY <1>1, SyncedFacts
<1>4. Promise!Settle
  BY <1>1, SyncSettles
<1>5. CASE x = 0
  <2>1. ext_supply' = ext_supply
    BY <1>2, <1>3, <1>5
  <2> QED
    BY <1>1, <1>4, <2>1 DEF Promise!SettleOnly
<1>6. CASE x # 0
  <2>1. ext_supply' > ext_supply
    BY <1>2, <1>3, <1>6
  <2> QED
    BY <1>1, <1>2, <1>3, <1>4, <2>1 DEF Promise!Reward
<1> QED
  BY <1>5, <1>6

LEMMA InitializeSettles ==
  ASSUME PromiseIInv, NEW signer \in Accounts, NEW authorities, NEW fee,
         Initialize(signer, authorities, fee)
  PROVE  Promise!SettleOnly
<1>1. UNCHANGED <<vault_amount, ext_supply, m_multiplier>> /\ ~Initialized
  BY DEF Initialize, InitializeGlobal
<1>2. MIndex' = MIndex /\ MIndex \in Nat \ {0} /\ INDEX_SCALE \in Nat \ {0}
  BY <1>1, MIndexBounds, ScaleAssumption DEF MIndex, PromiseIInv, IInv, MExtTypeOK
<1>3. CASE ScaledUi
  <2>1. last_m_index' = MIndex /\ last_ext_index' = INDEX_SCALE /\ last_ext_index = INDEX_SCALE
    BY <1>1, <1>3 DEF Initialize, LatestExtIndex, PromiseIInv, FreshStart
  <2>2. last_m_index \in Nat /\ last_m_index <= MIndex
    BY <1>1, MIndexBounds DEF PromiseIInv, FreshStart, IInv, MExtTypeOK, MIndex
  <2>3. INDEX_SCALE * last_m_index <= INDEX_SCALE * MIndex
    BY <1>2, <2>2, MulMonoRight
  <2> QED
    BY <1>1, <1>2, <1>3, <2>1, <2>2, <2>3
    DEF Promise!SettleOnly, Promise!Settle, ExtIndex, CachedMIndex, ScaledUi
<1>4. CASE ~ScaledUi
  <2>1. ExtIndex = INDEX_SCALE /\ ExtIndex' = INDEX_SCALE
        /\ CachedMIndex = MIndex /\ CachedMIndex' = MIndex
    BY <1>2, <1>4 DEF ExtIndex, CachedMIndex, ScaledUi
  <2> QED
    BY <1>1, <1>2, <2>1 DEF Promise!SettleOnly, Promise!Settle
<1> QED
  BY <1>3, <1>4

\* What leaves all that backs or indexes the tokens alone is invisible.
LEMMA Invisible ==
  ASSUME UNCHANGED <<m_multiplier, vault_amount, ext_supply, last_m_index, last_ext_index>>
  PROVE  UNCHANGED Promise!token
BY DEF Promise!token, MIndex, CachedMIndex, ExtIndex

LEMMA PropagateGrows ==
  ASSUME IInv, NEW multiplier \in Multipliers, PropagateIndex(multiplier)
  PROVE  Promise!Grow \/ UNCHANGED Promise!token
<1>1. /\ UNCHANGED <<vault_amount, ext_supply, last_m_index, last_ext_index>>
      /\ m_multiplier < multiplier /\ m_multiplier' = multiplier
  BY DEF PropagateIndex, yieldVars
<1>2. MIndex \in Nat /\ MIndex' \in Nat /\ MIndex <= MIndex'
  <2>1. m_multiplier \in Multipliers
    BY DEF IInv, MExtTypeOK
  <2> QED
    BY <1>1, <2>1, MIndexBounds, MIndexMono DEF MIndex
<1>3. ExtIndex' = ExtIndex
  BY <1>1 DEF ExtIndex
<1>4. CachedMIndex' = CachedMIndex \/ CachedMIndex' = MIndex'
  BY <1>1 DEF CachedMIndex
<1>5. CASE MIndex' = MIndex
  <2>1. CachedMIndex' = CachedMIndex
    BY <1>1, <1>5 DEF CachedMIndex
  <2> QED
    BY <1>1, <1>3, <1>5, <2>1 DEF Promise!token
<1>6. CASE MIndex' # MIndex
  <2>1. MIndex' > MIndex
    BY <1>2, <1>6
  <2> QED
    BY <1>1, <1>3, <1>4, <2>1 DEF Promise!Grow
<1> QED
  BY <1>5, <1>6

LEMMA EnvironmentPromise ==
  ASSUME IInv, Environment
  PROVE  Promise!Next \/ UNCHANGED Promise!token
<1>1. ASSUME NEW multiplier \in Multipliers, PropagateIndex(multiplier)
      PROVE  Promise!Next \/ UNCHANGED Promise!token
  BY <1>1, PropagateGrows DEF Promise!Next
<1>2. ASSUME NEW state, SetVaultState(state) PROVE UNCHANGED Promise!token
  BY <1>2, Invisible DEF SetVaultState, yieldVars
<1>3. UNCHANGED <<m_multiplier, last_m_index, last_ext_index>> =>
        UNCHANGED <<MIndex, CachedMIndex, ExtIndex>>
  BY DEF MIndex, CachedMIndex, ExtIndex
<1>4. ASSUME Donate PROVE Promise!Donate
  <2>1. vault_amount \in Nat
    BY MExtAssumption DEF IInv, MExtTypeOK
  <2> QED
    BY <1>3, <1>4, <2>1 DEF Donate, yieldVars, Promise!Donate
<1>5. ASSUME BurnExt PROVE Promise!Burn
  <2>1. ext_supply \in Nat
    BY DEF IInv, MExtTypeOK
  <2> QED
    BY <1>3, <1>5, <2>1 DEF BurnExt, yieldVars, Promise!Burn
<1> QED
  BY <1>1, <1>2, <1>4, <1>5 DEF Environment, Promise!Next

LEMMA PromiseStep ==
  ASSUME PromiseIInv, [Next]_vars
  PROVE  Promise!Next \/ UNCHANGED Promise!token
<1>0. IInv
  BY DEF PromiseIInv
<1>1. CASE UNCHANGED vars
  BY <1>1, Invisible DEF vars, acctVars, yieldVars
<1>2. ASSUME NEW signer \in Accounts, NEW authorities, NEW fee,
             Initialize(signer, authorities, fee)
      PROVE  Promise!Next
  BY <1>2, InitializeSettles DEF Promise!Next
<1>3. ASSUME NEW signer, NEW other, NEW amount \in Amounts, Wrap(signer, other, amount)
      PROVE  Promise!Next
  BY <1>0, <1>3, WrapIssues DEF Promise!Next
<1>4. ASSUME NEW signer, NEW other, NEW amount \in Amounts, Unwrap(signer, other, amount)
      PROVE  Promise!Next
  BY <1>0, <1>4, UnwrapRedeems DEF Promise!Next
<1>5. ASSUME ClaimExcess PROVE Promise!Next
  BY <1>0, <1>5, ClaimRewards DEF Promise!Next
<1>6. ASSUME SyncIndex, UNCHANGED <<m_multiplier, vault_amount, ext_supply>>
      PROVE  Promise!Next
  BY <1>0, <1>6, SyncSettles DEF Promise!Next, Promise!SettleOnly
<1>7. ASSUME NEW signer, NEW fee, SetFee(signer, fee) PROVE Promise!Next
  BY <1>6, <1>7 DEF SetFee
<1>8. ASSUME Sync PROVE Promise!Next
  BY <1>6, <1>8 DEF Sync
<1>9. ASSUME Govern PROVE UNCHANGED Promise!token
  BY <1>9, Invisible DEF Govern, acctVars, yieldVars
<1>10. ASSUME Environment PROVE Promise!Next \/ UNCHANGED Promise!token
  BY <1>0, <1>10, EnvironmentPromise
<1> QED
  BY <1>1, <1>2, <1>3, <1>4, <1>5, <1>7, <1>8, <1>9, <1>10, NextCases DEF Environment

LEMMA PromiseInit == Init => Promise!Init
<1> SUFFICES ASSUME Init PROVE Promise!Init
  OBVIOUS
<1>1. MIndex \in Nat /\ INDEX_SCALE <= MIndex /\ INDEX_SCALE \in Nat \ {0}
  BY MIndexBounds, ScaleAssumption DEF Init, MIndex
<1>2. ext_supply \in Nat /\ vault_amount = 0
  BY MExtAssumption DEF Init
<1>3. ExtIndex = INDEX_SCALE /\ CachedMIndex \in {INDEX_SCALE, MIndex}
  BY DEF Init, ExtIndex, CachedMIndex
<1> QED
  BY <1>1, <1>2, <1>3 DEF Promise!Init

(***************************************************************************)
(* Whatever the variant, the fees, the amounts and the order of wraps,     *)
(* unwraps, claims, syncs and freezes: no wrap or unwrap is off by more    *)
(* than a unit's worth, and no claim takes what backs the supply.          *)
(***************************************************************************)
THEOREM ExtensionKeepsItsPromise == Spec => KeepsItsPromise
<1>1. PromiseIInv /\ [Next]_vars => [Promise!Next]_(Promise!token)
  BY PromiseStep
<1> QED
  BY <1>1, PromiseInit, FreshStartHolds, PTL DEF Spec, KeepsItsPromise, Promise!Spec

-----------------------------------------------------------------------------
\* A sync writes the multiplier and the index together, or neither.
LEMMA MultiplierStep ==
  ASSUME CreationMultipliers \subseteq {IndexToMultiplier(INDEX_SCALE)},
         PromiseIInv, MultiplierMatchesIndex, [Next]_vars
  PROVE  MultiplierMatchesIndex'
<1>1. ASSUME Initialized, UNCHANGED <<ext_multiplier, last_ext_index>>
      PROVE  MultiplierMatchesIndex'
  BY <1>1 DEF MultiplierMatchesIndex, ScaledUi
<1>2. ASSUME ~Initialized, UNCHANGED admin PROVE MultiplierMatchesIndex'
  BY <1>2 DEF MultiplierMatchesIndex, Initialized
<1>3. ASSUME Initialized, SyncIndex PROVE MultiplierMatchesIndex'
  <2>1. CASE UNCHANGED <<ext_multiplier, last_ext_index>>
    BY <1>1, <1>3, <2>1
  <2>2. CASE ext_multiplier' = IndexToMultiplier(last_ext_index')
    BY <2>2 DEF MultiplierMatchesIndex, ScaledUi
  <2> QED
    BY <1>3, <2>1, <2>2 DEF SyncIndex, RecordIndex
<1>4. CASE UNCHANGED vars
  BY <1>1, <1>2, <1>4 DEF vars, acctVars, yieldVars, govVars
<1>5. ASSUME NEW signer, NEW authorities, NEW fee, Initialize(signer, authorities, fee)
      PROVE  MultiplierMatchesIndex'
  <2>1. ext_multiplier = IndexToMultiplier(INDEX_SCALE)
    BY <1>5 DEF Initialize, InitializeGlobal, PromiseIInv, FreshStart
  <2> QED
    BY <1>5, <2>1 DEF Initialize, MultiplierMatchesIndex, ScaledUi
<1>6. ASSUME Govern PROVE MultiplierMatchesIndex'
  <2>1. Initialized /\ UNCHANGED <<ext_multiplier, last_ext_index>>
    BY <1>6, AccountsAssumption
    DEF Govern, GovStep, TransferAdmin, AddWrapAuthority, RemoveWrapAuthority, SetClaimConfig,
        AcceptAdmin, RevokeAdminTransfer, RemoveClaimConfig, IsAdmin, acctVars, yieldVars
  <2> QED
    BY <1>1, <2>1
<1>7. ASSUME Environment PROVE MultiplierMatchesIndex'
  <2>1. UNCHANGED <<admin, ext_multiplier, last_ext_index>>
    BY <1>7
    DEF Environment, PropagateIndex, SetVaultState, Donate, BurnExt, govVars, yieldVars
  <2> QED
    BY <1>1, <1>2, <2>1
<1> QED
  BY <1>3, <1>4, <1>5, <1>6, <1>7, NextCases
  DEF Environment, Wrap, Unwrap, ClaimExcess, SetFee, Sync, IsAdmin

(***************************************************************************)
(* If the ext mint was created with the multiplier 1.0, wallets always     *)
(* show what the program computes with: initialize.rs:112 is right then.   *)
(* Finding F2 is that Initialize does not see to the premise.              *)
(***************************************************************************)
THEOREM MultiplierMatchesIndexHolds ==
  ASSUME CreationMultipliers \subseteq {IndexToMultiplier(INDEX_SCALE)}
  PROVE  Spec => []MultiplierMatchesIndex
<1>1. Init => MultiplierMatchesIndex
  BY DEF Init, GovInit, MultiplierMatchesIndex, Initialized
<1>2. PromiseIInv /\ MultiplierMatchesIndex /\ [Next]_vars => MultiplierMatchesIndex'
  BY MultiplierStep
<1> QED
  BY <1>1, <1>2, FreshStartHolds, PTL DEF Spec
=============================================================================
