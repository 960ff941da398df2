----------------------------- MODULE Migrate_proofs -----------------------------
(***************************************************************************)
(* What holds of an extension migrated from M v1, whatever indices, supply *)
(* and list of authorities V1 left behind.                                 *)
(*                                                                         *)
(* The argument: until the migration the program only waits, the indices   *)
(* are as V1 left them, and the mint shows the f64 of the cached ext index *)
(* (MigrateIInv).  The one comparison of migrate.rs then bounds the supply *)
(* by the vault, up to what the f64 conversions of both sides may lose     *)
(* (CoverBounds).  What the vault lacks at the cached indices is measured  *)
(* once, and from there on MExt's own steps keep a backing with that       *)
(* measure as its allowance (BackedByStep).                                *)
(*                                                                         *)
(* MExt's invariant holds of an extension that V1's cached M index locks   *)
(* out as well; only M's next growth makes it sync again (IndexStep).      *)
(***************************************************************************)
EXTENDS Migrate, Promise_proofs

\* Before the migration nothing but the vault, M and the supply moves.
AwaitsMigration ==
  version = "V1" =>
    /\ ops = 0
    /\ stale_minted = 0
    /\ ScaledUi => /\ last_ext_index \in INDEX_SCALE..MaxIndex
                   /\ ext_multiplier = IndexToMultiplier(last_ext_index)

MigrateIInv ==
  /\ IInv
  /\ version \in {"V1", "V2"}
  /\ shortfall \in Nat
  /\ Initialized
  /\ last_m_index <= MIndex + 1
  /\ AwaitsMigration
  /\ BackedSinceMigration
  /\ MigratedAccountFits

-----------------------------------------------------------------------------
(***************************************************************************)
(* What migrate.rs:140 compares: an amount s for the supply at the ext     *)
(* index x, and an amount v for the vault at M's multiplier.               *)
(***************************************************************************)
LEMMA CoverArithmetic ==
  ASSUME NEW supply \in Nat, NEW vault \in Nat, NEW x \in Nat, NEW multiplier \in Nat,
         NEW s \in Nat, NEW v \in Nat, s <= v,
         PrincipalToAmountDown(supply, x) - AmountError <= s,
         v <= (vault * multiplier) \div (INDEX_SCALE * MULTIPLIER_GRAIN) + AmountError
  PROVE  supply * x
           < vault * (MultiplierToIndex(multiplier) + 1) + (2 * AmountError + 1) * INDEX_SCALE
<1> DEFINE p == PrincipalToAmountDown(supply, x)
           q == (vault * multiplier) \div (INDEX_SCALE * MULTIPLIER_GRAIN)
           mi == MultiplierToIndex(multiplier)
<1>1. /\ INDEX_SCALE \in Nat \ {0} /\ MULTIPLIER_GRAIN \in Nat \ {0} /\ AmountError \in Nat
      /\ x * supply \in Nat /\ vault * multiplier \in Nat
      /\ INDEX_SCALE * MULTIPLIER_GRAIN \in Nat \ {0}
  BY ScaleAssumption, MigrateAssumption, MulType
<1>2. p \in Nat /\ x * supply < p * INDEX_SCALE + INDEX_SCALE
  BY <1>1, DivBounds DEF PrincipalToAmountDown
<1>3. q \in Nat /\ q * (INDEX_SCALE * MULTIPLIER_GRAIN) <= vault * multiplier
  BY <1>1, DivBounds
<1>4. mi \in Nat /\ multiplier < mi * MULTIPLIER_GRAIN + MULTIPLIER_GRAIN
  BY <1>1, DivBounds DEF MultiplierToIndex
<1> HIDE DEF p, q, mi
<1>5. q * INDEX_SCALE <= vault * (mi + 1)
  <2>1. vault * multiplier <= vault * ((mi + 1) * MULTIPLIER_GRAIN)
    <3>1. multiplier <= (mi + 1) * MULTIPLIER_GRAIN /\ (mi + 1) * MULTIPLIER_GRAIN \in Nat
      BY <1>1, <1>4, MulType
    <3> QED
      BY <3>1, MulMonoRight
  <2>2. (q * INDEX_SCALE) * MULTIPLIER_GRAIN <= (vault * (mi + 1)) * MULTIPLIER_GRAIN
    <3>1. q * (INDEX_SCALE * MULTIPLIER_GRAIN) = (q * INDEX_SCALE) * MULTIPLIER_GRAIN
      BY <1>1, <1>3
    <3>2. vault * ((mi + 1) * MULTIPLIER_GRAIN) = (vault * (mi + 1)) * MULTIPLIER_GRAIN
      BY <1>1, <1>4
    <3>3. (vault * (mi + 1)) * MULTIPLIER_GRAIN \in Nat
      BY <1>1, <1>4, MulType
    <3>4. (q * INDEX_SCALE) * MULTIPLIER_GRAIN \in Nat
      BY <1>1, <1>3, MulType
    <3> QED
      BY <1>1, <1>3, <2>1, <3>1, <3>2, <3>3, <3>4
  <2>3. q * INDEX_SCALE \in Nat /\ vault * (mi + 1) \in Nat
    BY <1>1, <1>3, <1>4, MulType
  <2> QED
    BY <1>1, <2>2, <2>3, MulCancel
<1>6. p <= q + 2 * AmountError
  BY <1>1, <1>2, <1>3 DEF p, q
<1>7. p * INDEX_SCALE <= q * INDEX_SCALE + (2 * AmountError) * INDEX_SCALE
  <2>1. p * INDEX_SCALE <= (q + 2 * AmountError) * INDEX_SCALE
    BY <1>1, <1>2, <1>3, <1>6, MulMono
  <2> QED
    BY <1>1, <1>3, <2>1
<1>8. /\ supply * x = x * supply
      /\ (2 * AmountError + 1) * INDEX_SCALE = (2 * AmountError) * INDEX_SCALE + INDEX_SCALE
      /\ p * INDEX_SCALE \in Nat /\ q * INDEX_SCALE \in Nat /\ vault * (mi + 1) \in Nat
      /\ (2 * AmountError) * INDEX_SCALE \in Nat
  BY <1>1, <1>2, <1>3, <1>4, MulType
<1>9. supply * x < vault * (mi + 1) + (2 * AmountError + 1) * INDEX_SCALE
  BY <1>1, <1>2, <1>5, <1>7, <1>8
<1> QED
  BY <1>9 DEF mi

\* What the check of the new vault says, at the ext index the program cached.
LEMMA CoverBounds ==
  ASSUME MigrateIInv, version = "V1", NewVaultCovers
  PROVE  ext_supply * (IF ScaledUi THEN ExtIndex - 1 ELSE ExtIndex)
           < vault_amount * (MIndex + 1) + (2 * AmountError + 1) * INDEX_SCALE
<1>1. /\ INDEX_SCALE \in Nat \ {0} /\ m_multiplier \in Nat /\ AmountError \in Nat
      /\ ext_supply \in Nat /\ vault_amount \in Nat /\ last_ext_index \in Nat \ {0}
  BY ScaleAssumption, MIndexBounds, MExtAssumption, MigrateAssumption
     DEF MigrateIInv, IInv, MExtTypeOK, IndexOrder
<1>2. PICK v \in EarnAmounts(vault_amount, m_multiplier), s \in ExtSupplyAmounts : v >= s
  BY DEF NewVaultCovers
<1>3. /\ v \in Nat
      /\ v <= (vault_amount * m_multiplier) \div (INDEX_SCALE * MULTIPLIER_GRAIN) + AmountError
  <2>1. (vault_amount * m_multiplier) \div (INDEX_SCALE * MULTIPLIER_GRAIN) \in Nat
    <3>1. /\ INDEX_SCALE * MULTIPLIER_GRAIN \in Nat \ {0}
          /\ vault_amount * m_multiplier \in Nat
      BY <1>1, ScaleAssumption, MulType
    <3> QED
      BY <3>1, DivBounds
  <2>2. PrincipalToAmountDown(vault_amount, MultiplierToIndex(m_multiplier)) \in Nat
    <3>1. MultiplierToIndex(m_multiplier) * vault_amount \in Nat
      BY <1>1, MIndexBounds, MulType DEF MigrateIInv, IInv, MExtTypeOK
    <3> QED
      BY <1>1, <3>1, DivBounds DEF PrincipalToAmountDown
  <2> QED
    BY <1>1, <2>1, <2>2 DEF EarnAmounts
<1>4. CASE ScaledUi
  <2> DEFINE x == MultiplierToIndex(ext_multiplier)
             least == PrincipalToAmountDown(ext_supply, x)
  <2>1. x \in Nat /\ last_ext_index - 1 <= x /\ ext_multiplier \in Nat
    BY <1>4, MultiplierBounds DEF MigrateIInv, AwaitsMigration
  <2>2. least \in Nat
    <3>1. x * ext_supply \in Nat
      BY <1>1, <2>1, MulType
    <3> QED
      BY <1>1, <3>1, DivBounds DEF PrincipalToAmountDown
  <2>3. (ext_supply * ext_multiplier) \div (INDEX_SCALE * MULTIPLIER_GRAIN) \in Nat
    <3>1. /\ INDEX_SCALE * MULTIPLIER_GRAIN \in Nat \ {0}
          /\ ext_supply * ext_multiplier \in Nat
      BY <1>1, <2>1, ScaleAssumption, MulType
    <3> QED
      BY <3>1, DivBounds
  <2>4. s \in Nat /\ least - AmountError <= s
    BY <1>1, <1>2, <1>4, <2>2, <2>3 DEF ExtSupplyAmounts, EarnAmounts
  <2> HIDE DEF x
  <2>5. ext_supply * x
          < vault_amount * (MIndex + 1) + (2 * AmountError + 1) * INDEX_SCALE
    BY <1>1, <1>2, <1>3, <2>1, <2>4, CoverArithmetic DEF MIndex
  <2>6. ext_supply * (last_ext_index - 1) <= ext_supply * x
    BY <1>1, <2>1, MulMonoRight
  <2>7. /\ vault_amount * (MIndex + 1) \in Nat /\ (2 * AmountError + 1) * INDEX_SCALE \in Nat
        /\ ext_supply * x \in Nat /\ ext_supply * (last_ext_index - 1) \in Nat
    <3>1. MIndex + 1 \in Nat /\ 2 * AmountError + 1 \in Nat /\ last_ext_index - 1 \in Nat
      BY <1>1, MIndexBounds DEF MIndex, MigrateIInv, IInv, MExtTypeOK
    <3> QED
      BY <1>1, <2>1, <3>1, MulType
  <2> QED
    BY <1>4, <2>5, <2>6, <2>7 DEF ExtIndex
<1>5. CASE ~ScaledUi
  <2>1. PrincipalToAmountDown(ext_supply, INDEX_SCALE) = ext_supply
    <3> DEFINE q == (INDEX_SCALE * ext_supply) \div INDEX_SCALE
    <3>1. INDEX_SCALE * ext_supply \in Nat
      BY <1>1, MulType
    <3>2. /\ q \in Nat /\ q * INDEX_SCALE <= INDEX_SCALE * ext_supply
          /\ INDEX_SCALE * ext_supply < q * INDEX_SCALE + INDEX_SCALE
      BY <1>1, <3>1, DivBounds
    <3> HIDE DEF q
    <3>3. q * INDEX_SCALE <= ext_supply * INDEX_SCALE
          /\ ext_supply * INDEX_SCALE < (q + 1) * INDEX_SCALE
      BY <1>1, <3>2
    <3>4. q <= ext_supply /\ ext_supply < q + 1
      BY <1>1, <3>2, <3>3, MulCancel
    <3>5. q = ext_supply
      BY <1>1, <3>2, <3>4
    <3> QED
      BY <3>5 DEF q, PrincipalToAmountDown
  <2>2. s = ext_supply
    BY <1>2, <1>5 DEF ExtSupplyAmounts
  <2>3. /\ s \in Nat /\ s <= v
        /\ PrincipalToAmountDown(ext_supply, INDEX_SCALE) - AmountError <= s
    BY <1>1, <1>2, <1>3, <2>1, <2>2
  <2>4. ext_supply * INDEX_SCALE
          < vault_amount * (MultiplierToIndex(m_multiplier) + 1)
              + (2 * AmountError + 1) * INDEX_SCALE
    BY <1>1, <1>3, <2>3, CoverArithmetic
  <2> QED
    BY <1>5, <2>4 DEF MIndex, ExtIndex
<1> QED
  BY <1>4, <1>5

\* The measure of what the vault lacks is a number, and what it says.
LEMMA ShortfallBounds ==
  ASSUME NEW supply \in Nat, NEW e \in Nat, NEW c \in Nat \ {0}, NEW vault \in Nat
  PROVE  LET needed == CeilDiv(supply * e, c)
             lacking == IF needed > vault THEN needed - vault ELSE 0
         IN lacking \in Nat /\ supply * e <= (vault + lacking) * c
<1> DEFINE needed == CeilDiv(supply * e, c)
           lacking == IF needed > vault THEN needed - vault ELSE 0
<1>1. supply * e \in Nat
  BY MulType
<1>2. needed \in Nat /\ supply * e <= needed * c
  BY <1>1, CeilBounds
<1> HIDE DEF needed
<1>3. lacking \in Nat /\ needed <= vault + lacking
  BY <1>2
<1> HIDE DEF lacking
<1>4. needed * c <= (vault + lacking) * c
  BY <1>2, <1>3, MulMono
<1>5. needed * c \in Nat /\ (vault + lacking) * c \in Nat
  BY <1>2, <1>3, MulType
<1>6. lacking \in Nat /\ supply * e <= (vault + lacking) * c
  BY <1>1, <1>2, <1>3, <1>4, <1>5
<1> QED
  BY <1>6 DEF lacking, needed

-----------------------------------------------------------------------------
\* V1 leaves an account that awaits its migration.
LEMMA MigrateIInvInit == MigrateInit => MigrateIInv
<1> SUFFICES ASSUME MigrateInit PROVE MigrateIInv
  OBVIOUS
<1>1. authority_slots \in Nat
  <2>1. Cardinality(wrap_authorities) \in Nat
    BY AuthoritiesFinite DEF MigrateInit
  <2> QED
    BY <2>1 DEF MigrateInit, V1Slots
<1>2. GovTypeOK /\ Initialized
  BY <1>1, AccountsAssumption DEF MigrateInit, GovTypeOK, Initialized
<1>3. /\ ext_multiplier \in Nat /\ last_m_index \in Nat /\ last_ext_index \in Nat
      /\ INDEX_SCALE <= last_ext_index /\ last_ext_index <= last_m_index
      /\ ScaledUi => last_ext_index \in INDEX_SCALE..MaxIndex
  <2>1. INDEX_SCALE \in Nat /\ \A index \in V1Indices : index \in INDEX_SCALE..MaxIndex
    BY ScaleAssumption, MigrateAssumption
  <2>2. last_m_index \in Nat /\ INDEX_SCALE <= last_m_index
    BY <2>1 DEF MigrateInit
  <2>3. ScaledUi => last_ext_index \in INDEX_SCALE..MaxIndex
    BY <2>1 DEF MigrateInit
  <2>4. last_ext_index \in Nat /\ INDEX_SCALE <= last_ext_index
    BY <2>1, <2>2, <2>3 DEF MigrateInit
  <2>5. ext_multiplier \in Nat
    BY <2>3, MultiplierBounds DEF MigrateInit
  <2> QED
    BY <2>2, <2>3, <2>4, <2>5 DEF MigrateInit, V1Order
<1>4. fee_bps \in 0..ONE_HUNDRED_PERCENT
  <2>1. ASSUME NEW fee \in Fees, ValidFee(fee) PROVE fee \in 0..ONE_HUNDRED_PERCENT
    BY <2>1, ScaleAssumption, MExtAssumption DEF ValidFee
  <2>2. CASE ScaledUi
    <3>1. fee_bps \in Fees /\ ValidFee(fee_bps)
      BY <2>2 DEF MigrateInit
    <3> QED
      BY <2>1, <3>1
  <2>3. CASE ~ScaledUi
    <3>1. fee_bps = 0
      BY <2>3 DEF MigrateInit
    <3> QED
      BY <3>1, ScaleAssumption
  <2> QED
    BY <2>2, <2>3
<1>5. MExtTypeOK
  BY <1>2, <1>3, <1>4, MExtAssumption, MigrateAssumption DEF MigrateInit, MExtTypeOK
<1> QED
  BY <1>2, <1>3, <1>5
     DEF MigrateInit, MigrateIInv, IInv, IndexOrder, V1Order, AwaitsMigration,
         BackedSinceMigration, MigratedAccountFits

(***************************************************************************)
(* The migration starts the backing: what the vault lacks at the cached    *)
(* indices is the allowance.                                               *)
(***************************************************************************)
LEMMA MigrateMStep ==
  ASSUME MigrateIInv, NEW signer \in Accounts, MigrateM(signer)
  PROVE  MigrateIInv'
<1>1. /\ version = "V1" /\ version' = "V2"
      /\ UNCHANGED <<admin, wrap_authorities, claim_config, nominator, m_multiplier>>
      /\ UNCHANGED <<vault_state, vault_amount, ext_supply, ext_multiplier, fee_bps>>
      /\ UNCHANGED <<last_m_index, last_ext_index, ops, stale_minted>>
      /\ pending_admin' = None /\ shortfall' = Shortfall
      /\ authority_slots' = Cardinality(wrap_authorities)
  BY DEF MigrateM, ResizeAccount, SlotsFor, CarryIndicesOver, historyVars
<1>2. /\ INDEX_SCALE \in Nat \ {0} /\ MIndex \in Nat /\ INDEX_SCALE <= MIndex
      /\ ext_supply \in Nat /\ vault_amount \in Nat /\ ops = 0 /\ stale_minted = 0
      /\ last_ext_index \in Nat /\ last_m_index \in Nat \ {0}
  BY <1>1, ScaleAssumption, MIndexBounds, MExtAssumption
     DEF MigrateIInv, IInv, MExtTypeOK, IndexOrder, MIndex, AwaitsMigration
<1>3. ExtIndex \in Nat /\ CachedMIndex \in Nat \ {0}
  BY <1>2 DEF ExtIndex, CachedMIndex
<1>4. /\ Shortfall \in Nat
      /\ ext_supply * ExtIndex <= (vault_amount + Shortfall) * CachedMIndex
  BY <1>2, <1>3, ShortfallBounds DEF Shortfall
<1>5. IInv'
  <2>1. Cardinality(wrap_authorities) \in Nat
    BY AuthoritiesFinite DEF MigrateIInv, IInv, MExtTypeOK, GovTypeOK
  <2>2. GovTypeOK'
    BY <1>1, <2>1 DEF MigrateIInv, IInv, MExtTypeOK, GovTypeOK
  <2> QED
    BY <1>1, <2>2 DEF MigrateIInv, IInv, MExtTypeOK, IndexOrder
<1>6. BackedSinceMigration'
  <2>1. ExtIndex' = ExtIndex /\ CachedMIndex' = CachedMIndex
    BY <1>1 DEF ExtIndex, CachedMIndex, MIndex, ScaledUi
  <2> HIDE DEF Shortfall
  <2>2. vault_amount' + ops' + stale_minted' + shortfall' = vault_amount + Shortfall
    BY <1>1, <1>2, <1>4
  <2> QED
    BY <1>1, <1>4, <2>1, <2>2 DEF BackedSinceMigration
<1> QED
  BY <1>1, <1>4, <1>5, <1>6
     DEF MigrateIInv, AwaitsMigration, MigratedAccountFits, SlotsFitAuthorities, Initialized,
         MIndex

\* The environment of an extension that awaits its migration, or of a migrated one.
LEMMA EnvironmentKeeps ==
  ASSUME Environment
  PROVE  [Next]_vars /\ UNCHANGED <<govVars, ops, stale_minted, ext_multiplier, last_ext_index>>
BY DEF Next, Environment, PropagateIndex, SetVaultState, Donate, BurnExt, yieldVars, historyVars

\* MExt's own steps keep what the migration established.
LEMMA MExtStep ==
  ASSUME MigrateIInv, [Next]_vars, UNCHANGED <<version, shortfall>>,
         version = "V1" => UNCHANGED <<govVars, ops, stale_minted, ext_multiplier, last_ext_index>>
  PROVE  MigrateIInv'
<1>1. IInv' /\ Initialized'
  BY IInvStep, StaysInitialized DEF MigrateIInv
<1>2. last_m_index' <= MIndex' + 1
  <2>1. last_m_index \in Nat /\ last_m_index' \in Nat
    BY <1>1 DEF MigrateIInv, IInv, MExtTypeOK
  <2> QED
    BY <2>1, IndexStep DEF MigrateIInv
<1>3. AwaitsMigration'
  <2>1. ScaledUi' = ScaledUi
    BY DEF ScaledUi
  <2> QED
    BY <2>1 DEF MigrateIInv, AwaitsMigration, IndexToMultiplier
<1>4. BackedSinceMigration'
  <2>1. CASE version = "V1"
    BY <2>1 DEF BackedSinceMigration
  <2>2. CASE version = "V2"
    <3>1. PICK allowance \in Nat : allowance = shortfall
      BY DEF MigrateIInv
    <3>2. BackedBy(allowance)
      BY <2>2, <3>1 DEF MigrateIInv, BackedSinceMigration, BackedBy
    <3>3. BackedBy(allowance)'
      BY <3>2, BackedByStep DEF MigrateIInv
    <3> QED
      BY <3>1, <3>3 DEF BackedSinceMigration, BackedBy
  <2> QED
    BY <2>1, <2>2 DEF MigrateIInv
<1>5. MigratedAccountFits'
  <2>1. [GovNext]_govVars
    BY NextGoverns
  <2> QED
    BY <2>1, SlotsStep DEF MigrateIInv, MigratedAccountFits, IInv, MExtTypeOK
<1> QED
  BY <1>1, <1>2, <1>3, <1>4, <1>5 DEF MigrateIInv

\* No step ends MigrateIInv.
LEMMA MigrateIInvStep ==
  ASSUME MigrateIInv, [MigrateNext]_migrateVars
  PROVE  MigrateIInv'
<1>1. CASE UNCHANGED migrateVars
  <2>1. UNCHANGED vars /\ UNCHANGED <<version, shortfall>>
    BY <1>1 DEF migrateVars
  <2>2. UNCHANGED <<govVars, ops, stale_minted, ext_multiplier, last_ext_index>>
    BY <2>1 DEF vars, acctVars, yieldVars, historyVars
  <2> QED
    BY <2>1, <2>2, MExtStep
<1>2. CASE \E signer \in Accounts : MigrateM(signer)
  BY <1>2, MigrateMStep
<1>3. CASE version = "V2" /\ Operate /\ UNCHANGED <<version, shortfall>>
  <2>1. Next
    BY <1>3 DEF Next, Instruction
  <2> QED
    BY <1>3, <2>1, MExtStep
<1>4. CASE Environment /\ UNCHANGED <<version, shortfall>>
  BY <1>4, EnvironmentKeeps, MExtStep
<1> QED
  BY <1>1, <1>2, <1>3, <1>4 DEF MigrateNext

\* What the migration relies on and establishes holds in every reachable state.
THEOREM MigrateInductiveInvariant == MigrateSpec => []MigrateIInv
BY MigrateIInvInit, MigrateIInvStep, PTL DEF MigrateSpec

\* Every variable keeps its type through the migration.
THEOREM MigrateTypeCorrect == MigrateSpec => []MigrateTypeOK
<1>1. MigrateIInv => MigrateTypeOK
  BY DEF MigrateIInv, IInv, MigrateTypeOK
<1> QED
  BY <1>1, MigrateInductiveInvariant, PTL

(***************************************************************************)
(* Whatever V1 left and whatever vault was accepted, no later step makes   *)
(* the migrated extension lack more M than the migration itself did, but   *)
(* for what Backed allows.                                                 *)
(***************************************************************************)
THEOREM BackedSinceMigrationHolds == MigrateSpec => []BackedSinceMigration
<1>1. MigrateIInv => BackedSinceMigration
  BY DEF MigrateIInv
<1> QED
  BY <1>1, MigrateInductiveInvariant, PTL

\* The rewritten account has, and keeps, exactly the room its list needs.
THEOREM MigratedAccountFitsHolds == MigrateSpec => []MigratedAccountFits
<1>1. MigrateIInv => MigratedAccountFits
  BY DEF MigrateIInv
<1> QED
  BY <1>1, MigrateInductiveInvariant, PTL

-----------------------------------------------------------------------------
\* The migration is the only step that MExt does not know.
LEMMA MigrateCases ==
  ASSUME [MigrateNext]_migrateVars
  PROVE  (\E signer \in Accounts : MigrateM(signer)) \/ [Next]_vars
BY DEF MigrateNext, migrateVars, Next, Instruction

\* It moves no token and no index.
LEMMA MigrationMovesNothing ==
  ASSUME NEW signer, MigrateM(signer)
  PROVE  /\ UNCHANGED <<m_multiplier, vault_amount, ext_supply, last_m_index, last_ext_index>>
         /\ UNCHANGED <<vault_state, ops, admin>>
BY DEF MigrateM, CarryIndicesOver, historyVars

(***************************************************************************)
(* An extension that V1's cached M index locks out syncs again from M's    *)
(* next growth on, and one that syncs is never locked out, as long as M's  *)
(* index is under the cap.                                                 *)
(***************************************************************************)
THEOREM GrowthUnlocksHolds == MigrateSpec => GrowthUnlocks
<1> DEFINE Unlocks == ScaledUi /\ MIndex' <= MaxIndex /\ (LatestIndexOk \/ MIndex' > MIndex)
                        => LatestIndexOk'
<1>1. ASSUME MigrateIInv, MigrateIInv', [MigrateNext]_migrateVars PROVE Unlocks
  <2> SUFFICES ASSUME MIndex' <= MaxIndex, LatestIndexOk \/ MIndex' > MIndex
               PROVE  LatestIndexOk'
    OBVIOUS
  <2>1. /\ last_m_index \in Nat /\ last_m_index' \in Nat /\ last_ext_index' \in Nat
        /\ INDEX_SCALE <= last_ext_index' /\ last_ext_index' <= last_m_index'
        /\ fee_bps' <= ONE_HUNDRED_PERCENT
    BY <1>1, ScaleAssumption DEF MigrateIInv, IInv, MExtTypeOK, IndexOrder
  <2>2. /\ MIndex \in Nat /\ MIndex' \in Nat /\ MIndex <= MIndex'
        /\ last_m_index' = last_m_index \/ last_m_index' <= MIndex'
    <3>1. ASSUME NEW signer, MigrateM(signer)
          PROVE  MIndex \in Nat /\ MIndex' = MIndex /\ last_m_index' = last_m_index
      BY <1>1, <3>1, MigrationMovesNothing, MIndexBounds
         DEF MIndex, MigrateIInv, IInv, MExtTypeOK
    <3>2. CASE [Next]_vars
      BY <1>1, <3>2, IndexStep DEF MigrateIInv
    <3> QED
      BY <1>1, <3>1, <3>2, MigrateCases
  <2>3. last_m_index <= MIndex \/ MIndex' > MIndex
    BY <2>1, <2>2 DEF LatestIndexOk, ValidIndexInput
  <2>4. last_m_index' <= MIndex'
    BY <1>1, <2>1, <2>2, <2>3 DEF MigrateIInv
  <2> QED
    BY <2>1, <2>2, <2>4 DEF LatestIndexOk, ValidIndexInput
<1> QED
  BY <1>1, MigrateInductiveInvariant, PTL DEF MigrateSpec, GrowthUnlocks

\* Neither the migration nor what follows pays holders more than M's growth.
LEMMA MigrateFairGrowthStep ==
  ASSUME MigrateIInv, [MigrateNext]_migrateVars
  PROVE  [GrowthIsFair]_vars
<1>1. ASSUME NEW signer, MigrateM(signer) PROVE GrowthIsFair
  <2>1. last_m_index \in Nat /\ last_ext_index \in Nat
    BY DEF MigrateIInv, IInv, MExtTypeOK
  <2> QED
    BY <1>1, <2>1, MigrationMovesNothing DEF GrowthIsFair
<1>2. CASE [Next]_vars
  BY <1>2, FairGrowthStep DEF MigrateIInv
<1> QED
  BY <1>1, <1>2, MigrateCases

(***************************************************************************)
(* The migration itself moves no index, and after it the holders are never *)
(* paid more than M's growth since the last sync, V1's last one included.  *)
(***************************************************************************)
THEOREM MigratedFairGrowth == MigrateSpec => FairGrowth
BY MigrateFairGrowthStep, MigrateInductiveInvariant, PTL DEF MigrateSpec, FairGrowth

(***************************************************************************)
(* And so over any period, from V1's last sync across the migration to any *)
(* later moment: what V1 left unsynced is paid once, and no more of it.    *)
(***************************************************************************)
THEOREM MigratedFairOverAnyPeriod ==
  ASSUME NEW ext \in Nat, NEW m \in Nat \ {0}
  PROVE  MigrateSpec => [](last_ext_index = ext /\ last_m_index = m
                             => []GrownFairlyFrom(ext, m))
<1>1. MigrateIInv /\ last_ext_index = ext /\ last_m_index = m => GrownFairlyFrom(ext, m)
  BY DEF GrownFairlyFrom, MigrateIInv
<1>2. ASSUME MigrateIInv, MigrateIInv', GrownFairlyFrom(ext, m), [MigrateNext]_migrateVars
      PROVE  GrownFairlyFrom(ext, m)'
  BY <1>2, MigrateFairGrowthStep, GrownFairlyStep DEF MigrateIInv
<1> QED
  BY <1>1, <1>2, MigrateInductiveInvariant, PTL DEF MigrateSpec

(***************************************************************************)
(* A claim of fees from a migrated extension leaves its vault worth the    *)
(* whole supply, V1's part of it included, with no allowance: what the     *)
(* migration's check may miss is never claimed.                            *)
(***************************************************************************)
THEOREM MigratedClaimsLeaveCollateral == MigrateSpec => ClaimsLeaveCollateral
<1>1. ASSUME MigrateIInv, [MigrateNext]_migrateVars PROVE [ClaimIsCovered]_vars
  <2>1. ASSUME NEW signer, MigrateM(signer) PROVE ClaimIsCovered
    <3>1. ext_supply \in Nat
      BY <1>1 DEF MigrateIInv, IInv, MExtTypeOK
    <3> QED
      BY <2>1, <3>1, MigrationMovesNothing DEF ClaimIsCovered
  <2>2. CASE [Next]_vars
    BY <1>1, <2>2, ClaimIsCoveredStep DEF MigrateIInv
  <2> QED
    BY <1>1, <2>1, <2>2, MigrateCases
<1> QED
  BY <1>1, MigrateInductiveInvariant, PTL DEF MigrateSpec, ClaimsLeaveCollateral

-----------------------------------------------------------------------------
(***************************************************************************)
(* From the tokens' point of view V1 left a supply with an empty reserve,  *)
(* which donations fill; the migration is no step at all.                  *)
(***************************************************************************)
LEMMA MigratePromiseInit == MigrateInit => Promise!Init
<1> SUFFICES ASSUME MigrateInit PROVE Promise!Init
  OBVIOUS
<1>1. IInv
  BY MigrateIInvInit DEF MigrateIInv
<1>2. /\ MIndex \in Nat /\ INDEX_SCALE <= MIndex /\ INDEX_SCALE \in Nat \ {0}
      /\ last_ext_index \in Nat /\ last_m_index \in Nat
      /\ INDEX_SCALE <= last_ext_index /\ last_ext_index <= last_m_index
  BY <1>1, MIndexBounds, ScaleAssumption DEF IInv, MExtTypeOK, IndexOrder, MIndex
<1>3. ext_supply \in Nat /\ vault_amount = 0
  BY <1>1 DEF IInv, MExtTypeOK, MigrateInit
<1>4. CachedMIndex \in Nat /\ ExtIndex \in 1..CachedMIndex
  BY <1>2 DEF ExtIndex, CachedMIndex
<1> QED
  BY <1>2, <1>3, <1>4 DEF Promise!Init

(***************************************************************************)
(* A migrated extension promises its holders, those of V1 included, what   *)
(* every extension does: nobody wraps or unwraps at another value, nothing *)
(* is minted that the vault is not worth, and the migration settles no     *)
(* growth by itself.                                                       *)
(***************************************************************************)
THEOREM MigratedKeepsItsPromise == MigrateSpec => KeepsItsPromise
<1>1. ASSUME MigrateIInv, [MigrateNext]_migrateVars PROVE [Promise!Next]_(Promise!token)
  <2>1. ASSUME NEW signer, MigrateM(signer) PROVE UNCHANGED Promise!token
    BY <2>1, MigrationMovesNothing, Invisible
  <2>2. CASE [Next]_vars
    <3>1. PromiseIInv
      BY <1>1 DEF MigrateIInv, PromiseIInv, FreshStart
    <3> QED
      BY <2>2, <3>1, PromiseStep
  <2> QED
    BY <1>1, <2>1, <2>2, MigrateCases
<1> QED
  BY <1>1, MigratePromiseInit, MigrateInductiveInvariant, PTL
     DEF MigrateSpec, KeepsItsPromise, Promise!Spec

-----------------------------------------------------------------------------
(***************************************************************************)
(* The check of the new vault is sound whenever V1 has nothing left to     *)
(* sync, up to one unit of either index and the rounding of the amounts.   *)
(***************************************************************************)
THEOREM SyncedMigrationsAreCoveredHolds == MigrateSpec => SyncedMigrationsAreCovered
<1>1. ASSUME MigrateIInv, [MigrateNext]_migrateVars,
             ScaledUi => LatestIndexOk /\ NextExtIndex = ExtIndex
      PROVE  MigrationIsCovered
  <2>1. CASE UNCHANGED version
    BY <2>1 DEF MigrationIsCovered
  <2>2. ASSUME NEW signer \in Accounts, MigrateM(signer) PROVE MigrationIsCovered
    <3>1. NextExtIndex = ExtIndex
      BY <1>1 DEF NextExtIndex, ExtIndex
    <3>2. version = "V1" /\ NewVaultCovers
      BY <2>2 DEF MigrateM
    <3> QED
      BY <1>1, <3>1, <3>2, CoverBounds DEF MigrationIsCovered
  <2> QED
    BY <1>1, <2>1, <2>2 DEF MigrateNext, migrateVars
<1> QED
  BY <1>1, MigrateInductiveInvariant, PTL DEF MigrateSpec, SyncedMigrationsAreCovered
=============================================================================
