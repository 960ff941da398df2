----------------------------- MODULE MExt_proofs -----------------------------
(***************************************************************************)
(* What holds of MExt for every scale, variant, fee, index and amount.     *)
(*                                                                         *)
(* The argument: no step takes the two cached indices out of their order   *)
(* (IInv), and a sync that finds M's index below the cached one is an      *)
(* error, so every sync that succeeds computes an index between the old    *)
(* one and M's own growth (NewIndexBounds); each instruction then          *)
(* moves principal and supply by amounts that differ, at the cached M      *)
(* index, by less than a unit of M principal or by what StaleMinted        *)
(* counts (the three lemmas on Wrap, Unwrap and ClaimExcess).              *)
(***************************************************************************)
EXTENDS MExt, Conversion_proofs, ExtGlobal_proofs

\* What IndexDomain says of the cached indices alone.
IndexOrder == INDEX_SCALE <= last_ext_index /\ last_ext_index <= last_m_index

(***************************************************************************)
(* The types and the order of the cached indices: what every step relies   *)
(* on.  That M's index is not below the cached one is not needed of the    *)
(* state: sync_index checks it, and nothing else compares the two.         *)
(***************************************************************************)
IInv == MExtTypeOK /\ IndexOrder

\* A product of naturals is one.
LEMMA MulType ==
  ASSUME NEW a \in Nat, NEW b \in Nat
  PROVE  a * b \in Nat
OBVIOUS

\* The multiplier of an index is a number, one that reads back as the index or the one below.
LEMMA MultiplierBounds ==
  ASSUME NEW index \in INDEX_SCALE..MaxIndex
  PROVE  /\ IndexToMultiplier(index) \in Nat
         /\ MultiplierToIndex(IndexToMultiplier(index)) \in Nat
         /\ index - 1 <= MultiplierToIndex(IndexToMultiplier(index))
         /\ MultiplierToIndex(IndexToMultiplier(index)) <= index
<1> DEFINE g == MULTIPLIER_GRAIN
           n == IndexToMultiplier(index)
           q == n \div g
<1>1. g \in Nat \ {0} /\ index \in Nat \ {0} /\ F64Loss(index) \in 0..g
  BY ScaleAssumption, F64Assumption DEF MaxIndex
<1>2. n = index * g - F64Loss(index) /\ index * g \in Nat /\ g <= index * g
  BY <1>1, MulType DEF IndexToMultiplier
<1> HIDE DEF g, n
<1>3. n \in Nat /\ (index - 1) * g <= n /\ n <= index * g
  BY <1>1, <1>2
<1>4. q \in Nat /\ q * g <= n /\ n < q * g + g
  BY <1>1, <1>3, DivBounds
<1> HIDE DEF q
<1>5. (index - 1) * g < (q + 1) * g /\ q * g <= index * g
  BY <1>1, <1>3, <1>4, MulType
<1>6. q <= index
  BY <1>1, <1>4, <1>5, MulCancel
<1>7. index - 1 < q + 1
  BY <1>1, <1>4, <1>5
<1> QED
  BY <1>1, <1>3, <1>4, <1>6, <1>7 DEF MultiplierToIndex, q, n, g

\* The multipliers M may publish make indices of at least 1.0.
LEMMA MIndexBounds ==
  ASSUME NEW multiplier \in Multipliers
  PROVE  /\ multiplier \in Nat
         /\ MultiplierToIndex(multiplier) \in Nat
         /\ INDEX_SCALE <= MultiplierToIndex(multiplier)
BY ScaleAssumption, MExtAssumption, DivBounds DEF MultiplierToIndex

\* A larger multiplier makes an index at least as large.
LEMMA MIndexMono ==
  ASSUME NEW low \in Multipliers, NEW high \in Multipliers, low < high
  PROVE  MultiplierToIndex(low) <= MultiplierToIndex(high)
<1> DEFINE p == low \div MULTIPLIER_GRAIN
           q == high \div MULTIPLIER_GRAIN
<1>1. low \in Nat /\ high \in Nat /\ MULTIPLIER_GRAIN \in Nat \ {0}
  BY ScaleAssumption, MExtAssumption
<1>2. /\ p \in Nat /\ p * MULTIPLIER_GRAIN <= low
      /\ q \in Nat /\ high < q * MULTIPLIER_GRAIN + MULTIPLIER_GRAIN
  BY <1>1, DivBounds
<1> HIDE DEF p, q
<1>3. p * MULTIPLIER_GRAIN < (q + 1) * MULTIPLIER_GRAIN
  BY <1>1, <1>2
<1>4. p <= q
  BY <1>1, <1>2, <1>3
<1> QED
  BY <1>4 DEF MultiplierToIndex, p, q

\* The index a sync computes is at least the one there is, and has grown no more than M's.
LEMMA LatestBounds ==
  ASSUME IInv, LatestIndexOk
  PROVE  LET index == LatestExtIndex(last_ext_index, last_m_index, fee_bps)
         IN /\ index \in Nat /\ last_ext_index <= index /\ index <= MIndex
            /\ index * last_m_index <= last_ext_index * MIndex
<1>1. /\ MIndex \in Nat /\ fee_bps \in Nat /\ last_m_index \in Nat /\ last_ext_index \in Nat
      /\ last_ext_index <= last_m_index /\ last_m_index <= MIndex
  BY ScaleAssumption, MIndexBounds
     DEF IInv, MExtTypeOK, IndexOrder, MIndex, LatestIndexOk, ValidIndexInput
<1>2. CASE MIndex = last_m_index
  BY <1>1, <1>2 DEF LatestExtIndex
<1>3. CASE MIndex # last_m_index
  <2>1. ValidIndexInput(last_ext_index, last_m_index, MIndex, fee_bps)
    BY <1>3 DEF LatestIndexOk
  <2> QED
    BY <1>1, <1>3, <2>1, NewIndexBounds DEF LatestExtIndex
<1> QED
  BY <1>2, <1>3

(***************************************************************************)
(* Whatever sync_index does, it keeps the order of the indices, up to M's  *)
(* own, never lowers one, raises the ext index by no more than M's growth, *)
(* and leaves it alone when the vault is frozen.                           *)
(***************************************************************************)
LEMMA SyncBounds ==
  ASSUME IInv, SyncIndex, UNCHANGED m_multiplier
  PROVE  /\ last_m_index' \in Nat /\ last_ext_index' \in Nat /\ ext_multiplier' \in Nat
         /\ IndexOrder'
         /\ ScaledUi => last_m_index <= last_m_index' /\ last_m_index' <= MIndex'
         /\ last_ext_index <= last_ext_index'
         /\ last_ext_index' * last_m_index <= last_ext_index * last_m_index'
         /\ vault_state = "Frozen" => last_ext_index' = last_ext_index
         /\ ~ScaledUi => last_ext_index' = last_ext_index /\ last_m_index' = last_m_index
<1> DEFINE index == LatestExtIndex(last_ext_index, last_m_index, fee_bps)
<1>1. /\ INDEX_SCALE \in Nat \ {0} /\ MIndex \in Nat /\ fee_bps \in Nat
      /\ last_m_index \in Nat /\ last_ext_index \in Nat /\ ext_multiplier \in Nat
      /\ INDEX_SCALE <= last_ext_index /\ last_ext_index <= last_m_index
      /\ vault_state \in {"Initialized", "Frozen"}
  BY ScaleAssumption, MIndexBounds DEF IInv, MExtTypeOK, IndexOrder, MIndex
<1>2. MIndex' = MIndex
  BY DEF MIndex
<1>3. ScaledUi => last_m_index <= MIndex
  BY <1>1 DEF SyncIndex, LatestIndexOk, ValidIndexInput
<1>4. CASE UNCHANGED <<ext_multiplier, last_m_index, last_ext_index>>
  BY <1>1, <1>2, <1>3, <1>4 DEF IndexOrder
<1>5. ASSUME ScaledUi, LatestIndexOk, index # last_ext_index, RecordIndex(index)
      PROVE  /\ last_m_index' \in Nat /\ last_ext_index' \in Nat /\ ext_multiplier' \in Nat
             /\ IndexOrder'
             /\ last_m_index <= last_m_index' /\ last_m_index' <= MIndex'
             /\ last_ext_index <= last_ext_index'
             /\ last_ext_index' * last_m_index <= last_ext_index * last_m_index'
             /\ vault_state = "Frozen" => last_ext_index' = last_ext_index
  <2>1. /\ index \in Nat /\ last_ext_index <= index
        /\ index * last_m_index <= last_ext_index * MIndex
        /\ index <= MIndex
    BY <1>5, LatestBounds
  <2>2. MIndex <= MaxIndex
    BY <1>5 DEF LatestExtIndex, LatestIndexOk, ValidIndexInput
  <2> HIDE DEF index
  <2>3. last_m_index' = MIndex
    BY <1>5 DEF RecordIndex
  <2>4. CASE vault_state = "Initialized"
    <3>1. last_ext_index' = index /\ ext_multiplier' = IndexToMultiplier(index)
      BY <1>5, <2>4 DEF RecordIndex
    <3>2. index \in INDEX_SCALE..MaxIndex
      BY <1>1, <2>1, <2>2, ScaleAssumption, MulType DEF MaxIndex
    <3>3. ext_multiplier' \in Nat
      BY <3>1, <3>2, MultiplierBounds
    <3> QED
      BY <1>1, <1>2, <1>3, <1>5, <2>1, <2>3, <2>4, <3>1, <3>3 DEF IndexOrder
  <2>5. CASE vault_state # "Initialized"
    <3>1. last_ext_index' = last_ext_index /\ ext_multiplier' = ext_multiplier
      BY <1>5, <2>5 DEF RecordIndex
    <3>2. last_m_index * last_ext_index <= MIndex * last_ext_index
      BY <1>1, <1>3, <1>5, MulMono
    <3> QED
      BY <1>1, <1>2, <1>3, <1>5, <2>3, <2>5, <3>1, <3>2 DEF IndexOrder
  <2> QED
    BY <2>4, <2>5
<1> QED
  BY <1>4, <1>5 DEF SyncIndex

-----------------------------------------------------------------------------
(***************************************************************************)
(* The three movements of value, as arithmetic.  e and c are the ext and   *)
(* the cached M index after the sync, mi is M's own.                       *)
(***************************************************************************)
\* Wrapping: backing grows by the principal, one unit and the stale part.
LEMMA WrapArithmetic ==
  ASSUME NEW amount \in Nat, NEW supply \in Nat, NEW backing \in Nat, NEW stale \in Nat,
         NEW e \in Nat \ {0}, NEW c \in Nat \ {0}, NEW mi \in Nat \ {0},
         NEW x, x = AmountToPrincipalDown(amount, e),
         NEW m, m = AmountToPrincipalDown(amount, mi),
         supply * e <= backing * c,
         c = mi \/ CeilDiv(x * e, c) <= m + 1 + stale
  PROVE  (supply + x) * e <= (backing + m + 1 + stale) * c
<1>1. INDEX_SCALE \in Nat \ {0} /\ amount * INDEX_SCALE \in Nat
  BY ScaleAssumption
<1>2. x \in Nat /\ x * e <= amount * INDEX_SCALE
  BY <1>1, DivBounds DEF AmountToPrincipalDown
<1>3. m \in Nat /\ amount * INDEX_SCALE < m * mi + mi
  BY <1>1, DivBounds DEF AmountToPrincipalDown
<1>4. x * e <= (m + 1 + stale) * c
  <2>1. CASE c = mi
    BY <1>1, <1>2, <1>3, <2>1
  <2>2. CASE CeilDiv(x * e, c) <= m + 1 + stale
    <3>1. x * e \in Nat
      BY <1>2
    <3>2. CeilDiv(x * e, c) \in Nat /\ x * e <= CeilDiv(x * e, c) * c
      BY <3>1, CeilBounds
    <3>3. CeilDiv(x * e, c) * c <= (m + 1 + stale) * c
      BY <1>3, <2>2, <3>2, MulMono
    <3> QED
      BY <1>2, <1>3, <3>2, <3>3
  <2> QED
    BY <2>1, <2>2
<1> QED
  BY <1>2, <1>3, <1>4

\* Unwrapping: what is burned and what is paid differ by less than a unit.
LEMMA UnwrapArithmetic ==
  ASSUME NEW amount \in Nat, NEW supply \in Nat, NEW backing \in Nat,
         NEW e \in Nat \ {0}, NEW c \in Nat \ {0}, NEW mi \in Nat \ {0}, e <= c, c <= mi,
         NEW x, x = AmountToPrincipalDown(amount, e), x <= supply,
         NEW m, m = AmountToPrincipalDown(amount, mi), m <= backing,
         supply * e <= backing * c
  PROVE  (supply - x) * e <= (backing - m + 1) * c
<1>1. INDEX_SCALE \in Nat \ {0} /\ amount * INDEX_SCALE \in Nat
  BY ScaleAssumption
<1>2. x \in Nat /\ amount * INDEX_SCALE < x * e + e
  BY <1>1, DivBounds DEF AmountToPrincipalDown
<1>3. m \in Nat /\ m * mi <= amount * INDEX_SCALE
  BY <1>1, DivBounds DEF AmountToPrincipalDown
<1>4. c * m <= mi * m
  BY <1>3, MulMono
<1>5. m * c <= x * e + c
  BY <1>1, <1>2, <1>3, <1>4
<1> QED
  BY <1>2, <1>3, <1>5

\* Claiming against a lagging index: the claim's worth is added to the backing.
LEMMA StaleClaimArithmetic ==
  ASSUME NEW supply \in Nat, NEW x \in Nat, NEW backing \in Nat, NEW stale \in Nat,
         NEW e \in Nat \ {0}, NEW c \in Nat \ {0},
         supply * e <= backing * c, CeilDiv(x * e, c) <= stale
  PROVE  (supply + x) * e <= (backing + stale) * c
<1>1. CeilDiv(x * e, c) \in Nat /\ x * e <= CeilDiv(x * e, c) * c
  BY CeilBounds
<1>2. CeilDiv(x * e, c) * c <= stale * c
  BY <1>1, MulMono
<1>3. x * e <= stale * c
  BY <1>1, <1>2
<1> QED
  BY <1>3

\* Claiming at M's own index: what the vault alone backs, a larger backing does.
LEMMA FreshClaimArithmetic ==
  ASSUME NEW worth \in Nat, NEW vault \in Nat, NEW backing \in Nat, NEW mi \in Nat,
         worth <= vault * mi, vault <= backing
  PROVE  worth <= backing * mi
OBVIOUS

\* Claiming: supply and claim together are worth no more than the vault.
LEMMA ClaimArithmetic ==
  ASSUME NEW supply \in Nat, NEW vault \in Nat, NEW e \in Nat \ {0}, NEW mi \in Nat \ {0},
         NEW required, required = PrincipalToAmountUp(supply, e),
         NEW worth, worth = PrincipalToAmountDown(vault, mi), worth >= required,
         NEW x, x = AmountToPrincipalDown(worth - required, e)
  PROVE  x \in Nat /\ (supply + x) * e <= vault * mi
<1>1. INDEX_SCALE \in Nat \ {0} /\ e * supply \in Nat /\ mi * vault \in Nat
  BY ScaleAssumption
<1>2. required \in Nat /\ e * supply <= required * INDEX_SCALE
  BY <1>1, CeilBounds DEF PrincipalToAmountUp
<1>3. worth \in Nat /\ worth * INDEX_SCALE <= mi * vault
  BY <1>1, DivBounds DEF PrincipalToAmountDown
<1>4. worth - required \in Nat /\ (worth - required) * INDEX_SCALE \in Nat
  BY <1>1, <1>2, <1>3
<1>5. x \in Nat /\ x * e <= (worth - required) * INDEX_SCALE
  BY <1>4, DivBounds DEF AmountToPrincipalDown
<1> QED
  BY <1>1, <1>2, <1>3, <1>5

-----------------------------------------------------------------------------
\* Every step of MExt is a step of ExtGlobal or leaves its state alone.
LEMMA NextGoverns ==
  ASSUME [Next]_vars
  PROVE  [GovNext]_govVars
<1>1. CASE UNCHANGED vars
  BY <1>1 DEF vars
<1>2. CASE Environment
  BY <1>2 DEF Environment, PropagateIndex, SetVaultState, Donate, BurnExt
<1>3. CASE Instruction
  <2>1. ASSUME NEW signer \in Accounts, NEW authorities \in SUBSET Accounts, NEW fee \in Fees,
               Initialize(signer, authorities, fee)
        PROVE  GovNext
    BY <2>1 DEF Initialize, GovNext
  <2>2. ASSUME NEW signer \in Accounts, NEW other \in Accounts \cup {None},
               NEW amount \in Amounts, Wrap(signer, other, amount) \/ Unwrap(signer, other, amount)
        PROVE  UNCHANGED govVars
    BY <2>2 DEF Wrap, Unwrap
  <2>3. ASSUME ClaimExcess PROVE UNCHANGED govVars
    BY <2>3 DEF ClaimExcess
  <2>4. ASSUME NEW signer \in Accounts, NEW fee \in Fees, SetFee(signer, fee)
        PROVE  UNCHANGED govVars
    BY <2>4 DEF SetFee
  <2>5. ASSUME Sync PROVE UNCHANGED govVars
    BY <2>5 DEF Sync
  <2>6. ASSUME Govern PROVE GovNext
    BY <2>6 DEF Govern, GovNext
  <2> QED
    BY <1>3, <2>1, <2>2, <2>3, <2>4, <2>5, <2>6
       DEF Instruction, Operate, ClaimFees, ClaimFeesDelegated
<1> QED
  BY <1>1, <1>2, <1>3 DEF Next

(***************************************************************************)
(* The program implements its governance specification: what ExtGlobal     *)
(* promises of admins, nominations and authorities holds of MExt.          *)
(***************************************************************************)
THEOREM ImplementsGovernance == Spec => GovSpec
<1>1. Init => GovInit
  BY DEF Init
<1> QED
  BY <1>1, NextGoverns, PTL DEF Spec, GovSpec

-----------------------------------------------------------------------------
\* What a step can be, for the case splits below; both claims are ClaimExcess.
LEMMA NextCases ==
  ASSUME Next
  PROVE  \/ \E signer \in Accounts, authorities \in SUBSET Accounts, fee \in Fees :
              Initialize(signer, authorities, fee)
         \/ \E signer \in Accounts, other \in Accounts \cup {None}, amount \in Amounts :
              Wrap(signer, other, amount)
         \/ \E signer \in Accounts, other \in Accounts \cup {None}, amount \in Amounts :
              Unwrap(signer, other, amount)
         \/ Initialized /\ ClaimExcess
         \/ \E signer \in Accounts, fee \in Fees : SetFee(signer, fee)
         \/ Sync
         \/ Govern
         \/ \E multiplier \in Multipliers : PropagateIndex(multiplier)
         \/ \E state \in {"Initialized", "Frozen"} : SetVaultState(state)
         \/ Donate
         \/ BurnExt
BY DEF Next, Instruction, Operate, Environment, ClaimFees, ClaimFeesDelegated, IsAdmin

\* An extension that has been initialized stays so.
LEMMA StaysInitialized ==
  ASSUME Initialized, [Next]_vars
  PROVE  Initialized'
<1>1. CASE UNCHANGED govVars
  BY <1>1 DEF govVars, Initialized
<1>2. CASE GovNext
  BY <1>2, GovStepCases, AccountsAssumption
     DEF InitializeGlobal, TransferAdmin, AddWrapAuthority, RemoveWrapAuthority,
         SetClaimConfig, AcceptAdmin, RevokeAdminTransfer, RemoveClaimConfig, Initialized
<1> QED
  BY <1>1, <1>2, NextGoverns

\* A sum of naturals is one.
LEMMA SumType ==
  ASSUME NEW a \in Nat, NEW b \in Nat, NEW c \in Nat
  PROVE  a + b + c \in Nat
OBVIOUS

\* A factor of zero or more on the left keeps an inequality.
LEMMA MulMonoRight ==
  ASSUME NEW a \in Nat, NEW b \in Nat, NEW c \in Nat, b <= c
  PROVE  a * b <= a * c
OBVIOUS

\* What StaleMinted returns: a number, and enough to cover the minted worth if stale.
LEMMA StaleMintedBounds ==
  ASSUME NEW x \in Nat, NEW m \in Nat, last_ext_index' \in Nat, last_m_index' \in Nat \ {0}
  PROVE  /\ StaleMinted(x, m) \in Nat
         /\ ScaledUi /\ last_m_index' # MIndex =>
              CeilDiv(x * last_ext_index', last_m_index') <= m + StaleMinted(x, m)
<1> DEFINE worth == CeilDiv(x * last_ext_index', last_m_index')
<1>1. x * last_ext_index' \in Nat
  BY MulType
<1>2. worth \in Nat
  BY <1>1, CeilBounds
<1> HIDE DEF worth
<1>3. StaleMinted(x, m) = IF ScaledUi /\ last_m_index' # MIndex /\ worth > m
                          THEN worth - m ELSE 0
  BY DEF StaleMinted, worth
<1>4. /\ StaleMinted(x, m) \in Nat
      /\ ScaledUi /\ last_m_index' # MIndex => worth <= m + StaleMinted(x, m)
  BY <1>2, <1>3
<1> QED
  BY <1>4 DEF worth

\* What every instruction may use of the state it runs in and of its sync.
LEMMA SyncedFacts ==
  ASSUME IInv, SyncIndex, UNCHANGED m_multiplier
  PROVE  /\ INDEX_SCALE \in Nat \ {0} /\ ONE_HUNDRED_PERCENT \in Nat
         /\ Amounts \subseteq Nat /\ Fees \subseteq Nat
         /\ MSupply \in Nat /\ MaxOps \in Nat
         /\ MIndex \in Nat \ {0} /\ MIndex' = MIndex
         /\ vault_amount \in Nat /\ ext_supply \in Nat /\ ops \in Nat /\ stale_minted \in Nat
         /\ last_ext_index' \in Nat \ {0} /\ last_m_index' \in Nat \ {0}
         /\ SyncedExtIndex \in Nat \ {0} /\ CachedMIndex' \in Nat \ {0}
         /\ SyncedExtIndex = ExtIndex'
         /\ SyncedExtIndex <= CachedMIndex' /\ CachedMIndex' <= MIndex
<1>1. /\ INDEX_SCALE \in Nat \ {0} /\ MIndex \in Nat /\ INDEX_SCALE <= MIndex
      /\ MIndex' = MIndex
  BY ScaleAssumption, MIndexBounds DEF IInv, MExtTypeOK, MIndex
<1>2. /\ last_ext_index' \in Nat /\ last_m_index' \in Nat
      /\ INDEX_SCALE <= last_ext_index' /\ last_ext_index' <= last_m_index'
      /\ ScaledUi => last_m_index' <= MIndex
  BY <1>1, SyncBounds DEF IndexOrder
<1>3. ScaledUi' = ScaledUi
  BY DEF ScaledUi
<1> QED
  BY <1>1, <1>2, <1>3, ScaleAssumption, MExtAssumption
     DEF IInv, MExtTypeOK, SyncedExtIndex, CachedMIndex, ExtIndex

\* Rounding an amount down to a principal gives a number.
LEMMA PrincipalType ==
  ASSUME NEW amount \in Nat, NEW index \in Nat \ {0}
  PROVE  AmountToPrincipalDown(amount, index) \in Nat
<1>1. amount * INDEX_SCALE \in Nat
  BY ScaleAssumption
<1> QED
  BY <1>1, DivBounds DEF AmountToPrincipalDown

\* Two principals of one amount, each rounded down, are worth the same up to a unit.
LEMMA SameAmount ==
  ASSUME NEW amount \in Nat, NEW e \in Nat \ {0}, NEW i \in Nat \ {0},
         NEW x, x = AmountToPrincipalDown(amount, e),
         NEW m, m = AmountToPrincipalDown(amount, i)
  PROVE  /\ x * e < (m + 1) * i
         /\ m * i < (x + 1) * e
<1> DEFINE a == amount * INDEX_SCALE
<1>1. a \in Nat
  BY ScaleAssumption, MulType
<1>2. x = a \div e /\ m = a \div i
  BY DEF AmountToPrincipalDown
<1> HIDE DEF a
<1>3. /\ x \in Nat /\ x * e <= a /\ a < x * e + e
      /\ m \in Nat /\ m * i <= a /\ a < m * i + i
  BY <1>1, <1>2, DivBounds
<1>4. (m + 1) * i = m * i + i /\ (x + 1) * e = x * e + e
  BY <1>3
<1> QED
  BY <1>1, <1>3, <1>4

-----------------------------------------------------------------------------
\* A wrap keeps the types and the order of the indices.
LEMMA WrapInv ==
  ASSUME IInv, NEW signer, NEW other, NEW amount \in Amounts, Wrap(signer, other, amount)
  PROVE  IInv'
<1> DEFINE m == AmountToPrincipalDown(amount, MIndex)
           x == AmountToPrincipalDown(amount, SyncedExtIndex)
<1>1. SyncIndex /\ UNCHANGED m_multiplier /\ UNCHANGED govVars
  BY DEF Wrap
<1>2. /\ vault_amount + m <= MSupply /\ vault_amount' = vault_amount + m
      /\ ext_supply' = ext_supply + x
      /\ stale_minted' = stale_minted + StaleMinted(x, m + 1)
      /\ ops < MaxOps /\ ops' = ops + 1
      /\ UNCHANGED <<vault_state, fee_bps>>
  BY DEF Wrap
<1>3. m \in Nat /\ x \in Nat
  BY <1>1, SyncedFacts, PrincipalType
<1> HIDE DEF m, x
<1>4. StaleMinted(x, m + 1) \in Nat
  <2>1. m + 1 \in Nat
    BY <1>3
  <2> QED
    BY <1>1, <1>3, <2>1, SyncedFacts, StaleMintedBounds
<1>5. GovTypeOK'
  BY <1>1, GovTypeStep DEF IInv, MExtTypeOK
<1> QED
  BY <1>1, <1>2, <1>3, <1>4, <1>5, SyncBounds, SyncedFacts DEF IInv, MExtTypeOK

\* An unwrap keeps the types and the order of the indices.
LEMMA UnwrapInv ==
  ASSUME IInv, NEW signer, NEW other, NEW amount \in Amounts, Unwrap(signer, other, amount)
  PROVE  IInv'
<1> DEFINE m == AmountToPrincipalDown(amount, MIndex)
           x == AmountToPrincipalDown(amount, SyncedExtIndex)
<1>1. SyncIndex /\ UNCHANGED m_multiplier /\ UNCHANGED govVars
  BY DEF Unwrap
<1>2. /\ m <= vault_amount /\ vault_amount' = vault_amount - m
      /\ x <= ext_supply /\ ext_supply' = ext_supply - x
      /\ ops < MaxOps /\ ops' = ops + 1
      /\ UNCHANGED <<vault_state, fee_bps, stale_minted>>
  BY DEF Unwrap
<1>3. m \in Nat /\ x \in Nat
  BY <1>1, SyncedFacts, PrincipalType
<1> HIDE DEF m, x
<1>4. GovTypeOK'
  BY <1>1, GovTypeStep DEF IInv, MExtTypeOK
<1> QED
  BY <1>1, <1>2, <1>3, <1>4, SyncBounds, SyncedFacts DEF IInv, MExtTypeOK

\* A claim mints a number of ext tokens that, with the supply, the vault is worth.
LEMMA ClaimMints ==
  ASSUME IInv, ClaimExcess
  PROVE  \E x \in Nat :
           /\ ext_supply' = ext_supply + x
           /\ stale_minted' = stale_minted + StaleMinted(x, 0)
           /\ (ext_supply + x) * SyncedExtIndex <= vault_amount * MIndex
<1> DEFINE required == PrincipalToAmountUp(ext_supply, SyncedExtIndex)
           worth == PrincipalToAmountDown(vault_amount, MIndex)
           x == AmountToPrincipalDown(worth - required, SyncedExtIndex)
<1>1. SyncIndex /\ UNCHANGED m_multiplier
  BY DEF ClaimExcess
<1>2. worth >= required /\ ext_supply' = ext_supply + x
      /\ stale_minted' = stale_minted + StaleMinted(x, 0)
  BY DEF ClaimExcess
<1>3. x \in Nat /\ (ext_supply + x) * SyncedExtIndex <= vault_amount * MIndex
  BY <1>1, <1>2, SyncedFacts, ClaimArithmetic
<1> QED
  BY <1>2, <1>3

\* A claim keeps the types and the order of the indices.
LEMMA ClaimInv ==
  ASSUME IInv, ClaimExcess
  PROVE  IInv'
<1>1. /\ SyncIndex /\ UNCHANGED m_multiplier /\ UNCHANGED govVars
      /\ UNCHANGED <<vault_state, vault_amount, fee_bps, ops>>
  BY DEF ClaimExcess
<1>2. PICK x \in Nat : /\ ext_supply' = ext_supply + x
                       /\ stale_minted' = stale_minted + StaleMinted(x, 0)
  BY ClaimMints
<1>3. StaleMinted(x, 0) \in Nat
  BY <1>1, SyncedFacts, StaleMintedBounds
<1>4. GovTypeOK'
  BY <1>1, GovTypeStep DEF IInv, MExtTypeOK
<1> QED
  BY <1>1, <1>2, <1>3, <1>4, SyncBounds, SyncedFacts DEF IInv, MExtTypeOK

\* Initialize starts the indices in their order, M's index cached.
LEMMA InitializeInv ==
  ASSUME IInv, NEW signer \in Accounts, NEW authorities \in SUBSET Accounts,
         NEW fee \in Fees, Initialize(signer, authorities, fee)
  PROVE  IInv'
<1>1. UNCHANGED <<m_multiplier, vault_state, vault_amount, ext_supply, ops, stale_minted>>
  BY DEF Initialize, historyVars
<1>2. GovTypeOK'
  BY GovTypeStep DEF IInv, MExtTypeOK, Initialize, GovNext
<1>3. INDEX_SCALE \in Nat /\ MIndex \in Nat /\ INDEX_SCALE <= MIndex /\ MIndex' = MIndex
  BY <1>1, ScaleAssumption, MIndexBounds DEF IInv, MExtTypeOK, MIndex
<1>4. CASE ScaledUi
  <2>1. fee \in 0..ONE_HUNDRED_PERCENT /\ fee_bps' = fee /\ last_m_index' = MIndex
    BY <1>4, ScaleAssumption, MExtAssumption DEF Initialize, ValidFee
  <2>2. last_ext_index' = INDEX_SCALE
    BY <1>4 DEF Initialize, LatestExtIndex
  <2>3. ext_multiplier' = ext_multiplier
    BY <1>4, <2>2 DEF Initialize
  <2> QED
    BY <1>1, <1>2, <1>3, <2>1, <2>2, <2>3 DEF IInv, MExtTypeOK, IndexOrder
<1>5. CASE ~ScaledUi
  <2>1. UNCHANGED <<fee_bps, ext_multiplier>> /\ last_ext_index' = INDEX_SCALE
    BY <1>5 DEF Initialize
  <2>2. last_m_index' = MIndex \/ last_m_index' = last_m_index
    BY <1>5 DEF Initialize
  <2>3. INDEX_SCALE <= last_m_index /\ last_m_index \in Nat
    BY <1>3 DEF IInv, MExtTypeOK, IndexOrder
  <2> QED
    BY <1>1, <1>2, <1>3, <2>1, <2>2, <2>3 DEF IInv, MExtTypeOK, IndexOrder
<1> QED
  BY <1>4, <1>5

\* A change of the fee keeps the types and the order of the indices.
LEMMA SetFeeInv ==
  ASSUME IInv, NEW signer, NEW fee \in Fees, SetFee(signer, fee)
  PROVE  IInv'
<1>1. /\ SyncIndex /\ UNCHANGED <<m_multiplier, vault_state, vault_amount, ext_supply>>
      /\ UNCHANGED govVars /\ UNCHANGED <<ops, stale_minted>>
      /\ fee <= ONE_HUNDRED_PERCENT /\ fee_bps' = fee
  BY DEF SetFee, ValidFee, historyVars
<1>2. fee_bps' \in 0..ONE_HUNDRED_PERCENT
  BY <1>1, ScaleAssumption, MExtAssumption
<1>3. GovTypeOK'
  BY <1>1, GovTypeStep DEF IInv, MExtTypeOK
<1> QED
  BY <1>1, <1>2, <1>3, SyncBounds DEF IInv, MExtTypeOK

\* A sync keeps the types and the order of the indices.
LEMMA SyncInv ==
  ASSUME IInv, Sync
  PROVE  IInv'
<1>1. /\ SyncIndex /\ UNCHANGED <<m_multiplier, vault_state, vault_amount, ext_supply>>
      /\ UNCHANGED govVars /\ UNCHANGED <<fee_bps, ops, stale_minted>>
  BY DEF Sync, historyVars
<1>2. GovTypeOK'
  BY <1>1, GovTypeStep DEF IInv, MExtTypeOK
<1> QED
  BY <1>1, <1>2, SyncBounds DEF IInv, MExtTypeOK

\* The environment moves M's index up, freezes and thaws, donates and burns.
LEMMA EnvironmentInv ==
  ASSUME IInv, Environment
  PROVE  IInv'
<1> USE DEF IInv, MExtTypeOK
<1>1. GovTypeOK'
  BY GovTypeStep
     DEF Environment, PropagateIndex, SetVaultState, Donate, BurnExt
<1>2. ASSUME NEW multiplier \in Multipliers, PropagateIndex(multiplier) PROVE IInv'
  <2>1. m_multiplier < multiplier /\ m_multiplier' = multiplier
    BY <1>2, MExtAssumption DEF PropagateIndex
  <2>2. MIndex \in Nat /\ MIndex' \in Nat /\ MIndex <= MIndex'
    BY <2>1, MIndexBounds, MIndexMono DEF MIndex
  <2>3. /\ UNCHANGED <<vault_state, vault_amount, ext_supply, ext_multiplier>>
        /\ UNCHANGED <<fee_bps, last_m_index, last_ext_index>>
        /\ UNCHANGED <<ops, stale_minted>>
    BY <1>2 DEF PropagateIndex, yieldVars, historyVars
  <2> QED
    BY <1>1, <2>1, <2>2, <2>3 DEF IndexOrder
<1>3. ASSUME NEW state \in {"Initialized", "Frozen"}, SetVaultState(state) PROVE IInv'
  BY <1>1, <1>3 DEF SetVaultState, yieldVars, historyVars, IndexOrder, MIndex
<1>4. CASE Donate
  BY <1>1, <1>4, MExtAssumption DEF Donate, yieldVars, historyVars, IndexOrder, MIndex
<1>5. CASE BurnExt
  BY <1>1, <1>5 DEF BurnExt, yieldVars, historyVars, IndexOrder, MIndex
<1> QED
  BY <1>2, <1>3, <1>4, <1>5 DEF Environment

\* IInv holds before the extension exists.
LEMMA IInvInit == Init => IInv
<1> SUFFICES ASSUME Init PROVE IInv
  OBVIOUS
<1>1. GovTypeOK
  BY DEF Init, GovInit, GovTypeOK
<1>2. INDEX_SCALE \in Nat /\ INDEX_SCALE <= MIndex
  BY ScaleAssumption, MIndexBounds DEF Init, MIndex
<1> QED
  BY <1>1, <1>2, ScaleAssumption, MExtAssumption DEF Init, IInv, MExtTypeOK, IndexOrder

\* No step ends IInv.
LEMMA IInvStep ==
  ASSUME IInv, [Next]_vars
  PROVE  IInv'
<1>1. CASE UNCHANGED vars
  BY <1>1
     DEF vars, govVars, acctVars, yieldVars, historyVars, IInv, MExtTypeOK, GovTypeOK,
         IndexOrder, MIndex
<1>2. ASSUME Govern PROVE IInv'
  <2>1. GovTypeOK'
    BY <1>2, GovTypeStep DEF Govern, GovNext, IInv, MExtTypeOK
  <2> QED
    BY <1>2, <2>1
       DEF Govern, acctVars, yieldVars, historyVars, IInv, MExtTypeOK, IndexOrder, MIndex
<1>3. CASE Environment
  BY <1>3, EnvironmentInv
<1>4. CASE Next /\ ~Environment
  BY <1>2, <1>4, NextCases, InitializeInv, WrapInv, UnwrapInv, ClaimInv, SetFeeInv, SyncInv
     DEF Environment
<1> QED
  BY <1>1, <1>3, <1>4

\* The types and the order of the cached indices hold in every reachable state.
THEOREM InductiveInvariant == Spec => []IInv
BY IInvInit, IInvStep, PTL DEF Spec

\* Every variable keeps its type: the vault within M's supply, the fee within 100%.
THEOREM TypeCorrect == Spec => []MExtTypeOK
<1>1. IInv => MExtTypeOK
  BY DEF IInv
<1> QED
  BY <1>1, InductiveInvariant, PTL

LEMMA IndexDomainInit == Init => IndexDomain
BY IInvInit, ScaleAssumption, MIndexBounds
   DEF Init, IInv, MExtTypeOK, IndexOrder, IndexDomain, MIndex

\* No step caches an index M has not reached, and M's own never falls.
LEMMA IndexStep ==
  ASSUME IInv, [Next]_vars
  PROVE  /\ MIndex \in Nat /\ MIndex' \in Nat /\ MIndex <= MIndex'
         /\ last_m_index' = last_m_index \/ last_m_index' <= MIndex'
<1> DEFINE Stays == /\ MIndex' \in Nat /\ MIndex <= MIndex'
                    /\ last_m_index' = last_m_index \/ last_m_index' <= MIndex'
<1>1. MIndex \in Nat
  BY MIndexBounds DEF IInv, MExtTypeOK, MIndex
<1>2. ASSUME UNCHANGED <<m_multiplier, last_m_index>> PROVE Stays
  BY <1>1, <1>2 DEF MIndex
<1>3. ASSUME SyncIndex, UNCHANGED m_multiplier PROVE Stays
  <2>1. CASE ScaledUi
    <3>1. MIndex' = MIndex
      BY <1>3 DEF MIndex
    <3> QED
      BY <1>1, <1>3, <2>1, <3>1, SyncBounds
  <2>2. CASE ~ScaledUi
    BY <1>2, <1>3, <2>2 DEF SyncIndex
  <2> QED
    BY <2>1, <2>2
<1>4. ASSUME NEW signer, NEW authorities, NEW fee, Initialize(signer, authorities, fee)
      PROVE  Stays
  <2>1. UNCHANGED m_multiplier /\ (last_m_index' = MIndex \/ last_m_index' = last_m_index)
    BY <1>4 DEF Initialize
  <2> QED
    BY <1>1, <2>1 DEF MIndex
<1>5. ASSUME NEW multiplier \in Multipliers, PropagateIndex(multiplier)
      PROVE  Stays
  <2>1. /\ m_multiplier < multiplier /\ m_multiplier' = multiplier
        /\ m_multiplier \in Multipliers /\ last_m_index' = last_m_index
    BY <1>5 DEF PropagateIndex, yieldVars, IInv, MExtTypeOK
  <2>2. MIndex' \in Nat /\ MIndex <= MIndex'
    BY <2>1, MIndexBounds, MIndexMono DEF MIndex
  <2> QED
    BY <1>1, <2>1, <2>2
<1>6. ASSUME UNCHANGED vars PROVE Stays
  BY <1>2, <1>6 DEF vars, acctVars, yieldVars
<1>7. ASSUME NEW signer, NEW other, NEW amount,
             Wrap(signer, other, amount) \/ Unwrap(signer, other, amount)
      PROVE  Stays
  BY <1>3, <1>7 DEF Wrap, Unwrap
<1>8. ASSUME ClaimExcess PROVE Stays
  BY <1>3, <1>8 DEF ClaimExcess
<1>9. ASSUME NEW signer, NEW fee, SetFee(signer, fee) PROVE Stays
  BY <1>3, <1>9 DEF SetFee
<1>10. ASSUME Sync PROVE Stays
  BY <1>3, <1>10 DEF Sync
<1>11. ASSUME Govern \/ Donate \/ BurnExt PROVE Stays
  BY <1>2, <1>11 DEF Govern, acctVars, yieldVars, Donate, BurnExt
<1>12. ASSUME NEW state, SetVaultState(state) PROVE Stays
  BY <1>2, <1>12 DEF SetVaultState, yieldVars
<1>13. ASSUME Next PROVE Stays
  BY <1>4, <1>5, <1>7, <1>8, <1>9, <1>10, <1>11, <1>12, <1>13, NextCases
<1>14. Stays
  BY <1>6, <1>13
<1> QED
  BY <1>1, <1>14

\* So the order of the indices, once it holds, always does.
LEMMA IndexDomainStep ==
  ASSUME IInv, IndexDomain, [Next]_vars
  PROVE  IndexDomain'
<1>1. IInv'
  BY IInvStep
<1>2. last_m_index \in Nat /\ last_m_index' \in Nat
  BY <1>1 DEF IInv, MExtTypeOK
<1> QED
  BY <1>1, <1>2, IndexStep DEF IInv, IndexOrder, IndexDomain

\* 1.0 <= ext index <= cached M index <= M index, whatever was synced, frozen or charged.
THEOREM IndexDomainHolds == Spec => []IndexDomain
BY IndexDomainInit, IndexDomainStep, InductiveInvariant, PTL DEF Spec

\* As long as M's index is under the cap, sync_index accepts its inputs.
THEOREM NeverLockedOutHolds == Spec => []NeverLockedOut
<1>1. IInv /\ IndexDomain => NeverLockedOut
  BY ScaleAssumption
     DEF IInv, MExtTypeOK, IndexDomain, NeverLockedOut, LatestIndexOk, ValidIndexInput
<1> QED
  BY <1>1, InductiveInvariant, IndexDomainHolds, PTL

-----------------------------------------------------------------------------
\* Supply s backed at indices e0 and c0 is so at e1 and c1, if e did not grow more than c.
LEMMA GrowthKeepsBacking ==
  ASSUME NEW s \in Nat, NEW backing \in Nat, NEW e0 \in Nat, NEW c0 \in Nat \ {0},
         NEW e1 \in Nat, NEW c1 \in Nat, s * e0 <= backing * c0, e1 * c0 <= e0 * c1
  PROVE  s * e1 <= backing * c1
<1>1. (e1 * c0) * s <= (e0 * c1) * s
  BY MulType, MulMono
<1>2. (s * e0) * c1 <= (backing * c0) * c1
  BY MulType, MulMono
<1>3. (s * e1) * c0 <= (backing * c1) * c0
  BY <1>1, <1>2
<1> QED
  BY <1>3, MulType, MulCancel

\* A sync by itself keeps any backing: holders gain no more than the vault.
LEMMA SyncKeepsBacking ==
  ASSUME IInv, SyncIndex, UNCHANGED m_multiplier, NEW backing \in Nat,
         ext_supply * ExtIndex <= backing * CachedMIndex
  PROVE  ext_supply * SyncedExtIndex <= backing * CachedMIndex'
<1>1. /\ ext_supply \in Nat /\ SyncedExtIndex \in Nat \ {0} /\ CachedMIndex' \in Nat \ {0}
      /\ MIndex' = MIndex
  BY SyncedFacts
<1>2. CASE ScaledUi
  <2> DEFINE e0 == last_ext_index
             e1 == last_ext_index'
             c0 == last_m_index
             c1 == last_m_index'
             s  == ext_supply
  <2>1. /\ e0 \in Nat /\ c0 \in Nat \ {0} /\ e1 \in Nat /\ c1 \in Nat
        /\ e1 * c0 <= e0 * c1
    BY SyncBounds, ScaleAssumption DEF IInv, MExtTypeOK, IndexOrder
  <2>2. s * e0 <= backing * c0
    BY <1>2 DEF ExtIndex, CachedMIndex
  <2>3. SyncedExtIndex = e1 /\ CachedMIndex' = c1
    BY <1>2 DEF SyncedExtIndex, CachedMIndex, ScaledUi
  <2> HIDE DEF e0, e1, c0, c1, s
  <2>4. s \in Nat
    BY <1>1 DEF s
  <2>5. s * e1 <= backing * c1
    BY <2>1, <2>2, <2>4, GrowthKeepsBacking
  <2> QED
    BY <2>3, <2>5 DEF s
<1>3. CASE ~ScaledUi
  BY <1>1, <1>3 DEF ExtIndex, SyncedExtIndex, CachedMIndex, ScaledUi
<1> QED
  BY <1>2, <1>3

\* The backing with an allowance of units of M: Backed allows none once initialized.
BackedBy(allowance) ==
  ext_supply * ExtIndex <= (vault_amount + ops + stale_minted + allowance) * CachedMIndex

LEMMA BackedByNothing ==
  ASSUME IInv
  PROVE  Backed <=> (Initialized => BackedBy(0))
<1>1. vault_amount + ops + stale_minted + 0 = vault_amount + ops + stale_minted
  BY MExtAssumption DEF IInv, MExtTypeOK
<1> QED
  BY <1>1 DEF Backed, BackedBy

\* A wrap adds backing for what it mints, to a unit and what is stale.
LEMMA WrapBackedBy ==
  ASSUME IInv, NEW allowance \in Nat, BackedBy(allowance),
         NEW signer, NEW other, NEW amount \in Amounts, Wrap(signer, other, amount)
  PROVE  BackedBy(allowance)'
<1> DEFINE m == AmountToPrincipalDown(amount, MIndex)
           x == AmountToPrincipalDown(amount, SyncedExtIndex)
           stale == StaleMinted(x, m + 1)
           backing == vault_amount + ops + stale_minted + allowance
<1>1. SyncIndex /\ UNCHANGED m_multiplier /\ Initialized
  BY DEF Wrap
<1>2. /\ vault_amount' = vault_amount + m /\ ext_supply' = ext_supply + x
      /\ stale_minted' = stale_minted + stale /\ ops' = ops + 1
  BY DEF Wrap
<1>3. /\ SyncedExtIndex \in Nat \ {0} /\ CachedMIndex' \in Nat \ {0} /\ MIndex \in Nat \ {0}
      /\ amount \in Nat /\ ext_supply \in Nat /\ backing \in Nat
      /\ vault_amount \in Nat /\ ops \in Nat /\ stale_minted \in Nat
      /\ SyncedExtIndex = ExtIndex' /\ MIndex' = MIndex
      /\ last_ext_index' \in Nat /\ last_m_index' \in Nat \ {0}
  BY <1>1, SyncedFacts
<1>4. m \in Nat /\ x \in Nat
  BY <1>3, PrincipalType
<1>5. ext_supply * SyncedExtIndex <= backing * CachedMIndex'
  BY <1>1, <1>3, SyncKeepsBacking DEF BackedBy
<1>6. /\ stale \in Nat
      /\ CachedMIndex' = MIndex \/ CeilDiv(x * SyncedExtIndex, CachedMIndex') <= m + 1 + stale
  <2>1. m + 1 \in Nat
    BY <1>4
  <2>2. /\ stale \in Nat
        /\ ScaledUi /\ last_m_index' # MIndex =>
             CeilDiv(x * last_ext_index', last_m_index') <= m + 1 + stale
    BY <1>3, <1>4, <2>1, StaleMintedBounds
  <2> QED
    BY <1>3, <2>2 DEF SyncedExtIndex, CachedMIndex, ScaledUi
<1>7. (ext_supply + x) * SyncedExtIndex <= (backing + m + 1 + stale) * CachedMIndex'
  <2> DEFINE e  == SyncedExtIndex
             c  == CachedMIndex'
             mi == MIndex
             s  == ext_supply
  <2>1. x = AmountToPrincipalDown(amount, e) /\ m = AmountToPrincipalDown(amount, mi)
    OBVIOUS
  <2> HIDE DEF e, c, mi, s, m, x, stale, backing
  <2>2. /\ e \in Nat \ {0} /\ c \in Nat \ {0} /\ mi \in Nat \ {0}
        /\ s \in Nat /\ amount \in Nat /\ backing \in Nat /\ stale \in Nat
    BY <1>3, <1>6 DEF e, c, mi, s
  <2>3. s * e <= backing * c /\ (c = mi \/ CeilDiv(x * e, c) <= m + 1 + stale)
    BY <1>3, <1>5, <1>6 DEF e, c, mi, s
  <2>4. (s + x) * e <= (backing + m + 1 + stale) * c
    BY <2>1, <2>2, <2>3, WrapArithmetic
  <2> QED
    BY <2>4 DEF e, c, s
<1> HIDE DEF m, x, stale
<1>8. vault_amount' + ops' + stale_minted' + allowance = backing + m + 1 + stale
  BY <1>2, <1>3, <1>4, <1>6
<1> QED
  BY <1>2, <1>3, <1>7, <1>8 DEF BackedBy

\* An unwrap takes no more backing than it burns supply, to a unit.
LEMMA UnwrapBackedBy ==
  ASSUME IInv, NEW allowance \in Nat, BackedBy(allowance),
         NEW signer, NEW other, NEW amount \in Amounts, Unwrap(signer, other, amount)
  PROVE  BackedBy(allowance)'
<1> DEFINE m == AmountToPrincipalDown(amount, MIndex)
           x == AmountToPrincipalDown(amount, SyncedExtIndex)
           backing == vault_amount + ops + stale_minted + allowance
<1>1. SyncIndex /\ UNCHANGED m_multiplier /\ Initialized
  BY DEF Unwrap
<1>2. /\ m <= vault_amount /\ vault_amount' = vault_amount - m
      /\ x <= ext_supply /\ ext_supply' = ext_supply - x
      /\ stale_minted' = stale_minted /\ ops' = ops + 1
  BY DEF Unwrap
<1>3. /\ SyncedExtIndex \in Nat \ {0} /\ CachedMIndex' \in Nat \ {0} /\ MIndex \in Nat \ {0}
      /\ SyncedExtIndex <= CachedMIndex' /\ CachedMIndex' <= MIndex
      /\ amount \in Nat /\ ext_supply \in Nat /\ backing \in Nat
      /\ vault_amount \in Nat /\ ops \in Nat /\ stale_minted \in Nat
      /\ SyncedExtIndex = ExtIndex'
  BY <1>1, SyncedFacts
<1>4. m \in Nat /\ x \in Nat
  BY <1>3, PrincipalType
<1>5. ext_supply * SyncedExtIndex <= backing * CachedMIndex'
  BY <1>1, <1>3, SyncKeepsBacking DEF BackedBy
<1>6. m <= backing
  BY <1>2, <1>3, <1>4
<1>7. (ext_supply - x) * SyncedExtIndex <= (backing - m + 1) * CachedMIndex'
  BY <1>2, <1>3, <1>4, <1>5, <1>6, UnwrapArithmetic
<1> HIDE DEF m, x
<1>8. vault_amount' + ops' + stale_minted' + allowance = backing - m + 1
  BY <1>2, <1>3, <1>4
<1> QED
  BY <1>2, <1>3, <1>7, <1>8 DEF BackedBy

\* A claim at an up-to-date index mints only what the vault is worth beyond the supply.
LEMMA ClaimBackedBy ==
  ASSUME IInv, NEW allowance \in Nat, BackedBy(allowance), ClaimExcess
  PROVE  BackedBy(allowance)'
<1> DEFINE backing == vault_amount + ops + stale_minted + allowance
<1>1. SyncIndex /\ UNCHANGED m_multiplier /\ UNCHANGED <<vault_amount, ops>>
  BY DEF ClaimExcess
<1>2. PICK x \in Nat : /\ ext_supply' = ext_supply + x
                       /\ stale_minted' = stale_minted + StaleMinted(x, 0)
                       /\ (ext_supply + x) * SyncedExtIndex <= vault_amount * MIndex
  BY ClaimMints
<1> DEFINE stale == StaleMinted(x, 0)
<1>3. /\ SyncedExtIndex \in Nat \ {0} /\ CachedMIndex' \in Nat \ {0}
      /\ MIndex \in Nat \ {0} /\ MIndex' = MIndex
      /\ ext_supply \in Nat /\ backing \in Nat
      /\ vault_amount \in Nat /\ ops \in Nat /\ stale_minted \in Nat
      /\ SyncedExtIndex = ExtIndex'
      /\ last_ext_index' \in Nat /\ last_m_index' \in Nat \ {0}
  BY <1>1, SyncedFacts
<1>4. ext_supply * SyncedExtIndex <= backing * CachedMIndex'
  BY <1>1, <1>3, SyncKeepsBacking DEF BackedBy
<1>5. /\ stale \in Nat
      /\ CachedMIndex' = MIndex \/ CeilDiv(x * SyncedExtIndex, CachedMIndex') <= stale
  <2>1. /\ stale \in Nat
        /\ ScaledUi /\ last_m_index' # MIndex =>
             CeilDiv(x * last_ext_index', last_m_index') <= 0 + stale
    BY <1>3, StaleMintedBounds
  <2> QED
    BY <1>3, <2>1 DEF SyncedExtIndex, CachedMIndex, ScaledUi
<1> HIDE DEF stale
<1>6. (ext_supply + x) * SyncedExtIndex <= (backing + stale) * CachedMIndex'
  <2>1. CASE CachedMIndex' = MIndex
    <3>1. (ext_supply + x) * SyncedExtIndex \in Nat
      <4>1. ext_supply + x \in Nat
        BY <1>3
      <4> QED
        BY <1>3, <4>1, MulType
    <3>2. vault_amount <= backing + stale /\ backing + stale \in Nat
      BY <1>3, <1>5
    <3> HIDE DEF backing
    <3> QED
      BY <1>2, <1>3, <2>1, <3>1, <3>2, FreshClaimArithmetic
  <2>2. CASE CeilDiv(x * SyncedExtIndex, CachedMIndex') <= stale
    BY <1>3, <1>4, <1>5, <2>2, StaleClaimArithmetic
  <2> QED
    BY <1>5, <2>1, <2>2
<1>7. vault_amount' + ops' + stale_minted' + allowance = backing + stale
  BY <1>1, <1>2, <1>3, <1>5 DEF stale
<1> QED
  BY <1>2, <1>3, <1>6, <1>7 DEF BackedBy

\* Governance leaves the backing alone, the environment only adds to it or burns.
LEMMA OtherBackedBy ==
  ASSUME IInv, NEW allowance \in Nat, BackedBy(allowance), Environment \/ Govern
  PROVE  BackedBy(allowance)'
<1> DEFINE backing == vault_amount + ops + stale_minted + allowance
<1>1. /\ MIndex \in Nat /\ ext_supply \in Nat /\ ExtIndex \in Nat /\ CachedMIndex \in Nat
      /\ vault_amount \in Nat /\ ops \in Nat /\ stale_minted \in Nat /\ backing \in Nat
  BY ScaleAssumption, MIndexBounds
     DEF IInv, MExtTypeOK, MIndex, ExtIndex, CachedMIndex
<1>2. ASSUME NEW multiplier \in Multipliers, PropagateIndex(multiplier) PROVE BackedBy(allowance)'
  <2>1. /\ UNCHANGED <<vault_amount, ext_supply, ops, stale_minted>>
        /\ UNCHANGED <<admin, last_m_index, last_ext_index>>
    BY <1>2 DEF PropagateIndex, govVars, yieldVars, historyVars
  <2>2. MIndex' \in Nat /\ MIndex <= MIndex'
    <3>1. m_multiplier < multiplier /\ m_multiplier' = multiplier
      BY <1>2 DEF PropagateIndex
    <3> QED
      BY <3>1, MIndexBounds, MIndexMono DEF MIndex, IInv, MExtTypeOK
  <2>3. /\ ExtIndex' = ExtIndex /\ CachedMIndex' \in Nat /\ CachedMIndex <= CachedMIndex'
    BY <1>1, <2>1, <2>2 DEF ExtIndex, CachedMIndex, ScaledUi
  <2>4. backing * CachedMIndex <= backing * CachedMIndex'
    BY <1>1, <2>3, MulMonoRight
  <2>5. ext_supply * ExtIndex \in Nat /\ backing * CachedMIndex \in Nat
        /\ backing * CachedMIndex' \in Nat
    BY <1>1, <2>3, MulType
  <2> QED
    BY <2>1, <2>3, <2>4, <2>5 DEF BackedBy
<1>3. ASSUME NEW state \in {"Initialized", "Frozen"}, SetVaultState(state) PROVE BackedBy(allowance)'
  BY <1>3
     DEF SetVaultState, BackedBy, ExtIndex, CachedMIndex, MIndex, ScaledUi,
         govVars, yieldVars, historyVars
<1>4. CASE Donate
  <2>1. /\ vault_amount' = vault_amount + 1 /\ UNCHANGED <<ext_supply, ops, stale_minted>>
        /\ UNCHANGED admin /\ ExtIndex' = ExtIndex /\ CachedMIndex' = CachedMIndex
    BY <1>4
       DEF Donate, ExtIndex, CachedMIndex, MIndex, ScaledUi, govVars, yieldVars, historyVars
  <2>2. backing * CachedMIndex <= (backing + 1) * CachedMIndex
    BY <1>1
  <2>3. vault_amount' + ops' + stale_minted' + allowance = backing + 1
    BY <1>1, <2>1
  <2>4. /\ ext_supply * ExtIndex \in Nat /\ backing * CachedMIndex \in Nat
        /\ (backing + 1) * CachedMIndex \in Nat
    <3>1. backing + 1 \in Nat
      BY <1>1
    <3> QED
      BY <1>1, <3>1, MulType
  <2> QED
    BY <2>1, <2>2, <2>3, <2>4 DEF BackedBy
<1>5. CASE BurnExt
  <2>1. /\ ext_supply > 0 /\ ext_supply' = ext_supply - 1
        /\ UNCHANGED <<vault_amount, ops, stale_minted>>
        /\ UNCHANGED admin /\ ExtIndex' = ExtIndex /\ CachedMIndex' = CachedMIndex
    BY <1>5
       DEF BurnExt, ExtIndex, CachedMIndex, MIndex, ScaledUi, govVars, yieldVars, historyVars
  <2>2. (ext_supply - 1) * ExtIndex <= ext_supply * ExtIndex
    <3>1. ext_supply - 1 \in Nat /\ ext_supply - 1 <= ext_supply
      BY <1>1, <2>1
    <3> QED
      BY <1>1, <3>1, MulMono
  <2>3. /\ (ext_supply - 1) * ExtIndex \in Nat /\ ext_supply * ExtIndex \in Nat
        /\ backing * CachedMIndex \in Nat
    <3>1. ext_supply - 1 \in Nat
      BY <1>1, <2>1
    <3> QED
      BY <1>1, <3>1, MulType
  <2> QED
    BY <2>1, <2>2, <2>3 DEF BackedBy
<1>6. CASE Govern
  <2>1. UNCHANGED <<ext_supply, vault_amount, ops, stale_minted, ExtIndex, CachedMIndex>>
    BY <1>6
       DEF Govern, acctVars, yieldVars, historyVars, ExtIndex, CachedMIndex, MIndex, ScaledUi
  <2> QED
    BY <2>1 DEF BackedBy
<1> QED
  BY <1>2, <1>3, <1>4, <1>5, <1>6 DEF Environment

\* No step of the program or of its environment ends the backing.
LEMMA BackedByStep ==
  ASSUME IInv, Initialized, NEW allowance \in Nat, BackedBy(allowance), [Next]_vars
  PROVE  BackedBy(allowance)'
<1>1. CASE UNCHANGED vars
  BY <1>1
     DEF vars, acctVars, yieldVars, historyVars, BackedBy, ExtIndex, CachedMIndex, MIndex,
         ScaledUi
<1>2. ASSUME NEW signer, NEW authorities, NEW fee, Initialize(signer, authorities, fee)
      PROVE  FALSE
  BY <1>2 DEF Initialize, InitializeGlobal
<1>3. ASSUME SyncIndex, UNCHANGED <<m_multiplier, vault_amount, ext_supply, ops, stale_minted>>
      PROVE  BackedBy(allowance)'
  <2>1. SyncedExtIndex = ExtIndex' /\ vault_amount + ops + stale_minted + allowance \in Nat
    BY <1>3, SyncedFacts
  <2> QED
    BY <1>3, <2>1, SyncKeepsBacking DEF BackedBy
<1>4. ASSUME NEW signer \in Accounts, NEW fee \in Fees, SetFee(signer, fee)
      PROVE  BackedBy(allowance)'
  BY <1>3, <1>4 DEF SetFee, historyVars
<1>5. CASE Sync
  BY <1>3, <1>5 DEF Sync, historyVars
<1>6. CASE Next
  BY <1>2, <1>4, <1>5, <1>6, NextCases, WrapBackedBy, UnwrapBackedBy, ClaimBackedBy,
     OtherBackedBy
     DEF Environment
<1> QED
  BY <1>1, <1>6

LEMMA BackedStep ==
  ASSUME IInv, Backed, [Next]_vars
  PROVE  Backed'
<1>1. CASE Initialized
  <2>1. BackedBy(0)'
    BY <1>1, BackedByNothing, BackedByStep
  <2>2. IInv'
    BY IInvStep
  <2>3. (vault_amount + ops + stale_minted + 0)' = (vault_amount + ops + stale_minted)'
    BY <2>2, MExtAssumption DEF IInv, MExtTypeOK
  <2> QED
    BY <2>1, <2>3 DEF Backed, BackedBy
<1>2. ASSUME NEW signer \in Accounts, NEW authorities \in SUBSET Accounts, NEW fee \in Fees,
             Initialize(signer, authorities, fee)
      PROVE  Backed'
  <2>1. ext_supply' = 0 /\ IInv'
    BY <1>2, InitializeInv DEF Initialize
  <2>2. /\ ExtIndex' \in Nat /\ CachedMIndex' \in Nat
        /\ vault_amount' + ops' + stale_minted' \in Nat
    <3>1. m_multiplier' \in Multipliers
      BY <2>1 DEF IInv, MExtTypeOK
    <3>2. MIndex' \in Nat
      BY <3>1, MIndexBounds DEF MIndex
    <3>3. vault_amount' \in Nat /\ ops' \in Nat /\ stale_minted' \in Nat
          /\ last_ext_index' \in Nat /\ last_m_index' \in Nat
      BY <2>1, MExtAssumption DEF IInv, MExtTypeOK
    <3>4. ExtIndex' \in Nat
      BY <3>3, ScaleAssumption DEF ExtIndex, ScaledUi
    <3>5. CachedMIndex' \in Nat
      BY <3>2, <3>3 DEF CachedMIndex, ScaledUi
    <3>6. vault_amount' + ops' + stale_minted' \in Nat
      BY <3>3, SumType
    <3> QED
      BY <3>4, <3>5, <3>6
  <2>3. (vault_amount' + ops' + stale_minted') * CachedMIndex' \in Nat
    BY <2>2, MulType
  <2> QED
    BY <2>1, <2>2, <2>3 DEF Backed
<1>3. ASSUME ~Initialized, UNCHANGED admin PROVE Backed'
  BY <1>3 DEF Backed, Initialized
<1>4. CASE UNCHANGED vars
  BY <1>1, <1>3, <1>4 DEF vars, govVars
<1>5. ASSUME Environment PROVE UNCHANGED admin
  BY <1>5 DEF Environment, PropagateIndex, SetVaultState, Donate, BurnExt, govVars
<1>6. ASSUME Govern PROVE Initialized
  BY <1>6
  DEF Govern, GovStep, TransferAdmin, AddWrapAuthority, RemoveWrapAuthority, SetClaimConfig,
      AcceptAdmin, RevokeAdminTransfer, RemoveClaimConfig, IsAdmin
<1> QED
  BY <1>1, <1>2, <1>3, <1>4, <1>5, <1>6, NextCases
  DEF Environment, Wrap, Unwrap, SetFee, Sync, IsAdmin

(***************************************************************************)
(* The vault backs the ext tokens at the cached indices but for a unit of  *)
(* M principal per wrap or unwrap and for what was minted against a        *)
(* lagging index, in every reachable state of every variant.               *)
(***************************************************************************)
THEOREM BackedHolds == Spec => []Backed
<1>1. Init => Backed
  BY DEF Init, GovInit, Backed, Initialized
<1> QED
  BY <1>1, InductiveInvariant, BackedStep, PTL DEF Spec

-----------------------------------------------------------------------------
\* What backs the supply at the cached indices pays for all of it at once, after any sync.
LEMMA BackedCanLeave ==
  ASSUME IInv, Backed
  PROVE  WholeSupplyCanLeave
<1> SUFFICES ASSUME Initialized, ScaledUi => LatestIndexOk
             PROVE  LET amount == PrincipalToAmountUp(ext_supply, NextExtIndex)
                    IN /\ AmountToPrincipalDown(amount, NextExtIndex) = ext_supply
                       /\ AmountToPrincipalDown(amount, MIndex)
                            <= vault_amount + ops + stale_minted
                       /\ amount <= PrincipalToAmountUp(vault_amount + ops + stale_minted, MIndex)
  BY DEF WholeSupplyCanLeave
<1> DEFINE s == ext_supply
           backing == vault_amount + ops + stale_minted
           e == NextExtIndex
           mi == MIndex
           amount == PrincipalToAmountUp(s, e)
           m == AmountToPrincipalDown(amount, mi)
<1>1. /\ INDEX_SCALE \in Nat \ {0} /\ s \in Nat /\ mi \in Nat \ {0}
      /\ vault_amount \in Nat /\ ops \in Nat /\ stale_minted \in Nat /\ backing \in Nat
      /\ last_ext_index \in Nat /\ last_m_index \in Nat \ {0}
      /\ INDEX_SCALE <= last_ext_index /\ INDEX_SCALE <= mi
  BY ScaleAssumption, MExtAssumption, MIndexBounds DEF IInv, MExtTypeOK, IndexOrder, MIndex
<1>2. s * ExtIndex <= backing * CachedMIndex
  BY DEF Backed
<1>3. e \in Nat /\ INDEX_SCALE <= e /\ s * e <= backing * mi
  <2>1. CASE ScaledUi
    <3>1. /\ e \in Nat /\ last_ext_index <= e
          /\ e * last_m_index <= last_ext_index * mi
      BY <2>1, LatestBounds DEF NextExtIndex
    <3>2. s * last_ext_index <= backing * last_m_index
      BY <1>2, <2>1 DEF ExtIndex, CachedMIndex
    <3> HIDE DEF s, backing, e, mi
    <3> QED
      BY <1>1, <3>1, <3>2, GrowthKeepsBacking
  <2>2. CASE ~ScaledUi
    BY <1>1, <1>2, <2>2 DEF NextExtIndex, ExtIndex, CachedMIndex
  <2> QED
    BY <2>1, <2>2
<1> HIDE DEF s, backing, e, mi
<1>4. AmountToPrincipalDown(amount, e) = s
  BY <1>1, <1>3, WholeBalanceHasAnAmount
<1>5. amount \in Nat /\ amount * INDEX_SCALE < e * s + INDEX_SCALE
  BY <1>1, <1>3, MulType, CeilBounds DEF PrincipalToAmountUp
<1>6. amount <= PrincipalToAmountUp(backing, mi)
  <2>1. e * s \in Nat /\ mi * backing \in Nat /\ e * s <= mi * backing
    BY <1>1, <1>3, MulType
  <2> QED
    BY <1>1, <2>1, CeilMono DEF PrincipalToAmountUp
<1> HIDE DEF amount
<1>7. m \in Nat /\ m * mi <= amount * INDEX_SCALE
  BY <1>1, <1>5, MulType, DivBounds DEF AmountToPrincipalDown
<1> HIDE DEF m
<1>8. m < backing + 1
  <2>1. m * mi < (backing + 1) * mi
    BY <1>1, <1>3, <1>5, <1>7
  <2> QED
    BY <1>1, <1>7, <2>1
<1>9. m <= backing
  BY <1>1, <1>7, <1>8
<1> QED
  BY <1>4, <1>6, <1>9 DEF m, amount, s, backing, e, mi

(***************************************************************************)
(* All that was ever minted can be burned again by an unwrap, and the M it *)
(* pays out is in the vault but for the allowance of Backed: in every      *)
(* reachable state of every variant, with the sync the unwrap starts with. *)
(***************************************************************************)
THEOREM WholeSupplyCanLeaveHolds == Spec => []WholeSupplyCanLeave
<1>1. IInv /\ Backed => WholeSupplyCanLeave
  BY BackedCanLeave
<1> QED
  BY <1>1, InductiveInvariant, BackedHolds, PTL

-----------------------------------------------------------------------------
\* No growth of M is so small, and no fee so high, that the ext index does not move with it.
NoHiddenGrowth ==
  ScaledUi =>
    \A low \in Multipliers, high \in Multipliers, fee \in Fees :
      /\ ValidFee(fee)
      /\ MultiplierToIndex(low) < MultiplierToIndex(high)
      /\ MultiplierToIndex(high) <= MaxIndex
      => \A ext_index \in INDEX_SCALE..MultiplierToIndex(low) :
           CalculateNewIndex(ext_index, MultiplierToIndex(low), MultiplierToIndex(high), fee)
             # ext_index

\* The cached M index is one M had, and nothing was minted against a lagging one.
NeverStale ==
  /\ stale_minted = 0
  /\ ScaledUi /\ Initialized =>
       /\ fee_bps \in Fees /\ ValidFee(fee_bps)
       /\ \E multiplier \in Multipliers : last_m_index = MultiplierToIndex(multiplier)

\* If no growth is hidden then every sync brings the cached index up to M's.
LEMMA SyncCatchesUp ==
  ASSUME NoHiddenGrowth, IInv, NeverStale, Initialized, ScaledUi, SyncIndex
  PROVE  last_m_index' = MIndex
<1>1. /\ m_multiplier \in Multipliers /\ last_ext_index \in Nat
      /\ INDEX_SCALE <= last_ext_index /\ last_ext_index <= last_m_index
  BY DEF IInv, MExtTypeOK, IndexOrder
<1>2. PICK low \in Multipliers : last_m_index = MultiplierToIndex(low)
  BY DEF NeverStale
<1>3. MultiplierToIndex(low) \in Nat /\ INDEX_SCALE \in Nat
  BY MIndexBounds, ScaleAssumption
<1>4. last_ext_index \in INDEX_SCALE..MultiplierToIndex(low)
  BY <1>1, <1>2, <1>3
<1>5. CASE MIndex = last_m_index
  BY <1>5 DEF SyncIndex, LatestExtIndex, RecordIndex
<1>6. CASE MIndex # last_m_index
  <2>1. fee_bps \in Fees /\ ValidFee(fee_bps)
    BY DEF NeverStale
  <2>2. CalculateNewIndex(last_ext_index, last_m_index, MIndex, fee_bps) # last_ext_index
    <3>1. last_m_index < MIndex
      BY <1>2, <1>3, <1>6, <1>1, MIndexBounds
         DEF MIndex, SyncIndex, LatestIndexOk, ValidIndexInput
    <3>2. MIndex <= MaxIndex
      BY <1>6 DEF SyncIndex, LatestIndexOk, ValidIndexInput
    <3> QED
      BY <1>1, <1>2, <1>4, <2>1, <3>1, <3>2 DEF NoHiddenGrowth, MIndex
  <2>3. LatestExtIndex(last_ext_index, last_m_index, fee_bps) # last_ext_index
    BY <1>6, <2>2 DEF LatestExtIndex
  <2> QED
    BY <2>3 DEF SyncIndex, RecordIndex
<1> QED
  BY <1>5, <1>6

\* So nothing is ever minted against a lagging index.
LEMMA NeverStaleStep ==
  ASSUME NoHiddenGrowth, IInv, NeverStale, [Next]_vars
  PROVE  NeverStale'
<1>1. ASSUME UNCHANGED <<admin, stale_minted, fee_bps, last_m_index>> PROVE NeverStale'
  BY <1>1 DEF NeverStale, Initialized, ScaledUi, ValidFee
<1>2. CASE UNCHANGED vars
  BY <1>1, <1>2 DEF vars, govVars, acctVars, yieldVars, historyVars
<1>3. ASSUME Initialized, SyncIndex, UNCHANGED m_multiplier, stale_minted' = 0,
             fee_bps' = fee_bps \/ (fee_bps' \in Fees /\ ValidFee(fee_bps'))
      PROVE  NeverStale'
  <2>1. CASE ScaledUi
    <3>1. last_m_index' = MultiplierToIndex(m_multiplier) /\ m_multiplier \in Multipliers
      BY <1>3, <2>1, SyncCatchesUp DEF MIndex, IInv, MExtTypeOK
    <3>2. fee_bps' \in Fees /\ ValidFee(fee_bps')
      BY <1>3, <2>1 DEF NeverStale
    <3> QED
      BY <1>3, <3>1, <3>2 DEF NeverStale, ValidFee
  <2>2. CASE ~ScaledUi
    BY <1>3, <2>2 DEF NeverStale, ScaledUi
  <2> QED
    BY <2>1, <2>2
<1>4. ASSUME Initialized, SyncIndex, NEW x, NEW m, stale_minted' = stale_minted + StaleMinted(x, m)
      PROVE  stale_minted' = 0
  <2>1. ~(ScaledUi /\ last_m_index' # MIndex)
    BY <1>4, SyncCatchesUp
  <2>2. StaleMinted(x, m) = 0
    BY <2>1 DEF StaleMinted
  <2> QED
    BY <1>4, <2>2 DEF NeverStale
<1>5. ASSUME NEW signer \in Accounts, NEW authorities \in SUBSET Accounts, NEW fee \in Fees,
             Initialize(signer, authorities, fee)
      PROVE  NeverStale'
  <2>1. stale_minted' = 0
    BY <1>5 DEF Initialize, historyVars, NeverStale
  <2>2. ScaledUi => /\ fee_bps' \in Fees /\ ValidFee(fee_bps')
                    /\ last_m_index' = MultiplierToIndex(m_multiplier)
                    /\ m_multiplier \in Multipliers
    BY <1>5 DEF Initialize, MIndex, IInv, MExtTypeOK
  <2> QED
    BY <2>1, <2>2 DEF NeverStale, ScaledUi, ValidFee
<1>6. ASSUME NEW signer, NEW other, NEW amount, Wrap(signer, other, amount)
      PROVE  NeverStale'
  <2>1. Initialized /\ SyncIndex /\ UNCHANGED <<m_multiplier, fee_bps>>
    BY <1>6 DEF Wrap
  <2>2. PICK x, m : stale_minted' = stale_minted + StaleMinted(x, m)
    BY <1>6 DEF Wrap
  <2> QED
    BY <1>3, <1>4, <2>1, <2>2
<1>7. ASSUME NEW signer, NEW other, NEW amount, Unwrap(signer, other, amount)
      PROVE  NeverStale'
  BY <1>3, <1>7 DEF Unwrap, NeverStale
<1>8. ASSUME Initialized, ClaimExcess PROVE NeverStale'
  <2>1. Initialized /\ SyncIndex /\ UNCHANGED <<m_multiplier, fee_bps>>
    BY <1>8 DEF ClaimExcess
  <2>2. PICK x, m : stale_minted' = stale_minted + StaleMinted(x, m)
    BY <1>8 DEF ClaimExcess
  <2> QED
    BY <1>3, <1>4, <2>1, <2>2
<1>9. ASSUME NEW signer, NEW fee \in Fees, SetFee(signer, fee) PROVE NeverStale'
  BY <1>3, <1>9 DEF SetFee, IsAdmin, historyVars, NeverStale
<1>10. CASE Sync
  BY <1>3, <1>10 DEF Sync, historyVars, NeverStale
<1>11. ASSUME Govern PROVE NeverStale'
  <2>1. Initialized /\ UNCHANGED <<stale_minted, fee_bps, last_m_index>>
    BY <1>11
    DEF Govern, GovStep, TransferAdmin, AddWrapAuthority, RemoveWrapAuthority, SetClaimConfig,
        AcceptAdmin, RevokeAdminTransfer, RemoveClaimConfig, IsAdmin, acctVars, yieldVars,
        historyVars
  <2> QED
    BY <2>1 DEF NeverStale, ScaledUi, ValidFee
<1>12. ASSUME Environment PROVE NeverStale'
  BY <1>1, <1>12
  DEF Environment, PropagateIndex, SetVaultState, Donate, BurnExt, govVars, yieldVars,
      historyVars
<1> QED
  BY <1>2, <1>5, <1>6, <1>7, <1>8, <1>9, <1>10, <1>11, <1>12, NextCases DEF Environment

\* With nothing minted against a lagging index, M's own index backs the supply.
LEMMA NotStaleIsSolvent ==
  ASSUME IInv, IndexDomain, stale_minted = 0, Backed
  PROVE  SolventWithinRounding
<1> SUFFICES ASSUME Initialized
             PROVE  ext_supply * ExtIndex <= (vault_amount + ops) * MIndex
  BY DEF SolventWithinRounding
<1> DEFINE backing == vault_amount + ops
<1>1. /\ backing \in Nat /\ MIndex \in Nat /\ CachedMIndex \in Nat /\ CachedMIndex <= MIndex
      /\ ext_supply \in Nat /\ ExtIndex \in Nat
  BY ScaleAssumption, MIndexBounds
  DEF IInv, MExtTypeOK, IndexDomain, MIndex, CachedMIndex, ExtIndex
<1>2. vault_amount + ops + stale_minted = backing
  BY DEF IInv, MExtTypeOK
<1>3. ext_supply * ExtIndex <= backing * CachedMIndex
  BY <1>2 DEF Backed
<1> HIDE DEF backing
<1>4. backing * CachedMIndex <= backing * MIndex
  BY <1>1, MulMonoRight
<1>5. /\ ext_supply * ExtIndex \in Nat /\ backing * CachedMIndex \in Nat
      /\ backing * MIndex \in Nat
  BY <1>1, MulType
<1>6. ext_supply * ExtIndex <= backing * MIndex
  BY <1>3, <1>4, <1>5
<1> QED
  BY <1>6 DEF backing

(***************************************************************************)
(* What the tests call solvent, up to a unit of M per wrap or unwrap, is   *)
(* an invariant when the ext index moves with every growth of M; that it   *)
(* may not is what finding F1 is about.                                    *)
(***************************************************************************)
THEOREM SolventWithinRoundingHolds ==
  ASSUME NoHiddenGrowth
  PROVE  Spec => []SolventWithinRounding
<1>1. Init => NeverStale
  BY DEF Init, GovInit, NeverStale, Initialized
<1>2. IInv /\ NeverStale /\ [Next]_vars => NeverStale'
  BY NeverStaleStep
<1>3. IInv /\ IndexDomain /\ NeverStale /\ Backed => SolventWithinRounding
  BY NotStaleIsSolvent DEF NeverStale
<1> QED
  BY <1>1, <1>2, <1>3, InductiveInvariant, IndexDomainHolds, BackedHolds, PTL DEF Spec

-----------------------------------------------------------------------------
\* Every step's growth of the ext index is paid for by M's, and none is of a frozen vault.
LEMMA FairGrowthStep ==
  ASSUME IInv, [Next]_vars
  PROVE  GrowthIsFair
<1>1. last_ext_index \in Nat /\ last_m_index \in Nat
  BY DEF IInv, MExtTypeOK
<1>2. ASSUME UNCHANGED <<last_ext_index, last_m_index>> PROVE GrowthIsFair
  BY <1>1, <1>2 DEF GrowthIsFair
<1>3. ASSUME SyncIndex, UNCHANGED m_multiplier PROVE GrowthIsFair
  BY <1>3, SyncBounds DEF GrowthIsFair
<1>4. CASE UNCHANGED vars
  BY <1>2, <1>4 DEF vars, acctVars, yieldVars
<1>5. ASSUME NEW signer, NEW authorities, NEW fee, Initialize(signer, authorities, fee)
      PROVE  GrowthIsFair
  BY <1>5 DEF Initialize, InitializeGlobal, GrowthIsFair
<1>6. ASSUME NEW signer, NEW other, NEW amount,
             Wrap(signer, other, amount) \/ Unwrap(signer, other, amount)
      PROVE  GrowthIsFair
  BY <1>3, <1>6 DEF Wrap, Unwrap
<1>7. ASSUME ClaimExcess PROVE GrowthIsFair
  BY <1>3, <1>7 DEF ClaimExcess
<1>8. ASSUME NEW signer, NEW fee, SetFee(signer, fee) PROVE GrowthIsFair
  BY <1>3, <1>8 DEF SetFee
<1>9. ASSUME Sync PROVE GrowthIsFair
  BY <1>3, <1>9 DEF Sync
<1>10. ASSUME Govern \/ Environment PROVE GrowthIsFair
  BY <1>2, <1>10
     DEF Govern, acctVars, yieldVars, Environment, PropagateIndex, SetVaultState, Donate,
         BurnExt
<1> QED
  BY <1>4, <1>5, <1>6, <1>7, <1>8, <1>9, <1>10, NextCases DEF Environment

(***************************************************************************)
(* No step of any behaviour pays holders more than M's growth since the    *)
(* last sync, takes anything back, or pays while the vault is frozen.      *)
(***************************************************************************)
THEOREM FairGrowthHolds == Spec => FairGrowth
BY FairGrowthStep, InductiveInvariant, PTL DEF Spec, FairGrowth

(***************************************************************************)
(* The single steps add up over any period, with all its syncs, fees and   *)
(* freezes: from the moment the indices are ext and m, the ext index never *)
(* grows by a larger factor than the M index, and never falls.             *)
(***************************************************************************)
GrownFairlyFrom(ext, m) ==
  /\ Initialized
  /\ ext <= last_ext_index
  /\ last_ext_index * m <= ext * last_m_index

\* Whatever program takes it, a fair step adds to a fair period.
LEMMA GrownFairlyStep ==
  ASSUME NEW ext \in Nat, NEW m \in Nat \ {0},
         IInv, IInv', GrownFairlyFrom(ext, m), [GrowthIsFair]_vars, Initialized'
  PROVE  GrownFairlyFrom(ext, m)'
<1> DEFINE e0 == last_ext_index
           e1 == last_ext_index'
           c0 == last_m_index
           c1 == last_m_index'
<1>1. /\ e0 \in Nat /\ e1 \in Nat /\ c0 \in Nat \ {0} /\ c1 \in Nat
  BY ScaleAssumption DEF IInv, MExtTypeOK, IndexOrder
<1>2. e1 * c0 <= e0 * c1 /\ e0 <= e1
  <2>1. CASE UNCHANGED vars
    BY <1>1, <2>1 DEF vars, acctVars, yieldVars
  <2>2. CASE GrowthIsFair
    BY <2>2 DEF GrowthIsFair, GrownFairlyFrom
  <2> QED
    BY <2>1, <2>2
<1>3. ext <= e0 /\ e0 * m <= ext * c0
  BY DEF GrownFairlyFrom
<1> HIDE DEF e0, e1, c0, c1
<1>4. m * e0 <= ext * c0
  BY <1>1, <1>3
<1>5. m * e1 <= ext * c1
  BY <1>1, <1>2, <1>4, GrowthKeepsBacking
<1>6. ext <= e1 /\ e1 * m <= ext * c1
  BY <1>1, <1>2, <1>3, <1>5
<1> QED
  BY <1>6 DEF GrownFairlyFrom, e1, c1

THEOREM FairOverAnyPeriod ==
  ASSUME NEW ext \in Nat, NEW m \in Nat \ {0}
  PROVE  Spec => [](Initialized /\ last_ext_index = ext /\ last_m_index = m
                      => []GrownFairlyFrom(ext, m))
<1>1. IInv /\ Initialized /\ last_ext_index = ext /\ last_m_index = m => GrownFairlyFrom(ext, m)
  BY DEF GrownFairlyFrom
<1>2. ASSUME IInv, IInv', GrownFairlyFrom(ext, m), [Next]_vars PROVE GrownFairlyFrom(ext, m)'
  BY <1>2, FairGrowthStep, StaysInitialized, GrownFairlyStep DEF GrownFairlyFrom
<1> QED
  BY <1>1, <1>2, InductiveInvariant, PTL DEF Spec

-----------------------------------------------------------------------------
\* No step but a claim mints with the vault unchanged, and a claim takes only excess.
LEMMA ClaimIsCoveredStep ==
  ASSUME IInv, [Next]_vars
  PROVE  ClaimIsCovered
<1>1. ext_supply \in Nat /\ vault_amount \in Nat
  BY MExtAssumption DEF IInv, MExtTypeOK
<1>2. ASSUME ext_supply' = ext_supply PROVE ClaimIsCovered
  BY <1>1, <1>2 DEF ClaimIsCovered
<1>3. CASE UNCHANGED vars
  BY <1>2, <1>3 DEF vars, acctVars
<1>4. ASSUME NEW signer, NEW authorities, NEW fee, Initialize(signer, authorities, fee)
      PROVE  ClaimIsCovered
  BY <1>2, <1>4 DEF Initialize
<1>5. ASSUME NEW signer, NEW other, NEW amount \in Amounts, Wrap(signer, other, amount)
      PROVE  ClaimIsCovered
  <2> DEFINE m == AmountToPrincipalDown(amount, MIndex)
  <2>1. m > 0 /\ vault_amount' = vault_amount + m
    BY <1>5 DEF Wrap
  <2>2. m \in Nat
    BY <1>5, SyncedFacts, PrincipalType DEF Wrap
  <2> HIDE DEF m
  <2>3. vault_amount' # vault_amount
    BY <1>1, <2>1, <2>2
  <2> QED
    BY <2>3 DEF ClaimIsCovered
<1>6. ASSUME NEW signer, NEW other, NEW amount \in Amounts, Unwrap(signer, other, amount)
      PROVE  ClaimIsCovered
  <2> DEFINE x == AmountToPrincipalDown(amount, SyncedExtIndex)
  <2>1. x > 0 /\ ext_supply' = ext_supply - x
    BY <1>6 DEF Unwrap
  <2>2. x \in Nat
    BY <1>6, SyncedFacts, PrincipalType DEF Unwrap
  <2> HIDE DEF x
  <2> QED
    BY <1>1, <2>1, <2>2 DEF ClaimIsCovered
<1>7. ASSUME ClaimExcess PROVE ClaimIsCovered
  <2>1. PICK x \in Nat : /\ ext_supply' = ext_supply + x
                         /\ (ext_supply + x) * SyncedExtIndex <= vault_amount * MIndex
    BY <1>7, ClaimMints
  <2>2. SyncedExtIndex = ExtIndex'
    BY <1>7, SyncedFacts DEF ClaimExcess
  <2> QED
    BY <2>1, <2>2 DEF ClaimIsCovered
<1>8. ASSUME NEW signer, NEW fee, SetFee(signer, fee) PROVE ClaimIsCovered
  BY <1>2, <1>8 DEF SetFee
<1>9. ASSUME Sync \/ Govern PROVE ClaimIsCovered
  BY <1>2, <1>9 DEF Sync, Govern, acctVars
<1>10. ASSUME Environment PROVE ClaimIsCovered
  <2>1. CASE BurnExt
    <3>1. ext_supply' = ext_supply - 1
      BY <2>1 DEF BurnExt
    <3> QED
      BY <1>1, <3>1 DEF ClaimIsCovered
  <2> QED
    BY <1>2, <1>10, <2>1 DEF Environment, PropagateIndex, SetVaultState, Donate
<1> QED
  BY <1>3, <1>4, <1>5, <1>6, <1>7, <1>8, <1>9, <1>10, NextCases DEF Environment

(***************************************************************************)
(* A step that mints without moving M leaves the vault worth the whole     *)
(* supply at M's index: claims take excess and nothing else.               *)
(***************************************************************************)
THEOREM ClaimsLeaveCollateralHolds == Spec => ClaimsLeaveCollateral
BY ClaimIsCoveredStep, InductiveInvariant, PTL DEF Spec, ClaimsLeaveCollateral
=============================================================================
