----------------------------- MODULE ExtSwap_proofs -----------------------------
(***************************************************************************)
(* What holds of the swap facility and the extensions it swaps between,    *)
(* for any scale, variants, fees, amounts and lists.                       *)
(*                                                                         *)
(* The argument: to each of its extensions the facility is one more        *)
(* caller, so that each of them behaves as MExt (ExtensionsBehave) and has *)
(* what MExt_proofs proves; the instances PX and PY carry those theorems   *)
(* over, once it is shown that they define the same steps as X and Y.  The *)
(* two calls of a swap move the principal of one and the same amount at    *)
(* M's index, which is the same in both (Movements).                       *)
(***************************************************************************)
EXTENDS ExtSwap, SwapGlobal_proofs

\* The theorems about MExt, of each of the two extensions.
PX == INSTANCE Promise_proofs WITH
  YieldVariant <- VariantX,
  admin <- x_admin, pending_admin <- x_pending_admin,
  wrap_authorities <- x_wrap_authorities, authority_slots <- x_authority_slots,
  claim_config <- x_claim_config, nominator <- x_nominator,
  vault_state <- x_vault_state, vault_amount <- x_vault_amount,
  ext_supply <- x_ext_supply, ext_multiplier <- x_ext_multiplier, fee_bps <- x_fee_bps,
  last_m_index <- x_last_m_index, last_ext_index <- x_last_ext_index,
  ops <- x_ops, stale_minted <- x_stale_minted

PY == INSTANCE Promise_proofs WITH
  YieldVariant <- VariantY,
  admin <- y_admin, pending_admin <- y_pending_admin,
  wrap_authorities <- y_wrap_authorities, authority_slots <- y_authority_slots,
  claim_config <- y_claim_config, nominator <- y_nominator,
  vault_state <- y_vault_state, vault_amount <- y_vault_amount,
  ext_supply <- y_ext_supply, ext_multiplier <- y_ext_multiplier, fee_bps <- y_fee_bps,
  last_m_index <- y_last_m_index, last_ext_index <- y_last_ext_index,
  ops <- y_ops, stale_minted <- y_stale_minted

-----------------------------------------------------------------------------
\* What MExt_proofs assumes holds of extension X.
LEMMA PXAssumptions ==
  /\ PX!ScaleAssumption /\ PX!PowfAssumption /\ PX!F64Assumption
  /\ PX!AccountsAssumption /\ PX!MExtAssumption
BY ExtensionsAssumption, SwapGlobalAssumption
DEF PX!ScaleAssumption, PX!PowfAssumption, PX!F64Assumption, PX!AccountsAssumption,
    PX!MExtAssumption,
    PX!MaxIndex, X!MaxIndex, PX!MultiplierToIndex, X!MultiplierToIndex, PX!IsFiniteSet, IsFiniteSet

\* PX and X are the same module of the same variables: both expand to the same formula.
LEMMA PXWrap ==
  ASSUME NEW s, NEW o, NEW a
  PROVE  PX!Wrap(s, o, a) <=> X!Wrap(s, o, a)
BY DEF PX!Wrap, X!Wrap, PX!Initialized, X!Initialized, PX!Permissioned, X!Permissioned,
       PX!AmountToPrincipalDown, X!AmountToPrincipalDown, PX!SyncedExtIndex,
       X!SyncedExtIndex, PX!StaleMinted, X!StaleMinted, PX!CeilDiv, X!CeilDiv, PX!govVars,
       X!govVars, PX!SyncIndex, X!SyncIndex, PX!ScaledUi, X!ScaledUi, PX!LatestIndexOk,
       X!LatestIndexOk, PX!MIndex, X!MIndex, PX!MultiplierToIndex, X!MultiplierToIndex,
       PX!ValidIndexInput, X!ValidIndexInput, PX!MaxIndex, X!MaxIndex, PX!LatestExtIndex,
       X!LatestExtIndex, PX!CalculateNewIndex, X!CalculateNewIndex, PX!MIncreaseFactor,
       X!MIncreaseFactor, PX!ExtIncreaseFactor, X!ExtIncreaseFactor, PX!RecordIndex,
       X!RecordIndex, PX!IndexToMultiplier, X!IndexToMultiplier

\* PX and X are the same module of the same variables: both expand to the same formula.
LEMMA PXUnwrap ==
  ASSUME NEW s, NEW o, NEW a
  PROVE  PX!Unwrap(s, o, a) <=> X!Unwrap(s, o, a)
BY DEF PX!Unwrap, X!Unwrap, PX!Initialized, X!Initialized, PX!Permissioned, X!Permissioned,
       PX!AmountToPrincipalDown, X!AmountToPrincipalDown, PX!SyncedExtIndex,
       X!SyncedExtIndex, PX!govVars, X!govVars, PX!SyncIndex, X!SyncIndex, PX!ScaledUi,
       X!ScaledUi, PX!LatestIndexOk, X!LatestIndexOk, PX!MIndex, X!MIndex,
       PX!MultiplierToIndex, X!MultiplierToIndex, PX!ValidIndexInput, X!ValidIndexInput,
       PX!MaxIndex, X!MaxIndex, PX!LatestExtIndex, X!LatestExtIndex, PX!CalculateNewIndex,
       X!CalculateNewIndex, PX!MIncreaseFactor, X!MIncreaseFactor, PX!ExtIncreaseFactor,
       X!ExtIncreaseFactor, PX!RecordIndex, X!RecordIndex, PX!IndexToMultiplier,
       X!IndexToMultiplier

\* So are all their steps.
LEMMA PXSteps == [PX!Next]_(PX!vars) <=> [X!Next]_(X!vars)
<1>1. PX!vars = X!vars /\ PX!vars' = X!vars'
  BY DEF PX!vars, X!vars, PX!acctVars, X!acctVars, PX!govVars, X!govVars, PX!yieldVars,
       X!yieldVars, PX!historyVars, X!historyVars
<1>2. PX!ClaimExcess <=> X!ClaimExcess
  BY DEF PX!ClaimExcess, X!ClaimExcess, PX!PrincipalToAmountUp, X!PrincipalToAmountUp,
       PX!PrincipalToAmountDown, X!PrincipalToAmountDown, PX!AmountToPrincipalDown,
       X!AmountToPrincipalDown, PX!SyncedExtIndex, X!SyncedExtIndex, PX!StaleMinted,
       X!StaleMinted, PX!CeilDiv, X!CeilDiv, PX!govVars, X!govVars, PX!SyncIndex,
       X!SyncIndex, PX!ScaledUi, X!ScaledUi, PX!LatestIndexOk, X!LatestIndexOk, PX!MIndex,
       X!MIndex, PX!MultiplierToIndex, X!MultiplierToIndex, PX!ValidIndexInput,
       X!ValidIndexInput, PX!MaxIndex, X!MaxIndex, PX!LatestExtIndex, X!LatestExtIndex,
       PX!CalculateNewIndex, X!CalculateNewIndex, PX!MIncreaseFactor, X!MIncreaseFactor,
       PX!ExtIncreaseFactor, X!ExtIncreaseFactor, PX!RecordIndex, X!RecordIndex,
       PX!IndexToMultiplier, X!IndexToMultiplier
<1>3. ASSUME NEW s, NEW o, NEW a PROVE PX!Initialize(s, o, a) <=> X!Initialize(s, o, a)
  BY DEF PX!Initialize, X!Initialize, PX!InitializeGlobal, X!InitializeGlobal,
       PX!Initialized, X!Initialized, PX!SlotsFor, X!SlotsFor, PX!Cardinality,
       X!Cardinality, PX!ValidFee, X!ValidFee, PX!LatestExtIndex, X!LatestExtIndex,
       PX!CalculateNewIndex, X!CalculateNewIndex, PX!MIncreaseFactor, X!MIncreaseFactor,
       PX!ExtIncreaseFactor, X!ExtIncreaseFactor, PX!IndexToMultiplier,
       X!IndexToMultiplier, PX!historyVars, X!historyVars, PX!ScaledUi, X!ScaledUi,
       PX!MIndex, X!MIndex, PX!MultiplierToIndex, X!MultiplierToIndex
<1>4. ASSUME NEW s, NEW a PROVE PX!SetFee(s, a) <=> X!SetFee(s, a)
  BY DEF PX!SetFee, X!SetFee, PX!IsAdmin, X!IsAdmin, PX!Initialized, X!Initialized,
       PX!ValidFee, X!ValidFee, PX!historyVars, X!historyVars, PX!govVars, X!govVars,
       PX!SyncIndex, X!SyncIndex, PX!ScaledUi, X!ScaledUi, PX!LatestIndexOk,
       X!LatestIndexOk, PX!MIndex, X!MIndex, PX!MultiplierToIndex, X!MultiplierToIndex,
       PX!ValidIndexInput, X!ValidIndexInput, PX!MaxIndex, X!MaxIndex, PX!LatestExtIndex,
       X!LatestExtIndex, PX!CalculateNewIndex, X!CalculateNewIndex, PX!MIncreaseFactor,
       X!MIncreaseFactor, PX!ExtIncreaseFactor, X!ExtIncreaseFactor, PX!RecordIndex,
       X!RecordIndex, PX!IndexToMultiplier, X!IndexToMultiplier
<1>5. PX!Sync <=> X!Sync
  BY DEF PX!Sync, X!Sync, PX!Initialized, X!Initialized, PX!historyVars, X!historyVars,
       PX!govVars, X!govVars, PX!SyncIndex, X!SyncIndex, PX!ScaledUi, X!ScaledUi,
       PX!LatestIndexOk, X!LatestIndexOk, PX!MIndex, X!MIndex, PX!MultiplierToIndex,
       X!MultiplierToIndex, PX!ValidIndexInput, X!ValidIndexInput, PX!MaxIndex, X!MaxIndex,
       PX!LatestExtIndex, X!LatestExtIndex, PX!CalculateNewIndex, X!CalculateNewIndex,
       PX!MIncreaseFactor, X!MIncreaseFactor, PX!ExtIncreaseFactor, X!ExtIncreaseFactor,
       PX!RecordIndex, X!RecordIndex, PX!IndexToMultiplier, X!IndexToMultiplier
<1>6. PX!Govern <=> X!Govern
  BY DEF PX!Govern, X!Govern, PX!GovStep, X!GovStep, PX!HasClaims, X!HasClaims, PX!acctVars,
       X!acctVars, PX!TransferAdmin, X!TransferAdmin, PX!AddWrapAuthority,
       X!AddWrapAuthority, PX!RoomForOneMore, X!RoomForOneMore, PX!SlotsFor, X!SlotsFor,
       PX!Cardinality, X!Cardinality, PX!RemoveWrapAuthority, X!RemoveWrapAuthority,
       PX!SetClaimConfig, X!SetClaimConfig, PX!AcceptAdmin, X!AcceptAdmin,
       PX!ClearNomination, X!ClearNomination, PX!RevokeAdminTransfer,
       X!RevokeAdminTransfer, PX!RemoveClaimConfig, X!RemoveClaimConfig, PX!IsAdmin,
       X!IsAdmin, PX!Initialized, X!Initialized, PX!yieldVars, X!yieldVars, PX!historyVars,
       X!historyVars
<1>7. ASSUME NEW a PROVE PX!PropagateIndex(a) <=> X!PropagateIndex(a)
  BY DEF PX!PropagateIndex, X!PropagateIndex, PX!govVars, X!govVars, PX!yieldVars,
       X!yieldVars, PX!historyVars, X!historyVars
<1>8. ASSUME NEW a PROVE PX!SetVaultState(a) <=> X!SetVaultState(a)
  BY DEF PX!SetVaultState, X!SetVaultState, PX!govVars, X!govVars, PX!yieldVars, X!yieldVars,
       PX!historyVars, X!historyVars
<1>9. PX!Donate <=> X!Donate
  BY DEF PX!Donate, X!Donate, PX!govVars, X!govVars, PX!yieldVars, X!yieldVars,
       PX!historyVars, X!historyVars
<1>10. PX!BurnExt <=> X!BurnExt
  BY DEF PX!BurnExt, X!BurnExt, PX!govVars, X!govVars, PX!yieldVars, X!yieldVars,
       PX!historyVars, X!historyVars
<1>11. PX!Environment <=> X!Environment
  BY <1>2, <1>3, <1>4, <1>5, <1>6, <1>7, <1>8, <1>9, <1>10 DEF PX!Environment, X!Environment
<1>12. PX!Operate <=> X!Operate
  BY PXWrap, PXUnwrap, <1>2, <1>3, <1>4, <1>5, <1>6, <1>7, <1>8, <1>9, <1>10
  DEF PX!Operate, X!Operate, PX!ClaimFees, X!ClaimFees, PX!ClaimFeesDelegated,
       X!ClaimFeesDelegated, PX!HasClaims, X!HasClaims, PX!IsAdmin, X!IsAdmin,
       PX!Initialized, X!Initialized
<1>13. PX!Next <=> X!Next
  BY <1>2, <1>3, <1>4, <1>5, <1>6, <1>7, <1>8, <1>9, <1>10, <1>11, <1>12 DEF PX!Next, X!Next, PX!Instruction, X!Instruction
<1> QED
  BY <1>1, <1>13

\* So are their initial states.
LEMMA PXInitial == PX!Init <=> X!Init
BY DEF PX!Init, X!Init, PX!GovInit, X!GovInit

-----------------------------------------------------------------------------
\* What MExt_proofs assumes holds of extension Y.
LEMMA PYAssumptions ==
  /\ PY!ScaleAssumption /\ PY!PowfAssumption /\ PY!F64Assumption
  /\ PY!AccountsAssumption /\ PY!MExtAssumption
BY ExtensionsAssumption, SwapGlobalAssumption
DEF PY!ScaleAssumption, PY!PowfAssumption, PY!F64Assumption, PY!AccountsAssumption,
    PY!MExtAssumption,
    PY!MaxIndex, X!MaxIndex, PY!MultiplierToIndex, X!MultiplierToIndex, PY!IsFiniteSet, IsFiniteSet

\* PY and Y are the same module of the same variables: both expand to the same formula.
LEMMA PYWrap ==
  ASSUME NEW s, NEW o, NEW a
  PROVE  PY!Wrap(s, o, a) <=> Y!Wrap(s, o, a)
BY DEF PY!Wrap, Y!Wrap, PY!Initialized, Y!Initialized, PY!Permissioned, Y!Permissioned,
       PY!AmountToPrincipalDown, Y!AmountToPrincipalDown, PY!SyncedExtIndex,
       Y!SyncedExtIndex, PY!StaleMinted, Y!StaleMinted, PY!CeilDiv, Y!CeilDiv, PY!govVars,
       Y!govVars, PY!SyncIndex, Y!SyncIndex, PY!ScaledUi, Y!ScaledUi, PY!LatestIndexOk,
       Y!LatestIndexOk, PY!MIndex, Y!MIndex, PY!MultiplierToIndex, Y!MultiplierToIndex,
       PY!ValidIndexInput, Y!ValidIndexInput, PY!MaxIndex, Y!MaxIndex, PY!LatestExtIndex,
       Y!LatestExtIndex, PY!CalculateNewIndex, Y!CalculateNewIndex, PY!MIncreaseFactor,
       Y!MIncreaseFactor, PY!ExtIncreaseFactor, Y!ExtIncreaseFactor, PY!RecordIndex,
       Y!RecordIndex, PY!IndexToMultiplier, Y!IndexToMultiplier

\* PY and Y are the same module of the same variables: both expand to the same formula.
LEMMA PYUnwrap ==
  ASSUME NEW s, NEW o, NEW a
  PROVE  PY!Unwrap(s, o, a) <=> Y!Unwrap(s, o, a)
BY DEF PY!Unwrap, Y!Unwrap, PY!Initialized, Y!Initialized, PY!Permissioned, Y!Permissioned,
       PY!AmountToPrincipalDown, Y!AmountToPrincipalDown, PY!SyncedExtIndex,
       Y!SyncedExtIndex, PY!govVars, Y!govVars, PY!SyncIndex, Y!SyncIndex, PY!ScaledUi,
       Y!ScaledUi, PY!LatestIndexOk, Y!LatestIndexOk, PY!MIndex, Y!MIndex,
       PY!MultiplierToIndex, Y!MultiplierToIndex, PY!ValidIndexInput, Y!ValidIndexInput,
       PY!MaxIndex, Y!MaxIndex, PY!LatestExtIndex, Y!LatestExtIndex, PY!CalculateNewIndex,
       Y!CalculateNewIndex, PY!MIncreaseFactor, Y!MIncreaseFactor, PY!ExtIncreaseFactor,
       Y!ExtIncreaseFactor, PY!RecordIndex, Y!RecordIndex, PY!IndexToMultiplier,
       Y!IndexToMultiplier

\* So are all their steps.
LEMMA PYSteps == [PY!Next]_(PY!vars) <=> [Y!Next]_(Y!vars)
<1>1. PY!vars = Y!vars /\ PY!vars' = Y!vars'
  BY DEF PY!vars, Y!vars, PY!acctVars, Y!acctVars, PY!govVars, Y!govVars, PY!yieldVars,
       Y!yieldVars, PY!historyVars, Y!historyVars
<1>2. PY!ClaimExcess <=> Y!ClaimExcess
  BY DEF PY!ClaimExcess, Y!ClaimExcess, PY!PrincipalToAmountUp, Y!PrincipalToAmountUp,
       PY!PrincipalToAmountDown, Y!PrincipalToAmountDown, PY!AmountToPrincipalDown,
       Y!AmountToPrincipalDown, PY!SyncedExtIndex, Y!SyncedExtIndex, PY!StaleMinted,
       Y!StaleMinted, PY!CeilDiv, Y!CeilDiv, PY!govVars, Y!govVars, PY!SyncIndex,
       Y!SyncIndex, PY!ScaledUi, Y!ScaledUi, PY!LatestIndexOk, Y!LatestIndexOk, PY!MIndex,
       Y!MIndex, PY!MultiplierToIndex, Y!MultiplierToIndex, PY!ValidIndexInput,
       Y!ValidIndexInput, PY!MaxIndex, Y!MaxIndex, PY!LatestExtIndex, Y!LatestExtIndex,
       PY!CalculateNewIndex, Y!CalculateNewIndex, PY!MIncreaseFactor, Y!MIncreaseFactor,
       PY!ExtIncreaseFactor, Y!ExtIncreaseFactor, PY!RecordIndex, Y!RecordIndex,
       PY!IndexToMultiplier, Y!IndexToMultiplier
<1>3. ASSUME NEW s, NEW o, NEW a PROVE PY!Initialize(s, o, a) <=> Y!Initialize(s, o, a)
  BY DEF PY!Initialize, Y!Initialize, PY!InitializeGlobal, Y!InitializeGlobal,
       PY!Initialized, Y!Initialized, PY!SlotsFor, Y!SlotsFor, PY!Cardinality,
       Y!Cardinality, PY!ValidFee, Y!ValidFee, PY!LatestExtIndex, Y!LatestExtIndex,
       PY!CalculateNewIndex, Y!CalculateNewIndex, PY!MIncreaseFactor, Y!MIncreaseFactor,
       PY!ExtIncreaseFactor, Y!ExtIncreaseFactor, PY!IndexToMultiplier,
       Y!IndexToMultiplier, PY!historyVars, Y!historyVars, PY!ScaledUi, Y!ScaledUi,
       PY!MIndex, Y!MIndex, PY!MultiplierToIndex, Y!MultiplierToIndex
<1>4. ASSUME NEW s, NEW a PROVE PY!SetFee(s, a) <=> Y!SetFee(s, a)
  BY DEF PY!SetFee, Y!SetFee, PY!IsAdmin, Y!IsAdmin, PY!Initialized, Y!Initialized,
       PY!ValidFee, Y!ValidFee, PY!historyVars, Y!historyVars, PY!govVars, Y!govVars,
       PY!SyncIndex, Y!SyncIndex, PY!ScaledUi, Y!ScaledUi, PY!LatestIndexOk,
       Y!LatestIndexOk, PY!MIndex, Y!MIndex, PY!MultiplierToIndex, Y!MultiplierToIndex,
       PY!ValidIndexInput, Y!ValidIndexInput, PY!MaxIndex, Y!MaxIndex, PY!LatestExtIndex,
       Y!LatestExtIndex, PY!CalculateNewIndex, Y!CalculateNewIndex, PY!MIncreaseFactor,
       Y!MIncreaseFactor, PY!ExtIncreaseFactor, Y!ExtIncreaseFactor, PY!RecordIndex,
       Y!RecordIndex, PY!IndexToMultiplier, Y!IndexToMultiplier
<1>5. PY!Sync <=> Y!Sync
  BY DEF PY!Sync, Y!Sync, PY!Initialized, Y!Initialized, PY!historyVars, Y!historyVars,
       PY!govVars, Y!govVars, PY!SyncIndex, Y!SyncIndex, PY!ScaledUi, Y!ScaledUi,
       PY!LatestIndexOk, Y!LatestIndexOk, PY!MIndex, Y!MIndex, PY!MultiplierToIndex,
       Y!MultiplierToIndex, PY!ValidIndexInput, Y!ValidIndexInput, PY!MaxIndex, Y!MaxIndex,
       PY!LatestExtIndex, Y!LatestExtIndex, PY!CalculateNewIndex, Y!CalculateNewIndex,
       PY!MIncreaseFactor, Y!MIncreaseFactor, PY!ExtIncreaseFactor, Y!ExtIncreaseFactor,
       PY!RecordIndex, Y!RecordIndex, PY!IndexToMultiplier, Y!IndexToMultiplier
<1>6. PY!Govern <=> Y!Govern
  BY DEF PY!Govern, Y!Govern, PY!GovStep, Y!GovStep, PY!HasClaims, Y!HasClaims, PY!acctVars,
       Y!acctVars, PY!TransferAdmin, Y!TransferAdmin, PY!AddWrapAuthority,
       Y!AddWrapAuthority, PY!RoomForOneMore, Y!RoomForOneMore, PY!SlotsFor, Y!SlotsFor,
       PY!Cardinality, Y!Cardinality, PY!RemoveWrapAuthority, Y!RemoveWrapAuthority,
       PY!SetClaimConfig, Y!SetClaimConfig, PY!AcceptAdmin, Y!AcceptAdmin,
       PY!ClearNomination, Y!ClearNomination, PY!RevokeAdminTransfer,
       Y!RevokeAdminTransfer, PY!RemoveClaimConfig, Y!RemoveClaimConfig, PY!IsAdmin,
       Y!IsAdmin, PY!Initialized, Y!Initialized, PY!yieldVars, Y!yieldVars, PY!historyVars,
       Y!historyVars
<1>7. ASSUME NEW a PROVE PY!PropagateIndex(a) <=> Y!PropagateIndex(a)
  BY DEF PY!PropagateIndex, Y!PropagateIndex, PY!govVars, Y!govVars, PY!yieldVars,
       Y!yieldVars, PY!historyVars, Y!historyVars
<1>8. ASSUME NEW a PROVE PY!SetVaultState(a) <=> Y!SetVaultState(a)
  BY DEF PY!SetVaultState, Y!SetVaultState, PY!govVars, Y!govVars, PY!yieldVars, Y!yieldVars,
       PY!historyVars, Y!historyVars
<1>9. PY!Donate <=> Y!Donate
  BY DEF PY!Donate, Y!Donate, PY!govVars, Y!govVars, PY!yieldVars, Y!yieldVars,
       PY!historyVars, Y!historyVars
<1>10. PY!BurnExt <=> Y!BurnExt
  BY DEF PY!BurnExt, Y!BurnExt, PY!govVars, Y!govVars, PY!yieldVars, Y!yieldVars,
       PY!historyVars, Y!historyVars
<1>11. PY!Environment <=> Y!Environment
  BY <1>2, <1>3, <1>4, <1>5, <1>6, <1>7, <1>8, <1>9, <1>10 DEF PY!Environment, Y!Environment
<1>12. PY!Operate <=> Y!Operate
  BY PYWrap, PYUnwrap, <1>2, <1>3, <1>4, <1>5, <1>6, <1>7, <1>8, <1>9, <1>10
  DEF PY!Operate, Y!Operate, PY!ClaimFees, Y!ClaimFees, PY!ClaimFeesDelegated,
       Y!ClaimFeesDelegated, PY!HasClaims, Y!HasClaims, PY!IsAdmin, Y!IsAdmin,
       PY!Initialized, Y!Initialized
<1>13. PY!Next <=> Y!Next
  BY <1>2, <1>3, <1>4, <1>5, <1>6, <1>7, <1>8, <1>9, <1>10, <1>11, <1>12 DEF PY!Next, Y!Next, PY!Instruction, Y!Instruction
<1> QED
  BY <1>1, <1>13

\* So are their initial states.
LEMMA PYInitial == PY!Init <=> Y!Init
BY DEF PY!Init, Y!Init, PY!GovInit, Y!GovInit

-----------------------------------------------------------------------------
\* The M principal of an amount, at the index both extensions read.
Principal(amount) == (amount * INDEX_SCALE) \div (m_multiplier \div MULTIPLIER_GRAIN)

\* What a wrap of extension X moves.
LEMMA XWrapMoves ==
  ASSUME PX!IInv, NEW s, NEW o, NEW amount \in Amounts, X!Wrap(s, o, amount)
  PROVE  /\ UNCHANGED m_multiplier
         /\ Principal(amount) \in Nat \ {0}
         /\ x_vault_amount' = x_vault_amount + Principal(amount)
         /\ amount \in Nat /\ X!ExtIndex' \in Nat \ {0}
         /\ PX!AmountToPrincipalDown(amount, X!ExtIndex') \in Nat \ {0}
         /\ x_ext_supply' = x_ext_supply + PX!AmountToPrincipalDown(amount, X!ExtIndex')
<1>1. PX!Wrap(s, o, amount)
  BY PXWrap
<1>2. PX!SyncIndex /\ UNCHANGED m_multiplier
  BY <1>1 DEF PX!Wrap
<1>3. /\ PX!MIndex \in Nat \ {0} /\ PX!SyncedExtIndex \in Nat \ {0}
      /\ PX!SyncedExtIndex = PX!ExtIndex' /\ Amounts \subseteq Nat
  BY <1>2, PXAssumptions, PX!SyncedFacts
<1>4. amount \in Nat
  BY <1>3
<1> DEFINE m == PX!AmountToPrincipalDown(amount, PX!MIndex)
           b == PX!AmountToPrincipalDown(amount, PX!SyncedExtIndex)
<1>5. m \in Nat /\ b \in Nat
  BY <1>3, <1>4, PXAssumptions, PX!PrincipalType
<1>6. /\ m > 0 /\ b > 0
      /\ x_vault_amount' = x_vault_amount + m /\ x_ext_supply' = x_ext_supply + b
  BY <1>1 DEF PX!Wrap
<1>7. m = Principal(amount)
  BY DEF Principal, PX!AmountToPrincipalDown, PX!MIndex, PX!MultiplierToIndex
<1>8. PX!ExtIndex' = X!ExtIndex'
  BY DEF PX!ExtIndex, X!ExtIndex, PX!ScaledUi, X!ScaledUi
<1> HIDE DEF m
<1>9. b = PX!AmountToPrincipalDown(amount, X!ExtIndex')
  BY <1>3, <1>8
<1> HIDE DEF b
<1> QED
  BY <1>2, <1>3, <1>4, <1>5, <1>6, <1>7, <1>8, <1>9

\* What an unwrap of extension X moves.
LEMMA XUnwrapMoves ==
  ASSUME PX!IInv, NEW s, NEW o, NEW amount \in Amounts, X!Unwrap(s, o, amount)
  PROVE  /\ UNCHANGED m_multiplier
         /\ Principal(amount) \in Nat \ {0}
         /\ x_vault_amount' = x_vault_amount - Principal(amount)
         /\ amount \in Nat /\ X!ExtIndex' \in Nat \ {0}
         /\ PX!AmountToPrincipalDown(amount, X!ExtIndex') \in Nat \ {0}
         /\ x_ext_supply' = x_ext_supply - PX!AmountToPrincipalDown(amount, X!ExtIndex')
<1>1. PX!Unwrap(s, o, amount)
  BY PXUnwrap
<1>2. PX!SyncIndex /\ UNCHANGED m_multiplier
  BY <1>1 DEF PX!Unwrap
<1>3. /\ PX!MIndex \in Nat \ {0} /\ PX!SyncedExtIndex \in Nat \ {0}
      /\ PX!SyncedExtIndex = PX!ExtIndex' /\ Amounts \subseteq Nat
  BY <1>2, PXAssumptions, PX!SyncedFacts
<1>4. amount \in Nat
  BY <1>3
<1> DEFINE m == PX!AmountToPrincipalDown(amount, PX!MIndex)
           b == PX!AmountToPrincipalDown(amount, PX!SyncedExtIndex)
<1>5. m \in Nat /\ b \in Nat
  BY <1>3, <1>4, PXAssumptions, PX!PrincipalType
<1>6. /\ m > 0 /\ b > 0
      /\ x_vault_amount' = x_vault_amount - m /\ x_ext_supply' = x_ext_supply - b
  BY <1>1 DEF PX!Unwrap
<1>7. m = Principal(amount)
  BY DEF Principal, PX!AmountToPrincipalDown, PX!MIndex, PX!MultiplierToIndex
<1>8. PX!ExtIndex' = X!ExtIndex'
  BY DEF PX!ExtIndex, X!ExtIndex, PX!ScaledUi, X!ScaledUi
<1> HIDE DEF m
<1>9. b = PX!AmountToPrincipalDown(amount, X!ExtIndex')
  BY <1>3, <1>8
<1> HIDE DEF b
<1> QED
  BY <1>2, <1>3, <1>4, <1>5, <1>6, <1>7, <1>8, <1>9

\* What a wrap of extension Y moves.
LEMMA YWrapMoves ==
  ASSUME PY!IInv, NEW s, NEW o, NEW amount \in Amounts, Y!Wrap(s, o, amount)
  PROVE  /\ UNCHANGED m_multiplier
         /\ Principal(amount) \in Nat \ {0}
         /\ y_vault_amount' = y_vault_amount + Principal(amount)
         /\ amount \in Nat /\ Y!ExtIndex' \in Nat \ {0}
         /\ PY!AmountToPrincipalDown(amount, Y!ExtIndex') \in Nat \ {0}
         /\ y_ext_supply' = y_ext_supply + PY!AmountToPrincipalDown(amount, Y!ExtIndex')
<1>1. PY!Wrap(s, o, amount)
  BY PYWrap
<1>2. PY!SyncIndex /\ UNCHANGED m_multiplier
  BY <1>1 DEF PY!Wrap
<1>3. /\ PY!MIndex \in Nat \ {0} /\ PY!SyncedExtIndex \in Nat \ {0}
      /\ PY!SyncedExtIndex = PY!ExtIndex' /\ Amounts \subseteq Nat
  BY <1>2, PYAssumptions, PY!SyncedFacts
<1>4. amount \in Nat
  BY <1>3
<1> DEFINE m == PY!AmountToPrincipalDown(amount, PY!MIndex)
           b == PY!AmountToPrincipalDown(amount, PY!SyncedExtIndex)
<1>5. m \in Nat /\ b \in Nat
  BY <1>3, <1>4, PYAssumptions, PY!PrincipalType
<1>6. /\ m > 0 /\ b > 0
      /\ y_vault_amount' = y_vault_amount + m /\ y_ext_supply' = y_ext_supply + b
  BY <1>1 DEF PY!Wrap
<1>7. m = Principal(amount)
  BY DEF Principal, PY!AmountToPrincipalDown, PY!MIndex, PY!MultiplierToIndex
<1>8. PY!ExtIndex' = Y!ExtIndex'
  BY DEF PY!ExtIndex, Y!ExtIndex, PY!ScaledUi, Y!ScaledUi
<1> HIDE DEF m
<1>9. b = PY!AmountToPrincipalDown(amount, Y!ExtIndex')
  BY <1>3, <1>8
<1> HIDE DEF b
<1> QED
  BY <1>2, <1>3, <1>4, <1>5, <1>6, <1>7, <1>8, <1>9

\* What an unwrap of extension Y moves.
LEMMA YUnwrapMoves ==
  ASSUME PY!IInv, NEW s, NEW o, NEW amount \in Amounts, Y!Unwrap(s, o, amount)
  PROVE  /\ UNCHANGED m_multiplier
         /\ Principal(amount) \in Nat \ {0}
         /\ y_vault_amount' = y_vault_amount - Principal(amount)
         /\ amount \in Nat /\ Y!ExtIndex' \in Nat \ {0}
         /\ PY!AmountToPrincipalDown(amount, Y!ExtIndex') \in Nat \ {0}
         /\ y_ext_supply' = y_ext_supply - PY!AmountToPrincipalDown(amount, Y!ExtIndex')
<1>1. PY!Unwrap(s, o, amount)
  BY PYUnwrap
<1>2. PY!SyncIndex /\ UNCHANGED m_multiplier
  BY <1>1 DEF PY!Unwrap
<1>3. /\ PY!MIndex \in Nat \ {0} /\ PY!SyncedExtIndex \in Nat \ {0}
      /\ PY!SyncedExtIndex = PY!ExtIndex' /\ Amounts \subseteq Nat
  BY <1>2, PYAssumptions, PY!SyncedFacts
<1>4. amount \in Nat
  BY <1>3
<1> DEFINE m == PY!AmountToPrincipalDown(amount, PY!MIndex)
           b == PY!AmountToPrincipalDown(amount, PY!SyncedExtIndex)
<1>5. m \in Nat /\ b \in Nat
  BY <1>3, <1>4, PYAssumptions, PY!PrincipalType
<1>6. /\ m > 0 /\ b > 0
      /\ y_vault_amount' = y_vault_amount - m /\ y_ext_supply' = y_ext_supply - b
  BY <1>1 DEF PY!Unwrap
<1>7. m = Principal(amount)
  BY DEF Principal, PY!AmountToPrincipalDown, PY!MIndex, PY!MultiplierToIndex
<1>8. PY!ExtIndex' = Y!ExtIndex'
  BY DEF PY!ExtIndex, Y!ExtIndex, PY!ScaledUi, Y!ScaledUi
<1> HIDE DEF m
<1>9. b = PY!AmountToPrincipalDown(amount, Y!ExtIndex')
  BY <1>3, <1>8
<1> HIDE DEF b
<1> QED
  BY <1>2, <1>3, <1>4, <1>5, <1>6, <1>7, <1>8, <1>9

\* Whatever the facility and the other extension do, X takes a step of MExt or none.
LEMMA XBehaves ==
  ASSUME [Next]_vars
  PROVE  [X!Next]_(X!vars)
<1>1. ASSUME UNCHANGED xVars, UNCHANGED m_multiplier PROVE UNCHANGED X!vars
  BY <1>1
  DEF xVars, xGovVars, xAcctVars, X!vars, X!govVars, X!acctVars, X!yieldVars,
      X!historyVars
<1>2. ASSUME NEW s \in Accounts, NEW o \in Accounts \cup {None}, NEW amount \in Amounts,
             X!Wrap(s, o, amount) \/ X!Unwrap(s, o, amount)
      PROVE  X!Next
  BY <1>2 DEF X!Next, X!Instruction, X!Operate
<1>3. ASSUME NEW s, NEW o, NEW amount, Y!Wrap(s, o, amount) \/ Y!Unwrap(s, o, amount)
      PROVE  UNCHANGED m_multiplier
  BY <1>3 DEF Y!Wrap, Y!Unwrap
<1>4. CASE UseFacility
  <2>1. PICK signer \in Signers, amount \in Amounts, program \in {ProgramX, ProgramY},
             authority \in Signers \cup {None} :
          \/ SwapWrap(signer, program, authority, amount)
          \/ SwapUnwrap(signer, program, authority, amount)
          \/ \E wrap_authority \in Signers \cup {None} :
               Swap(signer, program, Other(program), authority, wrap_authority, amount)
    BY <1>4 DEF UseFacility
  <2>2. /\ signer \in Accounts /\ Facility \in Accounts
        /\ \A key \in Signers \cup {None} : SignedBy(key) \in Accounts \cup {None}
        /\ ProgramX # ProgramY
    BY ExtSwapAssumption DEF Signers, SignedBy
  <2>3. CASE SwapWrap(signer, program, authority, amount)
    <3>1. CASE program = ProgramX
      <4>1. X!Wrap(signer, SignedBy(authority), amount)
        BY <2>2, <2>3, <3>1 DEF SwapWrap, ExtWrap
      <4> QED
        BY <1>2, <2>2, <4>1
    <3>2. CASE program = ProgramY
      <4>1. Y!Wrap(signer, SignedBy(authority), amount) /\ UNCHANGED xVars
        BY <2>2, <2>3, <3>2 DEF SwapWrap, ExtWrap, NotCalled, Other
      <4> QED
        BY <1>1, <1>3, <4>1
    <3> QED
      BY <3>1, <3>2
  <2>4. CASE SwapUnwrap(signer, program, authority, amount)
    <3>1. CASE program = ProgramX
      <4>1. X!Unwrap(signer, SignedBy(authority), amount)
        BY <2>2, <2>4, <3>1 DEF SwapUnwrap, ExtUnwrap
      <4> QED
        BY <1>2, <2>2, <4>1
    <3>2. CASE program = ProgramY
      <4>1. Y!Unwrap(signer, SignedBy(authority), amount) /\ UNCHANGED xVars
        BY <2>2, <2>4, <3>2 DEF SwapUnwrap, ExtUnwrap, NotCalled, Other
      <4> QED
        BY <1>1, <1>3, <4>1
    <3> QED
      BY <3>1, <3>2
  <2>5. ASSUME NEW wrap_authority \in Signers \cup {None},
               Swap(signer, program, Other(program), authority, wrap_authority, amount)
        PROVE  X!Next
    <3>1. CASE program = ProgramX
      <4>1. X!Unwrap(signer, SignedBy(authority), amount)
        BY <2>2, <2>5, <3>1 DEF Swap, ExtUnwrap
      <4> QED
        BY <1>2, <2>2, <4>1
    <3>2. CASE program = ProgramY
      <4>1. X!Wrap(Facility, SignedBy(wrap_authority), amount)
        BY <2>2, <2>5, <3>2 DEF Swap, ExtWrap, Other, WrappedAmount
      <4> QED
        BY <1>2, <2>2, <4>1
    <3> QED
      BY <3>1, <3>2
  <2> QED
    BY <2>1, <2>3, <2>4, <2>5
<1>5. CASE AdministerFacility
  BY <1>1, <1>5 DEF AdministerFacility
<1>6. CASE UseX
  <2>1. Signers \subseteq Accounts /\ Permittable \subseteq Accounts
        /\ AuthorityLists \subseteq SUBSET Accounts
    BY ExtSwapAssumption DEF Signers
  <2>2. ASSUME NEW signer \in Signers, NEW other \in Signers \cup {None}, NEW amount \in Amounts,
               X!Wrap(signer, other, amount)
        PROVE  X!Next
    BY <1>2, <2>1, <2>2
  <2>3. ASSUME NEW signer \in Signers, X!ClaimFees(signer) PROVE X!Next
    BY <2>1, <2>3 DEF X!Next, X!Instruction, X!Operate
  <2>4. ASSUME NEW signer \in Signers, NEW fee \in Fees, X!SetFee(signer, fee) PROVE X!Next
    BY <2>1, <2>4 DEF X!Next, X!Instruction, X!Operate
  <2>5. ASSUME NEW signer \in Signers, NEW authorities \in AuthorityLists, NEW fee \in Fees,
               X!Initialize(signer, authorities, fee)
        PROVE  X!Next
    BY <2>1, <2>5 DEF X!Next, X!Instruction
  <2>6. ASSUME NEW signer \in Signers, NEW account \in Permittable,
               X!AddWrapAuthority(signer, account) \/ X!RemoveWrapAuthority(signer, account),
               UNCHANGED <<m_multiplier, xAcctVars>>
        PROVE  X!Next
    <3>1. signer \in Accounts /\ account \in Accounts
      BY <2>1
    <3>2. X!GovStep
      BY <2>6, <3>1 DEF X!GovStep
    <3>3. UNCHANGED X!acctVars /\ UNCHANGED x_claim_config
      BY <2>6
      DEF xAcctVars, X!acctVars, X!yieldVars, X!historyVars, X!AddWrapAuthority,
          X!RemoveWrapAuthority
    <3>4. X!Govern
      BY <3>2, <3>3 DEF X!Govern
    <3> QED
      BY <3>4 DEF X!Next, X!Instruction, X!Operate
  <2>7. ASSUME X!Sync PROVE X!Next
    BY <2>7 DEF X!Next, X!Instruction, X!Operate
  <2>8. ASSUME \/ \E state \in {"Initialized", "Frozen"} : X!SetVaultState(state)
               \/ X!Donate
               \/ X!BurnExt
        PROVE  X!Next
    BY <2>8 DEF X!Next, X!Environment
  <2> QED
    BY <1>6, <2>2, <2>3, <2>4, <2>5, <2>6, <2>7, <2>8 DEF UseX
<1>7. CASE UseY /\ UNCHANGED xVars
  <2>1. UNCHANGED m_multiplier
    BY <1>7
    DEF UseY, Y!Wrap, Y!ClaimFees, Y!ClaimExcess, Y!SetFee, Y!Initialize,
        Y!Sync, Y!SetVaultState, Y!Donate, Y!BurnExt
  <2> QED
    BY <1>1, <1>7, <2>1
<1>8. CASE UnwrapDirectly
  <2>1. PICK signer \in Signers, other \in Signers \cup {None}, amount \in Amounts :
          \/ X!Unwrap(signer, other, amount)
          \/ Y!Unwrap(signer, other, amount) /\ UNCHANGED xVars
    BY <1>8 DEF UnwrapDirectly
  <2>2. signer \in Accounts /\ other \in Accounts \cup {None}
    BY DEF Signers
  <2>3. CASE X!Unwrap(signer, other, amount)
    BY <1>2, <2>2, <2>3
  <2>4. CASE Y!Unwrap(signer, other, amount) /\ UNCHANGED xVars
    BY <1>1, <1>3, <2>4
  <2> QED
    BY <2>1, <2>3, <2>4
<1>9. CASE PropagateToBoth
  BY <1>9 DEF PropagateToBoth, X!Next, X!Environment
<1>10. CASE DonateToFacility
  BY <1>1, <1>10 DEF DonateToFacility
<1>11. CASE UNCHANGED vars
  BY <1>1, <1>11 DEF vars
<1> QED
  BY <1>4, <1>5, <1>6, <1>7, <1>8, <1>9, <1>10, <1>11 DEF Next, UseExtension

\* Whatever the facility and the other extension do, Y takes a step of MExt or none.
LEMMA YBehaves ==
  ASSUME [Next]_vars
  PROVE  [Y!Next]_(Y!vars)
<1>1. ASSUME UNCHANGED yVars, UNCHANGED m_multiplier PROVE UNCHANGED Y!vars
  BY <1>1
  DEF yVars, yGovVars, yAcctVars, Y!vars, Y!govVars, Y!acctVars, Y!yieldVars,
      Y!historyVars
<1>2. ASSUME NEW s \in Accounts, NEW o \in Accounts \cup {None}, NEW amount \in Amounts,
             Y!Wrap(s, o, amount) \/ Y!Unwrap(s, o, amount)
      PROVE  Y!Next
  BY <1>2 DEF Y!Next, Y!Instruction, Y!Operate
<1>3. ASSUME NEW s, NEW o, NEW amount, X!Wrap(s, o, amount) \/ X!Unwrap(s, o, amount)
      PROVE  UNCHANGED m_multiplier
  BY <1>3 DEF X!Wrap, X!Unwrap
<1>4. CASE UseFacility
  <2>1. PICK signer \in Signers, amount \in Amounts, program \in {ProgramX, ProgramY},
             authority \in Signers \cup {None} :
          \/ SwapWrap(signer, program, authority, amount)
          \/ SwapUnwrap(signer, program, authority, amount)
          \/ \E wrap_authority \in Signers \cup {None} :
               Swap(signer, program, Other(program), authority, wrap_authority, amount)
    BY <1>4 DEF UseFacility
  <2>2. /\ signer \in Accounts /\ Facility \in Accounts
        /\ \A key \in Signers \cup {None} : SignedBy(key) \in Accounts \cup {None}
        /\ ProgramX # ProgramY
    BY ExtSwapAssumption DEF Signers, SignedBy
  <2>3. CASE SwapWrap(signer, program, authority, amount)
    <3>1. CASE program = ProgramY
      <4>1. Y!Wrap(signer, SignedBy(authority), amount)
        BY <2>2, <2>3, <3>1 DEF SwapWrap, ExtWrap
      <4> QED
        BY <1>2, <2>2, <4>1
    <3>2. CASE program = ProgramX
      <4>1. X!Wrap(signer, SignedBy(authority), amount) /\ UNCHANGED yVars
        BY <2>2, <2>3, <3>2 DEF SwapWrap, ExtWrap, NotCalled, Other
      <4> QED
        BY <1>1, <1>3, <4>1
    <3> QED
      BY <3>1, <3>2
  <2>4. CASE SwapUnwrap(signer, program, authority, amount)
    <3>1. CASE program = ProgramY
      <4>1. Y!Unwrap(signer, SignedBy(authority), amount)
        BY <2>2, <2>4, <3>1 DEF SwapUnwrap, ExtUnwrap
      <4> QED
        BY <1>2, <2>2, <4>1
    <3>2. CASE program = ProgramX
      <4>1. X!Unwrap(signer, SignedBy(authority), amount) /\ UNCHANGED yVars
        BY <2>2, <2>4, <3>2 DEF SwapUnwrap, ExtUnwrap, NotCalled, Other
      <4> QED
        BY <1>1, <1>3, <4>1
    <3> QED
      BY <3>1, <3>2
  <2>5. ASSUME NEW wrap_authority \in Signers \cup {None},
               Swap(signer, program, Other(program), authority, wrap_authority, amount)
        PROVE  Y!Next
    <3>1. CASE program = ProgramY
      <4>1. Y!Unwrap(signer, SignedBy(authority), amount)
        BY <2>2, <2>5, <3>1 DEF Swap, ExtUnwrap
      <4> QED
        BY <1>2, <2>2, <4>1
    <3>2. CASE program = ProgramX
      <4>1. Y!Wrap(Facility, SignedBy(wrap_authority), amount)
        BY <2>2, <2>5, <3>2 DEF Swap, ExtWrap, Other, WrappedAmount
      <4> QED
        BY <1>2, <2>2, <4>1
    <3> QED
      BY <3>1, <3>2
  <2> QED
    BY <2>1, <2>3, <2>4, <2>5
<1>5. CASE AdministerFacility
  BY <1>1, <1>5 DEF AdministerFacility
<1>6. CASE UseY
  <2>1. Signers \subseteq Accounts /\ Permittable \subseteq Accounts
        /\ AuthorityLists \subseteq SUBSET Accounts
    BY ExtSwapAssumption DEF Signers
  <2>2. ASSUME NEW signer \in Signers, NEW other \in Signers \cup {None}, NEW amount \in Amounts,
               Y!Wrap(signer, other, amount)
        PROVE  Y!Next
    BY <1>2, <2>1, <2>2
  <2>3. ASSUME NEW signer \in Signers, Y!ClaimFees(signer) PROVE Y!Next
    BY <2>1, <2>3 DEF Y!Next, Y!Instruction, Y!Operate
  <2>4. ASSUME NEW signer \in Signers, NEW fee \in Fees, Y!SetFee(signer, fee) PROVE Y!Next
    BY <2>1, <2>4 DEF Y!Next, Y!Instruction, Y!Operate
  <2>5. ASSUME NEW signer \in Signers, NEW authorities \in AuthorityLists, NEW fee \in Fees,
               Y!Initialize(signer, authorities, fee)
        PROVE  Y!Next
    BY <2>1, <2>5 DEF Y!Next, Y!Instruction
  <2>6. ASSUME NEW signer \in Signers, NEW account \in Permittable,
               Y!AddWrapAuthority(signer, account) \/ Y!RemoveWrapAuthority(signer, account),
               UNCHANGED <<m_multiplier, yAcctVars>>
        PROVE  Y!Next
    <3>1. signer \in Accounts /\ account \in Accounts
      BY <2>1
    <3>2. Y!GovStep
      BY <2>6, <3>1 DEF Y!GovStep
    <3>3. UNCHANGED Y!acctVars /\ UNCHANGED y_claim_config
      BY <2>6
      DEF yAcctVars, Y!acctVars, Y!yieldVars, Y!historyVars, Y!AddWrapAuthority,
          Y!RemoveWrapAuthority
    <3>4. Y!Govern
      BY <3>2, <3>3 DEF Y!Govern
    <3> QED
      BY <3>4 DEF Y!Next, Y!Instruction, Y!Operate
  <2>7. ASSUME Y!Sync PROVE Y!Next
    BY <2>7 DEF Y!Next, Y!Instruction, Y!Operate
  <2>8. ASSUME \/ \E state \in {"Initialized", "Frozen"} : Y!SetVaultState(state)
               \/ Y!Donate
               \/ Y!BurnExt
        PROVE  Y!Next
    BY <2>8 DEF Y!Next, Y!Environment
  <2> QED
    BY <1>6, <2>2, <2>3, <2>4, <2>5, <2>6, <2>7, <2>8 DEF UseY
<1>7. CASE UseX /\ UNCHANGED yVars
  <2>1. UNCHANGED m_multiplier
    BY <1>7
    DEF UseX, X!Wrap, X!ClaimFees, X!ClaimExcess, X!SetFee, X!Initialize,
        X!Sync, X!SetVaultState, X!Donate, X!BurnExt
  <2> QED
    BY <1>1, <1>7, <2>1
<1>8. CASE UnwrapDirectly
  <2>1. PICK signer \in Signers, other \in Signers \cup {None}, amount \in Amounts :
          \/ Y!Unwrap(signer, other, amount)
          \/ X!Unwrap(signer, other, amount) /\ UNCHANGED yVars
    BY <1>8 DEF UnwrapDirectly
  <2>2. signer \in Accounts /\ other \in Accounts \cup {None}
    BY DEF Signers
  <2>3. CASE Y!Unwrap(signer, other, amount)
    BY <1>2, <2>2, <2>3
  <2>4. CASE X!Unwrap(signer, other, amount) /\ UNCHANGED yVars
    BY <1>1, <1>3, <2>4
  <2> QED
    BY <2>1, <2>3, <2>4
<1>9. CASE PropagateToBoth
  BY <1>9 DEF PropagateToBoth, Y!Next, Y!Environment
<1>10. CASE DonateToFacility
  BY <1>1, <1>10 DEF DonateToFacility
<1>11. CASE UNCHANGED vars
  BY <1>1, <1>11 DEF vars
<1> QED
  BY <1>4, <1>5, <1>6, <1>7, <1>8, <1>9, <1>10, <1>11 DEF Next, UseExtension

\* What MExt_proofs proves of MExt is true of extension X.
LEMMA XCorrect == X!Spec => [](PX!IInv /\ X!Backed)
<1>1. PX!Spec <=> X!Spec
  BY PXSteps, PXInitial, PTL DEF PX!Spec, X!Spec
<1>2. PX!Spec => [](PX!IInv /\ PX!Backed)
  BY PXAssumptions, PX!InductiveInvariant, PX!BackedHolds, PTL
<1>3. PX!Backed <=> X!Backed
  BY DEF PX!Backed, X!Backed, PX!Initialized, X!Initialized, PX!ExtIndex, X!ExtIndex,
       PX!CachedMIndex, X!CachedMIndex, PX!ScaledUi, X!ScaledUi, PX!MIndex, X!MIndex,
       PX!MultiplierToIndex, X!MultiplierToIndex
<1> QED
  BY <1>1, <1>2, <1>3, PTL

\* What MExt_proofs proves of MExt is true of extension Y.
LEMMA YCorrect == Y!Spec => [](PY!IInv /\ Y!Backed)
<1>1. PY!Spec <=> Y!Spec
  BY PYSteps, PYInitial, PTL DEF PY!Spec, Y!Spec
<1>2. PY!Spec => [](PY!IInv /\ PY!Backed)
  BY PYAssumptions, PY!InductiveInvariant, PY!BackedHolds, PTL
<1>3. PY!Backed <=> Y!Backed
  BY DEF PY!Backed, Y!Backed, PY!Initialized, Y!Initialized, PY!ExtIndex, Y!ExtIndex,
       PY!CachedMIndex, Y!CachedMIndex, PY!ScaledUi, Y!ScaledUi, PY!MIndex, Y!MIndex,
       PY!MultiplierToIndex, Y!MultiplierToIndex
<1> QED
  BY <1>1, <1>2, <1>3, PTL

\* What extension X promises, of both instances of it.
LEMMA XPromise == X!Spec => X!KeepsItsPromise
<1>1. PX!Spec <=> X!Spec
  BY PXSteps, PXInitial, PTL DEF PX!Spec, X!Spec
<1>2. PX!Spec => PX!KeepsItsPromise
  BY PXAssumptions, PX!ExtensionKeepsItsPromise
<1>3. PX!MIndex = X!MIndex /\ PX!CachedMIndex = X!CachedMIndex /\ PX!ExtIndex = X!ExtIndex
  BY DEF PX!ExtIndex, X!ExtIndex, PX!CachedMIndex, X!CachedMIndex, PX!ScaledUi, X!ScaledUi,
       PX!MIndex, X!MIndex, PX!MultiplierToIndex, X!MultiplierToIndex
<1>4. /\ PX!MIndex' = X!MIndex' /\ PX!CachedMIndex' = X!CachedMIndex'
      /\ PX!ExtIndex' = X!ExtIndex'
  BY DEF PX!ExtIndex, X!ExtIndex, PX!CachedMIndex, X!CachedMIndex, PX!ScaledUi, X!ScaledUi,
       PX!MIndex, X!MIndex, PX!MultiplierToIndex, X!MultiplierToIndex
<1>5. PX!Promise!Init <=> X!Promise!Init
  BY <1>3 DEF PX!Promise!Init, X!Promise!Init
<1>6. [PX!Promise!Next]_(PX!Promise!token) <=> [X!Promise!Next]_(X!Promise!token)
  BY <1>3, <1>4
  DEF PX!Promise!Next, X!Promise!Next, PX!Promise!token, X!Promise!token,
      PX!Promise!Issue, X!Promise!Issue, PX!Promise!Redeem, X!Promise!Redeem,
      PX!Promise!Reward, X!Promise!Reward, PX!Promise!SettleOnly, X!Promise!SettleOnly,
      PX!Promise!Grow, X!Promise!Grow, PX!Promise!Donate, X!Promise!Donate,
      PX!Promise!Burn, X!Promise!Burn, PX!Promise!Settle, X!Promise!Settle,
      PX!Promise!Equivalent, X!Promise!Equivalent
<1> QED
  BY <1>1, <1>2, <1>5, <1>6, PTL
  DEF PX!KeepsItsPromise, X!KeepsItsPromise, PX!Promise!Spec, X!Promise!Spec

\* What extension Y promises, of both instances of it.
LEMMA YPromise == Y!Spec => Y!KeepsItsPromise
<1>1. PY!Spec <=> Y!Spec
  BY PYSteps, PYInitial, PTL DEF PY!Spec, Y!Spec
<1>2. PY!Spec => PY!KeepsItsPromise
  BY PYAssumptions, PY!ExtensionKeepsItsPromise
<1>3. PY!MIndex = Y!MIndex /\ PY!CachedMIndex = Y!CachedMIndex /\ PY!ExtIndex = Y!ExtIndex
  BY DEF PY!ExtIndex, Y!ExtIndex, PY!CachedMIndex, Y!CachedMIndex, PY!ScaledUi, Y!ScaledUi,
       PY!MIndex, Y!MIndex, PY!MultiplierToIndex, Y!MultiplierToIndex
<1>4. /\ PY!MIndex' = Y!MIndex' /\ PY!CachedMIndex' = Y!CachedMIndex'
      /\ PY!ExtIndex' = Y!ExtIndex'
  BY DEF PY!ExtIndex, Y!ExtIndex, PY!CachedMIndex, Y!CachedMIndex, PY!ScaledUi, Y!ScaledUi,
       PY!MIndex, Y!MIndex, PY!MultiplierToIndex, Y!MultiplierToIndex
<1>5. PY!Promise!Init <=> Y!Promise!Init
  BY <1>3 DEF PY!Promise!Init, Y!Promise!Init
<1>6. [PY!Promise!Next]_(PY!Promise!token) <=> [Y!Promise!Next]_(Y!Promise!token)
  BY <1>3, <1>4
  DEF PY!Promise!Next, Y!Promise!Next, PY!Promise!token, Y!Promise!token,
      PY!Promise!Issue, Y!Promise!Issue, PY!Promise!Redeem, Y!Promise!Redeem,
      PY!Promise!Reward, Y!Promise!Reward, PY!Promise!SettleOnly, Y!Promise!SettleOnly,
      PY!Promise!Grow, Y!Promise!Grow, PY!Promise!Donate, Y!Promise!Donate,
      PY!Promise!Burn, Y!Promise!Burn, PY!Promise!Settle, Y!Promise!Settle,
      PY!Promise!Equivalent, Y!Promise!Equivalent
<1> QED
  BY <1>1, <1>2, <1>5, <1>6, PTL
  DEF PY!KeepsItsPromise, Y!KeepsItsPromise, PY!Promise!Spec, Y!Promise!Spec

(***************************************************************************)
(* The facility's calls, the other extension and its swaps are nothing but *)
(* instructions to each of the extensions: each behaves as MExt allows, so *)
(* that every property of MExt is one of an extension with a facility.     *)
(***************************************************************************)
THEOREM ExtensionsBehave == Spec => X!Spec /\ Y!Spec
<1>1. Init => X!Init /\ Y!Init
  BY DEF Init
<1> QED
  BY <1>1, XBehaves, YBehaves, PTL DEF Spec, X!Spec, Y!Spec

(***************************************************************************)
(* Each vault backs its own ext tokens up to a unit per call, whatever is  *)
(* swapped between the two and by whom.                                    *)
(***************************************************************************)
THEOREM ExtensionsBackedHolds == Spec => []ExtensionsBacked
BY ExtensionsBehave, XCorrect, YCorrect, PTL DEF ExtensionsBacked

(***************************************************************************)
(* Each extension keeps its promise to its holders whatever is swapped:    *)
(* the second caller, with its own roundings, and the yield and the fees   *)
(* of the other extension are invisible to them.                           *)
(***************************************************************************)
THEOREM ExtensionsKeepTheirPromisesHolds == Spec => ExtensionsKeepTheirPromises
BY ExtensionsBehave, XPromise, YPromise, PTL DEF ExtensionsKeepTheirPromises

-----------------------------------------------------------------------------
\* Where M is: in no account less than none.
Places == swap_m \in Nat /\ HoldersM \in Nat

\* What a call sent to extension X itself moves.
LEMMA XUseMoves ==
  ASSUME PX!IInv, UseX
  PROVE  \/ UNCHANGED x_vault_amount
         \/ \E m \in Nat \ {0} : x_vault_amount' = x_vault_amount + m
<1>1. ASSUME NEW signer \in Signers, NEW other \in Signers \cup {None}, NEW amount \in Amounts,
             X!Wrap(signer, other, amount)
      PROVE  \E m \in Nat \ {0} : x_vault_amount' = x_vault_amount + m
  BY <1>1, XWrapMoves
<1>2. CASE X!Donate
  BY <1>2 DEF X!Donate
<1>3. ASSUME NEW signer, X!ClaimFees(signer) PROVE UNCHANGED x_vault_amount
  BY <1>3 DEF X!ClaimFees, X!ClaimExcess
<1>4. ASSUME NEW signer, NEW fee, X!SetFee(signer, fee) PROVE UNCHANGED x_vault_amount
  BY <1>4 DEF X!SetFee
<1>5. ASSUME NEW signer, NEW authorities, NEW fee, X!Initialize(signer, authorities, fee)
      PROVE  UNCHANGED x_vault_amount
  BY <1>5 DEF X!Initialize
<1>6. ASSUME UNCHANGED xAcctVars PROVE UNCHANGED x_vault_amount
  BY <1>6 DEF xAcctVars
<1>7. ASSUME NEW state, X!Sync \/ X!SetVaultState(state) \/ X!BurnExt
      PROVE  UNCHANGED x_vault_amount
  BY <1>7 DEF X!Sync, X!SetVaultState, X!BurnExt
<1> QED
  BY <1>1, <1>2, <1>3, <1>4, <1>5, <1>6, <1>7 DEF UseX

\* What a call sent to extension Y itself moves.
LEMMA YUseMoves ==
  ASSUME PY!IInv, UseY
  PROVE  \/ UNCHANGED y_vault_amount
         \/ \E m \in Nat \ {0} : y_vault_amount' = y_vault_amount + m
<1>1. ASSUME NEW signer \in Signers, NEW other \in Signers \cup {None}, NEW amount \in Amounts,
             Y!Wrap(signer, other, amount)
      PROVE  \E m \in Nat \ {0} : y_vault_amount' = y_vault_amount + m
  BY <1>1, YWrapMoves
<1>2. CASE Y!Donate
  BY <1>2 DEF Y!Donate
<1>3. ASSUME NEW signer, Y!ClaimFees(signer) PROVE UNCHANGED y_vault_amount
  BY <1>3 DEF Y!ClaimFees, Y!ClaimExcess
<1>4. ASSUME NEW signer, NEW fee, Y!SetFee(signer, fee) PROVE UNCHANGED y_vault_amount
  BY <1>4 DEF Y!SetFee
<1>5. ASSUME NEW signer, NEW authorities, NEW fee, Y!Initialize(signer, authorities, fee)
      PROVE  UNCHANGED y_vault_amount
  BY <1>5 DEF Y!Initialize
<1>6. ASSUME UNCHANGED yAcctVars PROVE UNCHANGED y_vault_amount
  BY <1>6 DEF yAcctVars
<1>7. ASSUME NEW state, Y!Sync \/ Y!SetVaultState(state) \/ Y!BurnExt
      PROVE  UNCHANGED y_vault_amount
  BY <1>7 DEF Y!Sync, Y!SetVaultState, Y!BurnExt
<1> QED
  BY <1>1, <1>2, <1>3, <1>4, <1>5, <1>6, <1>7 DEF UseY

\* What a swap from extension X to extension Y moves.
LEMMA SwapXY ==
  ASSUME PX!IInv, PY!IInv, swap_m \in Nat,
         NEW signer, NEW authority, NEW wrap_authority, NEW amount \in Amounts,
         Swap(signer, ProgramX, ProgramY, authority, wrap_authority, amount)
  PROVE  /\ \E m \in Nat \ {0} :
              /\ x_vault_amount' = x_vault_amount - m
              /\ y_vault_amount' = y_vault_amount + m
         /\ UNCHANGED swap_m
         /\ PermittedAcross(x_wrap_authorities)
         /\ x_ext_supply' \in Int /\ x_ext_supply' < x_ext_supply
         /\ y_ext_supply' \in Int /\ y_ext_supply' > y_ext_supply
         /\ WorthTheSame(x_ext_supply - x_ext_supply', X!ExtIndex',
                         y_ext_supply' - y_ext_supply, Y!ExtIndex')
<1>1. /\ X!Unwrap(signer, SignedBy(authority), amount)
      /\ Y!Wrap(Facility, SignedBy(wrap_authority), amount)
  BY ExtSwapAssumption DEF Swap, ExtUnwrap, ExtWrap, WrappedAmount
<1> DEFINE b == PX!AmountToPrincipalDown(amount, X!ExtIndex')
           n == PY!AmountToPrincipalDown(amount, Y!ExtIndex')
<1>2. /\ Principal(amount) \in Nat \ {0}
      /\ x_vault_amount' = x_vault_amount - Principal(amount)
      /\ amount \in Nat /\ X!ExtIndex' \in Nat \ {0} /\ b \in Nat \ {0}
      /\ x_ext_supply' = x_ext_supply - b
  BY <1>1, XUnwrapMoves
<1>3. /\ y_vault_amount' = y_vault_amount + Principal(amount)
      /\ Y!ExtIndex' \in Nat \ {0} /\ n \in Nat \ {0}
      /\ y_ext_supply' = y_ext_supply + n
  BY <1>1, YWrapMoves
<1>4. n = PX!AmountToPrincipalDown(amount, Y!ExtIndex')
  BY DEF PX!AmountToPrincipalDown, PY!AmountToPrincipalDown
<1>5. /\ n * Y!ExtIndex' < (b + 1) * X!ExtIndex'
      /\ b * X!ExtIndex' < (n + 1) * Y!ExtIndex'
  BY <1>2, <1>3, <1>4, PXAssumptions, PX!SameAmount
<1> HIDE DEF b, n
<1>6. /\ x_vault_amount \in Nat /\ y_vault_amount \in Nat
      /\ x_ext_supply \in Nat /\ y_ext_supply \in Nat
  BY DEF PX!IInv, PY!IInv, PX!MExtTypeOK, PY!MExtTypeOK
<1>7. UNCHANGED swap_m
  <2>1. swap_m' = swap_m + (x_vault_amount - x_vault_amount')
                         - (y_vault_amount' - y_vault_amount)
    BY ExtSwapAssumption DEF Swap, VaultAmount
  <2> QED
    BY <1>2, <1>3, <1>6, <2>1
<1>8. /\ x_ext_supply - x_ext_supply' = b /\ y_ext_supply' - y_ext_supply = n
      /\ x_ext_supply' \in Int /\ x_ext_supply' < x_ext_supply
      /\ y_ext_supply' \in Int /\ y_ext_supply' > y_ext_supply
  BY <1>2, <1>3, <1>6
<1>9. PermittedAcross(x_wrap_authorities)
  <2>1. {ProgramX, ProgramY} \subseteq whitelisted_extensions
    BY DEF Swap, IsExtensionWhitelisted
  <2>2. SignedBy(authority) # None
    BY ExtSwapAssumption, SwapGlobalAssumption DEF SignedBy
  <2>3. SignedBy(authority) \in x_wrap_authorities
    BY <1>1, <2>2 DEF X!Unwrap, X!Permissioned
  <2>4. SignedBy(authority) \in {Facility} \cup takers'
    BY DEF Swap, TakenBy, SignedBy
  <2> QED
    BY <2>1, <2>3, <2>4 DEF PermittedAcross
<1> QED
  BY <1>2, <1>3, <1>5, <1>7, <1>8, <1>9 DEF WorthTheSame

\* What a swap from extension Y to extension X moves.
LEMMA SwapYX ==
  ASSUME PX!IInv, PY!IInv, swap_m \in Nat,
         NEW signer, NEW authority, NEW wrap_authority, NEW amount \in Amounts,
         Swap(signer, ProgramY, ProgramX, authority, wrap_authority, amount)
  PROVE  /\ \E m \in Nat \ {0} :
              /\ y_vault_amount' = y_vault_amount - m
              /\ x_vault_amount' = x_vault_amount + m
         /\ UNCHANGED swap_m
         /\ PermittedAcross(y_wrap_authorities)
         /\ y_ext_supply' \in Int /\ y_ext_supply' < y_ext_supply
         /\ x_ext_supply' \in Int /\ x_ext_supply' > x_ext_supply
         /\ WorthTheSame(y_ext_supply - y_ext_supply', Y!ExtIndex',
                         x_ext_supply' - x_ext_supply, X!ExtIndex')
<1>1. /\ Y!Unwrap(signer, SignedBy(authority), amount)
      /\ X!Wrap(Facility, SignedBy(wrap_authority), amount)
  BY ExtSwapAssumption DEF Swap, ExtUnwrap, ExtWrap, WrappedAmount
<1> DEFINE b == PY!AmountToPrincipalDown(amount, Y!ExtIndex')
           n == PX!AmountToPrincipalDown(amount, X!ExtIndex')
<1>2. /\ Principal(amount) \in Nat \ {0}
      /\ y_vault_amount' = y_vault_amount - Principal(amount)
      /\ amount \in Nat /\ Y!ExtIndex' \in Nat \ {0} /\ b \in Nat \ {0}
      /\ y_ext_supply' = y_ext_supply - b
  BY <1>1, YUnwrapMoves
<1>3. /\ x_vault_amount' = x_vault_amount + Principal(amount)
      /\ X!ExtIndex' \in Nat \ {0} /\ n \in Nat \ {0}
      /\ x_ext_supply' = x_ext_supply + n
  BY <1>1, XWrapMoves
<1>4. n = PY!AmountToPrincipalDown(amount, X!ExtIndex')
  BY DEF PY!AmountToPrincipalDown, PX!AmountToPrincipalDown
<1>5. /\ n * X!ExtIndex' < (b + 1) * Y!ExtIndex'
      /\ b * Y!ExtIndex' < (n + 1) * X!ExtIndex'
  BY <1>2, <1>3, <1>4, PYAssumptions, PY!SameAmount
<1> HIDE DEF b, n
<1>6. /\ y_vault_amount \in Nat /\ x_vault_amount \in Nat
      /\ y_ext_supply \in Nat /\ x_ext_supply \in Nat
  BY DEF PX!IInv, PY!IInv, PX!MExtTypeOK, PY!MExtTypeOK
<1>7. UNCHANGED swap_m
  <2>1. swap_m' = swap_m + (y_vault_amount - y_vault_amount')
                         - (x_vault_amount' - x_vault_amount)
    BY ExtSwapAssumption DEF Swap, VaultAmount
  <2> QED
    BY <1>2, <1>3, <1>6, <2>1
<1>8. /\ y_ext_supply - y_ext_supply' = b /\ x_ext_supply' - x_ext_supply = n
      /\ y_ext_supply' \in Int /\ y_ext_supply' < y_ext_supply
      /\ x_ext_supply' \in Int /\ x_ext_supply' > x_ext_supply
  BY <1>2, <1>3, <1>6
<1>9. PermittedAcross(y_wrap_authorities)
  <2>1. {ProgramX, ProgramY} \subseteq whitelisted_extensions
    BY DEF Swap, IsExtensionWhitelisted
  <2>2. SignedBy(authority) # None
    BY ExtSwapAssumption, SwapGlobalAssumption DEF SignedBy
  <2>3. SignedBy(authority) \in y_wrap_authorities
    BY <1>1, <2>2 DEF Y!Unwrap, Y!Permissioned
  <2>4. SignedBy(authority) \in {Facility} \cup takers'
    BY DEF Swap, TakenBy, SignedBy
  <2> QED
    BY <2>1, <2>3, <2>4 DEF PermittedAcross
<1> QED
  BY <1>2, <1>3, <1>5, <1>7, <1>8, <1>9 DEF WorthTheSame

\* The places M is in after a step, by what came to each of them.
Moved(x, y, facility) ==
  /\ x_vault_amount' = x_vault_amount + x
  /\ y_vault_amount' = y_vault_amount + y
  /\ swap_m' = swap_m + facility

\* How M may move: between a vault and the holders, from vault to vault, or into the facility.
Movement ==
  \/ Moved(0, 0, 0)
  \/ \E m \in Nat \ {0} :
       \/ Moved(m, 0, 0)
       \/ Moved(0, m, 0)
       \/ Moved(0, 0, m)
       \/ Moved(0 - m, 0, 0) /\ PermittedOut(ProgramX, x_wrap_authorities)
       \/ Moved(0, 0 - m, 0) /\ PermittedOut(ProgramY, y_wrap_authorities)
       \/ Moved(0 - m, m, 0) /\ PermittedAcross(x_wrap_authorities)
       \/ Moved(m, 0 - m, 0) /\ PermittedAcross(y_wrap_authorities)

\* Every step moves M in one of these ways, and only a swap changes both supplies.
LEMMA Movements ==
  ASSUME PX!IInv, PY!IInv, Places, Next
  PROVE  Movement /\ SwapIsFair
<1>1. /\ x_vault_amount \in Nat /\ y_vault_amount \in Nat /\ swap_m \in Nat
      /\ x_ext_supply \in Nat /\ y_ext_supply \in Nat
  BY DEF PX!IInv, PY!IInv, PX!MExtTypeOK, PY!MExtTypeOK, Places
<1>2. ASSUME UNCHANGED x_ext_supply \/ UNCHANGED y_ext_supply PROVE SwapIsFair
  BY <1>1, <1>2 DEF SwapIsFair
<1>3. ASSUME UNCHANGED xVars PROVE UNCHANGED <<x_vault_amount, x_ext_supply>>
  BY <1>3 DEF xVars, xAcctVars
<1>4. ASSUME UNCHANGED yVars PROVE UNCHANGED <<y_vault_amount, y_ext_supply>>
  BY <1>4 DEF yVars, yAcctVars
<1>5. CASE UseFacility
  <2>1. PICK signer \in Signers, amount \in Amounts, program \in {ProgramX, ProgramY},
             authority \in Signers \cup {None} :
          \/ SwapWrap(signer, program, authority, amount)
          \/ SwapUnwrap(signer, program, authority, amount)
          \/ \E wrap_authority \in Signers \cup {None} :
               Swap(signer, program, Other(program), authority, wrap_authority, amount)
    BY <1>5 DEF UseFacility
  <2>2. ProgramX # ProgramY /\ None \notin Signers
    BY ExtSwapAssumption, SwapGlobalAssumption DEF Signers
  <2>3. CASE SwapWrap(signer, program, authority, amount)
    <3>1. CASE program = ProgramX
      <4>1. /\ X!Wrap(signer, SignedBy(authority), amount)
            /\ UNCHANGED yVars /\ UNCHANGED swap_m
        BY <2>2, <2>3, <3>1 DEF SwapWrap, ExtWrap, NotCalled, Other
      <4>2. PICK m \in Nat \ {0} : x_vault_amount' = x_vault_amount + m
        BY <4>1, XWrapMoves
      <4>3. Moved(m, 0, 0)
        BY <1>1, <1>4, <4>1, <4>2 DEF Moved
      <4> QED
        BY <1>2, <1>4, <4>1, <4>3 DEF Movement
    <3>2. CASE program = ProgramY
      <4>1. /\ Y!Wrap(signer, SignedBy(authority), amount)
            /\ UNCHANGED xVars /\ UNCHANGED swap_m
        BY <2>2, <2>3, <3>2 DEF SwapWrap, ExtWrap, NotCalled, Other
      <4>2. PICK m \in Nat \ {0} : y_vault_amount' = y_vault_amount + m
        BY <4>1, YWrapMoves
      <4>3. Moved(0, m, 0)
        BY <1>1, <1>3, <4>1, <4>2 DEF Moved
      <4> QED
        BY <1>2, <1>3, <4>1, <4>3 DEF Movement
    <3> QED
      BY <3>1, <3>2
  <2>4. CASE SwapUnwrap(signer, program, authority, amount)
    <3>1. /\ IsExtensionWhitelisted(program)
          /\ (IF authority = None THEN signer ELSE authority) \in whitelisted_unwrappers
          /\ takers' = {signer, authority} \ {None}
      BY <2>4 DEF SwapUnwrap, IsUnwrapper, TakenBy
    <3>2. ASSUME NEW authorities, SignedBy(authority) \in authorities
          PROVE  PermittedOut(program, authorities)
      <4>1. CASE authority = None
        <5>1. Facility \in authorities /\ signer \in whitelisted_unwrappers
          BY <3>1, <3>2, <4>1 DEF SignedBy
        <5> QED
          BY <2>2, <3>1, <5>1 DEF PermittedOut
      <4>2. CASE authority # None
        <5>1. authority \in authorities /\ authority \in takers'
          BY <3>1, <3>2, <4>2 DEF SignedBy
        <5> QED
          BY <5>1 DEF PermittedOut
      <4> QED
        BY <4>1, <4>2
    <3>3. SignedBy(authority) # None
      BY ExtSwapAssumption, SwapGlobalAssumption DEF SignedBy
    <3>4. CASE program = ProgramX
      <4>1. /\ X!Unwrap(signer, SignedBy(authority), amount)
            /\ UNCHANGED yVars /\ UNCHANGED swap_m
        BY <2>2, <2>4, <3>4 DEF SwapUnwrap, ExtUnwrap, NotCalled, Other
      <4>2. PICK m \in Nat \ {0} : x_vault_amount' = x_vault_amount - m
        BY <4>1, XUnwrapMoves
      <4>3. Moved(0 - m, 0, 0)
        BY <1>1, <1>4, <4>1, <4>2 DEF Moved
      <4>4. SignedBy(authority) \in x_wrap_authorities
        BY <3>3, <4>1 DEF X!Unwrap, X!Permissioned
      <4> QED
        BY <1>2, <1>4, <3>2, <3>4, <4>1, <4>3, <4>4 DEF Movement
    <3>5. CASE program = ProgramY
      <4>1. /\ Y!Unwrap(signer, SignedBy(authority), amount)
            /\ UNCHANGED xVars /\ UNCHANGED swap_m
        BY <2>2, <2>4, <3>5 DEF SwapUnwrap, ExtUnwrap, NotCalled, Other
      <4>2. PICK m \in Nat \ {0} : y_vault_amount' = y_vault_amount - m
        BY <4>1, YUnwrapMoves
      <4>3. Moved(0, 0 - m, 0)
        BY <1>1, <1>3, <4>1, <4>2 DEF Moved
      <4>4. SignedBy(authority) \in y_wrap_authorities
        BY <3>3, <4>1 DEF Y!Unwrap, Y!Permissioned
      <4> QED
        BY <1>2, <1>3, <3>2, <3>5, <4>1, <4>3, <4>4 DEF Movement
    <3> QED
      BY <3>4, <3>5
  <2>5. ASSUME NEW wrap_authority \in Signers \cup {None},
               Swap(signer, program, Other(program), authority, wrap_authority, amount)
        PROVE  Movement /\ SwapIsFair
    <3>1. CASE program = ProgramX
      <4>1. Swap(signer, ProgramX, ProgramY, authority, wrap_authority, amount)
        BY <2>5, <3>1 DEF Other
      <4>2. PICK m \in Nat \ {0} :
              x_vault_amount' = x_vault_amount - m /\ y_vault_amount' = y_vault_amount + m
        BY <1>1, <4>1, SwapXY
      <4>3. /\ UNCHANGED swap_m /\ PermittedAcross(x_wrap_authorities)
            /\ x_ext_supply' \in Int /\ x_ext_supply' < x_ext_supply
            /\ y_ext_supply' \in Int /\ y_ext_supply' > y_ext_supply
            /\ WorthTheSame(x_ext_supply - x_ext_supply', X!ExtIndex',
                            y_ext_supply' - y_ext_supply, Y!ExtIndex')
        BY <1>1, <4>1, SwapXY
      <4>4. Moved(0 - m, m, 0)
        BY <1>1, <4>2, <4>3 DEF Moved
      <4> QED
        BY <1>1, <4>3, <4>4 DEF Movement, SwapIsFair
    <3>2. CASE program = ProgramY
      <4>1. Swap(signer, ProgramY, ProgramX, authority, wrap_authority, amount)
        BY <2>2, <2>5, <3>2 DEF Other
      <4>2. PICK m \in Nat \ {0} :
              y_vault_amount' = y_vault_amount - m /\ x_vault_amount' = x_vault_amount + m
        BY <1>1, <4>1, SwapYX
      <4>3. /\ UNCHANGED swap_m /\ PermittedAcross(y_wrap_authorities)
            /\ y_ext_supply' \in Int /\ y_ext_supply' < y_ext_supply
            /\ x_ext_supply' \in Int /\ x_ext_supply' > x_ext_supply
            /\ WorthTheSame(y_ext_supply - y_ext_supply', Y!ExtIndex',
                            x_ext_supply' - x_ext_supply, X!ExtIndex')
        BY <1>1, <4>1, SwapYX
      <4>4. Moved(m, 0 - m, 0)
        BY <1>1, <4>2, <4>3 DEF Moved
      <4> QED
        BY <1>1, <4>3, <4>4 DEF Movement, SwapIsFair
    <3> QED
      BY <3>1, <3>2
  <2> QED
    BY <2>1, <2>3, <2>4, <2>5
<1>6. ASSUME UNCHANGED xVars, UNCHANGED yVars, swap_m' = swap_m \/ swap_m' = swap_m + 1
      PROVE  Movement /\ SwapIsFair
  <2>1. Moved(0, 0, 0) \/ Moved(0, 0, 1)
    BY <1>1, <1>3, <1>4, <1>6 DEF Moved
  <2> QED
    BY <1>2, <1>3, <1>6, <2>1 DEF Movement
<1>7. CASE AdministerFacility
  BY <1>6, <1>7 DEF AdministerFacility
<1>8. CASE UseExtension /\ UseX /\ UNCHANGED yVars
  <2>1. UNCHANGED swap_m /\ UNCHANGED y_vault_amount /\ UNCHANGED y_ext_supply
    BY <1>4, <1>8 DEF UseExtension
  <2>2. CASE UNCHANGED x_vault_amount
    <3>1. Moved(0, 0, 0)
      BY <1>1, <2>1, <2>2 DEF Moved
    <3> QED
      BY <1>2, <2>1, <3>1 DEF Movement
  <2>3. ASSUME NEW m \in Nat \ {0}, x_vault_amount' = x_vault_amount + m
        PROVE  Movement /\ SwapIsFair
    <3>1. Moved(m, 0, 0)
      BY <1>1, <2>1, <2>3 DEF Moved
    <3> QED
      BY <1>2, <2>1, <3>1 DEF Movement
  <2> QED
    BY <1>8, <2>2, <2>3, XUseMoves
<1>9. CASE UseExtension /\ UseY /\ UNCHANGED xVars
  <2>1. UNCHANGED swap_m /\ UNCHANGED x_vault_amount /\ UNCHANGED x_ext_supply
    BY <1>3, <1>9 DEF UseExtension
  <2>2. CASE UNCHANGED y_vault_amount
    <3>1. Moved(0, 0, 0)
      BY <1>1, <2>1, <2>2 DEF Moved
    <3> QED
      BY <1>2, <2>1, <3>1 DEF Movement
  <2>3. ASSUME NEW m \in Nat \ {0}, y_vault_amount' = y_vault_amount + m
        PROVE  Movement /\ SwapIsFair
    <3>1. Moved(0, m, 0)
      BY <1>1, <2>1, <2>3 DEF Moved
    <3> QED
      BY <1>2, <2>1, <3>1 DEF Movement
  <2> QED
    BY <1>9, <2>2, <2>3, YUseMoves
<1>10. CASE UseExtension /\ UnwrapDirectly
  <2>1. PICK signer \in Signers, other \in Signers \cup {None}, amount \in Amounts :
          /\ \/ X!Unwrap(signer, other, amount) /\ UNCHANGED yVars
             \/ Y!Unwrap(signer, other, amount) /\ UNCHANGED xVars
          /\ takers' = {signer, other} \ {None}
    BY <1>10 DEF UnwrapDirectly, TakenBy
  <2>2. UNCHANGED swap_m /\ None \notin Signers
    BY <1>10, SwapGlobalAssumption DEF UseExtension, Signers
  <2>3. CASE X!Unwrap(signer, other, amount) /\ UNCHANGED yVars
    <3>1. PICK m \in Nat \ {0} : x_vault_amount' = x_vault_amount - m
      BY <2>3, XUnwrapMoves
    <3>2. Moved(0 - m, 0, 0)
      BY <1>1, <1>4, <2>2, <2>3, <3>1 DEF Moved
    <3>3. X!Permissioned(signer, other)
      BY <2>3 DEF X!Unwrap
    <3>4. PermittedOut(ProgramX, x_wrap_authorities)
      BY <2>1, <2>2, <3>3 DEF X!Permissioned, PermittedOut
    <3> QED
      BY <1>2, <1>4, <2>3, <3>2, <3>4 DEF Movement
  <2>4. CASE Y!Unwrap(signer, other, amount) /\ UNCHANGED xVars
    <3>1. PICK m \in Nat \ {0} : y_vault_amount' = y_vault_amount - m
      BY <2>4, YUnwrapMoves
    <3>2. Moved(0, 0 - m, 0)
      BY <1>1, <1>3, <2>2, <2>4, <3>1 DEF Moved
    <3>3. Y!Permissioned(signer, other)
      BY <2>4 DEF Y!Unwrap
    <3>4. PermittedOut(ProgramY, y_wrap_authorities)
      BY <2>1, <2>2, <3>3 DEF Y!Permissioned, PermittedOut
    <3> QED
      BY <1>2, <1>3, <2>4, <3>2, <3>4 DEF Movement
  <2> QED
    BY <2>1, <2>3, <2>4
<1>11. CASE PropagateToBoth
  <2>1. /\ UNCHANGED <<x_vault_amount, x_ext_supply>>
        /\ UNCHANGED <<y_vault_amount, y_ext_supply>>
        /\ UNCHANGED swap_m
    BY <1>11 DEF PropagateToBoth, X!PropagateIndex, Y!PropagateIndex
  <2>2. Moved(0, 0, 0)
    BY <1>1, <2>1 DEF Moved
  <2> QED
    BY <1>2, <2>1, <2>2 DEF Movement
<1>12. CASE DonateToFacility
  BY <1>6, <1>12 DEF DonateToFacility
<1> QED
  BY <1>5, <1>7, <1>8, <1>9, <1>10, <1>11, <1>12 DEF Next, UseExtension

-----------------------------------------------------------------------------
\* What is true of every state: both extensions' invariants, and no account below zero.
SwapIInv == PX!IInv /\ PY!IInv /\ Places

\* M does not leave the holders beyond what they have.
LEMMA PlacesStep ==
  ASSUME SwapIInv, [Next]_vars
  PROVE  Places'
<1>1. /\ x_vault_amount \in Nat /\ y_vault_amount \in Nat /\ swap_m \in Nat
      /\ MSupply \in Nat
  BY ExtensionsAssumption
  DEF SwapIInv, PX!IInv, PY!IInv, PX!MExtTypeOK, PY!MExtTypeOK, Places
<1>2. CASE UNCHANGED vars
  BY <1>2 DEF vars, xVars, xAcctVars, yVars, yAcctVars, Places, HoldersM, SwapIInv
<1>3. CASE Next
  <2>1. Movement
    BY <1>3, Movements DEF SwapIInv
  <2>2. /\ x_vault_amount' \in Int /\ y_vault_amount' \in Int /\ swap_m' \in Nat
        /\ HoldersM' \in Int
        /\ HoldersM = MSupply - x_vault_amount - y_vault_amount - swap_m
        /\ HoldersM' = MSupply - x_vault_amount' - y_vault_amount' - swap_m'
    BY <1>1, <2>1 DEF Movement, Moved, HoldersM
  <2>3. HoldersM \in Nat
    BY DEF SwapIInv, Places
  <2>4. HoldersM' >= 0
    <3>1. CASE UseFacility
      <4>1. PICK signer \in Signers, amount \in Amounts, program \in {ProgramX, ProgramY},
                 authority \in Signers \cup {None} :
              \/ SwapWrap(signer, program, authority, amount)
              \/ SwapUnwrap(signer, program, authority, amount)
              \/ \E wrap_authority \in Signers \cup {None} :
                   Swap(signer, program, Other(program), authority, wrap_authority, amount)
        BY <3>1 DEF UseFacility
      <4>2. CASE SwapWrap(signer, program, authority, amount)
        BY <4>2 DEF SwapWrap
      <4>3. CASE SwapUnwrap(signer, program, authority, amount)
        <5>1. /\ UNCHANGED swap_m
              /\ \/ \E m \in Nat \ {0} : x_vault_amount' = x_vault_amount - m
                 \/ \E m \in Nat \ {0} : y_vault_amount' = y_vault_amount - m
              /\ UNCHANGED xVars \/ UNCHANGED yVars
          BY <4>3, XUnwrapMoves, YUnwrapMoves, ExtSwapAssumption
          DEF SwapUnwrap, ExtUnwrap, NotCalled, Other, SwapIInv
        <5>2. /\ UNCHANGED xVars => UNCHANGED x_vault_amount
              /\ UNCHANGED yVars => UNCHANGED y_vault_amount
          BY DEF xVars, xAcctVars, yVars, yAcctVars
        <5>3. ASSUME NEW m \in Nat \ {0}, x_vault_amount' = x_vault_amount - m,
                     y_vault_amount' = y_vault_amount
              PROVE  HoldersM' = HoldersM + m
          BY <1>1, <2>2, <5>1, <5>3
        <5>4. ASSUME NEW m \in Nat \ {0}, y_vault_amount' = y_vault_amount - m,
                     x_vault_amount' = x_vault_amount
              PROVE  HoldersM' = HoldersM + m
          BY <1>1, <2>2, <5>1, <5>4
        <5>5. PICK m \in Nat \ {0} : HoldersM' = HoldersM + m
          <6>1. CASE UNCHANGED xVars
            BY <1>1, <5>1, <5>2, <5>4, <6>1
          <6>2. CASE UNCHANGED yVars
            BY <1>1, <5>1, <5>2, <5>3, <6>2
          <6> QED
            BY <5>1, <6>1, <6>2
        <5> QED
          BY <2>3, <5>5
      <4>4. ASSUME NEW wrap_authority \in Signers \cup {None},
                   Swap(signer, program, Other(program), authority, wrap_authority, amount)
            PROVE  HoldersM' = HoldersM
        <5>1. CASE program = ProgramX
          <6>1. Swap(signer, ProgramX, ProgramY, authority, wrap_authority, amount)
            BY <4>4, <5>1, ExtSwapAssumption DEF Other
          <6>2. PICK m \in Nat \ {0} :
                  x_vault_amount' = x_vault_amount - m /\ y_vault_amount' = y_vault_amount + m
            BY <1>1, <6>1, SwapXY DEF SwapIInv
          <6>3. swap_m' = swap_m
            BY <1>1, <6>1, SwapXY DEF SwapIInv
          <6> QED
            BY <1>1, <2>2, <6>2, <6>3
        <5>2. CASE program = ProgramY
          <6>1. Swap(signer, ProgramY, ProgramX, authority, wrap_authority, amount)
            BY <4>4, <5>2, ExtSwapAssumption DEF Other
          <6>2. PICK m \in Nat \ {0} :
                  y_vault_amount' = y_vault_amount - m /\ x_vault_amount' = x_vault_amount + m
            BY <1>1, <6>1, SwapYX DEF SwapIInv
          <6>3. swap_m' = swap_m
            BY <1>1, <6>1, SwapYX DEF SwapIInv
          <6> QED
            BY <1>1, <2>2, <6>2, <6>3
        <5> QED
          BY <5>1, <5>2
      <4> QED
        BY <2>3, <4>1, <4>2, <4>3, <4>4
    <3>2. CASE AdministerFacility
      BY <1>1, <2>2, <2>3, <3>2 DEF AdministerFacility, xVars, xAcctVars, yVars, yAcctVars
    <3>3. CASE UseExtension
      BY <3>3 DEF UseExtension
    <3>4. CASE PropagateToBoth
      BY <1>1, <2>2, <2>3, <3>4 DEF PropagateToBoth, X!PropagateIndex, Y!PropagateIndex
    <3>5. CASE DonateToFacility
      BY <1>1, <2>2, <2>3, <3>5 DEF DonateToFacility, xVars, xAcctVars, yVars, yAcctVars
    <3> QED
      BY <1>3, <3>1, <3>2, <3>3, <3>4, <3>5 DEF Next
  <2>5. HoldersM' \in Nat
    BY <2>2, <2>4
  <2>6. swap_m' \in Nat
    BY <2>2
  <2> QED
    BY <2>5, <2>6 DEF Places
<1> QED
  BY <1>2, <1>3

\* The invariant of the facility and its two extensions.
LEMMA SwapInvariant == Spec => []SwapIInv
<1>1. Init => Places
  BY ExtensionsAssumption DEF Init, X!Init, Y!Init, Places, HoldersM
<1>2. PX!IInv /\ PY!IInv /\ Places /\ [Next]_vars => Places'
  BY PlacesStep DEF SwapIInv
<1> QED
  BY <1>1, <1>2, ExtensionsBehave, XCorrect, YCorrect, PTL DEF Spec, SwapIInv

\* Nobody but a signer takes.
TakersSign == takers \subseteq Signers

(***************************************************************************)
(* No account the facility, the vaults or the holders have M in is ever    *)
(* overdrawn, and the lists and both extensions keep their types.          *)
(***************************************************************************)
THEOREM ExtSwapTypeCorrect == Spec => []ExtSwapTypeOK
<1>1. Init => SwapGlobalInit
  BY DEF Init
<1>2. [Next]_vars => [SwapGlobalNext]_swapGlobalVars
  <2>1. ASSUME AdministerFacility PROVE SwapGlobalNext
    <3>1. PICK signer \in Signers : AdministerSwap(signer)
      BY <2>1, Zenon DEF AdministerFacility
    <3>2. signer \in Accounts
      BY DEF Signers
    <3> QED
      BY <3>1, <3>2, Zenon DEF SwapGlobalNext
  <2>2. ASSUME UseFacility PROVE UNCHANGED swapGlobalVars
    <3>1. PICK signer \in Signers, amount \in Amounts, program \in {ProgramX, ProgramY},
               authority \in Signers \cup {None} :
            \/ SwapWrap(signer, program, authority, amount)
            \/ SwapUnwrap(signer, program, authority, amount)
            \/ \E wrap_authority \in Signers \cup {None} :
                 Swap(signer, program, Other(program), authority, wrap_authority, amount)
      BY <2>2 DEF UseFacility
    <3>2. SwapWrap(signer, program, authority, amount) => UNCHANGED swapGlobalVars
      BY DEF SwapWrap
    <3>3. SwapUnwrap(signer, program, authority, amount) => UNCHANGED swapGlobalVars
      BY DEF SwapUnwrap
    <3>4. ASSUME NEW wrap_authority,
                 Swap(signer, program, Other(program), authority, wrap_authority, amount)
          PROVE  UNCHANGED swapGlobalVars
      BY <3>4 DEF Swap
    <3> QED
      BY <3>1, <3>2, <3>3, <3>4
  <2>3. UseExtension \/ PropagateToBoth \/ DonateToFacility \/ UNCHANGED vars
          => UNCHANGED swapGlobalVars
    BY DEF UseExtension, PropagateToBoth, DonateToFacility, vars
  <2> QED
    BY <2>1, <2>2, <2>3 DEF Next
<1>3. Init => TakersSign
  BY DEF Init, TakersSign
<1>4. TakersSign /\ [Next]_vars => TakersSign'
  BY DEF TakersSign, Signers, Next, UseFacility, SwapWrap, SwapUnwrap, Swap, AdministerFacility, UseExtension,
         UnwrapDirectly, PropagateToBoth, DonateToFacility, TakenBy, vars
<1>5. SwapGlobalSpec => []SwapGlobalIInv
  BY SwapGlobalInvariant
<1>6. SwapIInv /\ SwapGlobalIInv /\ TakersSign => ExtSwapTypeOK
  <2>1. PX!MExtTypeOK <=> X!MExtTypeOK
    BY DEF PX!MExtTypeOK, X!MExtTypeOK, PX!GovTypeOK, X!GovTypeOK, PX!ClaimConfig, X!ClaimConfig
  <2>2. PY!MExtTypeOK <=> Y!MExtTypeOK
    BY DEF PY!MExtTypeOK, Y!MExtTypeOK, PY!GovTypeOK, Y!GovTypeOK, PY!ClaimConfig, Y!ClaimConfig
  <2>3. SwapIInv => swap_m \in 0..MSupply /\ HoldersM \in 0..MSupply
    <3>1. SwapIInv => /\ x_vault_amount \in Nat /\ y_vault_amount \in Nat
                      /\ swap_m \in Nat /\ HoldersM \in Nat
      BY DEF SwapIInv, PX!IInv, PY!IInv, PX!MExtTypeOK, PY!MExtTypeOK, Places
    <3> QED
      BY <3>1, ExtensionsAssumption DEF HoldersM
  <2> QED
    BY <2>1, <2>2, <2>3 DEF SwapIInv, PX!IInv, PY!IInv, SwapGlobalIInv, TakersSign, ExtSwapTypeOK
<1> QED
  BY <1>1, <1>2, <1>3, <1>4, <1>5, <1>6, SwapInvariant, PTL DEF Spec, SwapGlobalSpec

(***************************************************************************)
(* The ext tokens a swap burns and those it mints are worth the same but   *)
(* for a unit of either, at whatever two indices the extensions stand.     *)
(***************************************************************************)
THEOREM SwapsAreFairHolds == Spec => SwapsAreFair
<1>1. SwapIInv /\ [Next]_vars => [SwapIsFair]_vars
  BY Movements DEF SwapIInv
<1> QED
  BY <1>1, SwapInvariant, PTL DEF Spec, SwapsAreFair

(***************************************************************************)
(* M leaves a vault for the holders only by a key that signed for it and   *)
(* is on one of the two programs' lists, and for another vault only if     *)
(* both extensions are whitelisted and the one that pays lists the         *)
(* facility or a key that signed.                                          *)
(***************************************************************************)
THEOREM OutflowsArePermittedHolds == Spec => OutflowsArePermitted
<1>1. SwapIInv /\ Next => OutflowIsPermitted
  <2> SUFFICES ASSUME SwapIInv, Next PROVE OutflowIsPermitted
    OBVIOUS
  <2>1. /\ x_vault_amount \in Nat /\ y_vault_amount \in Nat /\ swap_m \in Nat
        /\ MSupply \in Nat
    BY ExtensionsAssumption
    DEF SwapIInv, PX!IInv, PY!IInv, PX!MExtTypeOK, PY!MExtTypeOK, Places
  <2>2. Movement
    BY Movements DEF SwapIInv
  <2>3. /\ HoldersM = MSupply - x_vault_amount - y_vault_amount - swap_m
        /\ HoldersM' = MSupply - x_vault_amount' - y_vault_amount' - swap_m'
    BY DEF HoldersM
  <2> QED
    BY <2>1, <2>2, <2>3 DEF OutflowIsPermitted, Movement, Moved
<1> QED
  BY <1>1, SwapInvariant, PTL DEF Spec, OutflowsArePermitted

-----------------------------------------------------------------------------
\* One move of Custody, from what left the one place and came to the other.
LEMMA OneMove ==
  ASSUME NEW P, NEW h, NEW after, NEW from \in P, NEW to \in P, from # to, NEW m \in Nat \ {0},
         h \in [P -> Nat], after \in [P -> Nat],
         after[from] = h[from] - m, after[to] = h[to] + m,
         \A p \in P \ {from, to} : after[p] = h[p]
  PROVE  m \in 1..h[from] /\ after = [h EXCEPT ![from] = @ - m, ![to] = @ + m]
<1>1. h[from] \in Nat /\ after[from] \in Nat
  OBVIOUS
<1>2. after = [h EXCEPT ![from] = @ - m, ![to] = @ + m]
  <2> DEFINE g == [h EXCEPT ![from] = @ - m, ![to] = @ + m]
  <2>1. \A p \in P : g[p] = after[p]
    OBVIOUS
  <2>2. g = [p \in P |-> g[p]] /\ after = [p \in P |-> after[p]]
    OBVIOUS
  <2> QED
    BY <2>1, <2>2
<1> QED
  BY <1>1, <1>2

\* Where M is, as a function.
LEMMA HeldValues ==
  ASSUME SwapIInv
  PROVE  /\ Held \in [{"X", "Y", "facility", "holders"} -> Nat]
         /\ Held["X"] = x_vault_amount /\ Held["Y"] = y_vault_amount
         /\ Held["facility"] = swap_m /\ Held["holders"] = HoldersM
<1>1. /\ x_vault_amount \in Nat /\ y_vault_amount \in Nat
      /\ swap_m \in Nat /\ HoldersM \in Nat
  BY DEF SwapIInv, PX!IInv, PY!IInv, PX!MExtTypeOK, PY!MExtTypeOK, Places
<1>2. /\ Held["X"] = x_vault_amount /\ Held["Y"] = y_vault_amount
      /\ Held["facility"] = swap_m /\ Held["holders"] = HoldersM
  BY DEF Held
<1>3. \A p \in {"X", "Y", "facility", "holders"} : Held[p] \in Nat
  BY <1>1, <1>2
<1>4. Held = [p \in {"X", "Y", "facility", "holders"} |-> Held[p]]
  BY DEF Held
<1> QED
  BY <1>2, <1>3, <1>4

(***************************************************************************)
(* The facility implements Custody: whatever its two calls round, a swap   *)
(* moves M from vault to vault, and the facility neither lends nor keeps.  *)
(***************************************************************************)
THEOREM ImplementsCustodyHolds == Spec => ImplementsCustody
<1>1. SwapIInv => M!Init
  BY HeldValues DEF M!Init, M!Places
<1>2. SwapIInv /\ SwapIInv' /\ [Next]_vars => [M!Next]_Held
  <2> SUFFICES ASSUME SwapIInv, SwapIInv', [Next]_vars PROVE [M!Next]_Held
    OBVIOUS
  <2> DEFINE P == {"X", "Y", "facility", "holders"}
  <2>1. /\ x_vault_amount \in Nat /\ y_vault_amount \in Nat
        /\ swap_m \in Nat /\ HoldersM \in Nat /\ MSupply \in Nat
    BY ExtensionsAssumption
    DEF SwapIInv, PX!IInv, PY!IInv, PX!MExtTypeOK, PY!MExtTypeOK, Places
  <2>2. /\ Held \in [P -> Nat]
        /\ Held["X"] = x_vault_amount /\ Held["Y"] = y_vault_amount
        /\ Held["facility"] = swap_m /\ Held["holders"] = HoldersM
    BY HeldValues
  <2>3. /\ x_vault_amount' \in Nat /\ y_vault_amount' \in Nat
        /\ swap_m' \in Nat /\ HoldersM' \in Nat
    BY DEF SwapIInv, PX!IInv, PY!IInv, PX!MExtTypeOK, PY!MExtTypeOK, Places
  <2>4. /\ Held' \in [P -> Nat]
        /\ Held'["X"] = x_vault_amount' /\ Held'["Y"] = y_vault_amount'
        /\ Held'["facility"] = swap_m' /\ Held'["holders"] = HoldersM'
    <3>1. /\ Held'["X"] = x_vault_amount' /\ Held'["Y"] = y_vault_amount'
          /\ Held'["facility"] = swap_m' /\ Held'["holders"] = HoldersM'
      BY DEF Held
    <3>2. Held' = [p \in P |-> Held'[p]]
      BY DEF Held
    <3> QED
      BY <2>3, <3>1, <3>2
  <2>5. /\ HoldersM = MSupply - x_vault_amount - y_vault_amount - swap_m
        /\ HoldersM' = MSupply - x_vault_amount' - y_vault_amount' - swap_m'
    BY DEF HoldersM
  <2>6. ASSUME NEW from \in P, NEW to \in P, from # to, NEW m \in Nat \ {0},
               Held'[from] = Held[from] - m, Held'[to] = Held[to] + m,
               \A p \in P \ {from, to} : Held'[p] = Held[p]
        PROVE  M!Move(from, to)
    BY <2>2, <2>4, <2>6, OneMove DEF M!Move
  <2>7. CASE UNCHANGED vars
    BY <2>7 DEF vars, xVars, xAcctVars, yVars, yAcctVars, Held, HoldersM
  <2>8. CASE Next
    <3>1. Movement
      BY <2>8, Movements DEF SwapIInv
    <3>2. CASE Moved(0, 0, 0)
      <4>1. UNCHANGED <<x_vault_amount, y_vault_amount, swap_m>>
        BY <2>1, <3>2 DEF Moved
      <4> QED
        BY <4>1 DEF Held, HoldersM
    <3>3. ASSUME NEW m \in Nat \ {0}, Moved(m, 0, 0) PROVE M!Move("holders", "X")
      <4>1. /\ x_vault_amount' = x_vault_amount + m /\ y_vault_amount' = y_vault_amount
            /\ swap_m' = swap_m /\ HoldersM' = HoldersM - m
        BY <2>1, <2>3, <2>5, <3>3 DEF Moved
      <4> QED
        BY <2>2, <2>4, <2>6, <4>1
    <3>4. ASSUME NEW m \in Nat \ {0}, Moved(0, m, 0) PROVE M!Move("holders", "Y")
      <4>1. /\ x_vault_amount' = x_vault_amount /\ y_vault_amount' = y_vault_amount + m
            /\ swap_m' = swap_m /\ HoldersM' = HoldersM - m
        BY <2>1, <2>3, <2>5, <3>4 DEF Moved
      <4> QED
        BY <2>2, <2>4, <2>6, <4>1
    <3>5. ASSUME NEW m \in Nat \ {0}, Moved(0, 0, m) PROVE M!Move("holders", "facility")
      <4>1. /\ x_vault_amount' = x_vault_amount /\ y_vault_amount' = y_vault_amount
            /\ swap_m' = swap_m + m /\ HoldersM' = HoldersM - m
        BY <2>1, <2>3, <2>5, <3>5 DEF Moved
      <4> QED
        BY <2>2, <2>4, <2>6, <4>1
    <3>6. ASSUME NEW m \in Nat \ {0}, Moved(0 - m, 0, 0) PROVE M!Move("X", "holders")
      <4>1. /\ x_vault_amount' = x_vault_amount - m /\ y_vault_amount' = y_vault_amount
            /\ swap_m' = swap_m /\ HoldersM' = HoldersM + m
        BY <2>1, <2>3, <2>5, <3>6 DEF Moved
      <4> QED
        BY <2>2, <2>4, <2>6, <4>1
    <3>7. ASSUME NEW m \in Nat \ {0}, Moved(0, 0 - m, 0) PROVE M!Move("Y", "holders")
      <4>1. /\ x_vault_amount' = x_vault_amount /\ y_vault_amount' = y_vault_amount - m
            /\ swap_m' = swap_m /\ HoldersM' = HoldersM + m
        BY <2>1, <2>3, <2>5, <3>7 DEF Moved
      <4> QED
        BY <2>2, <2>4, <2>6, <4>1
    <3>8. ASSUME NEW m \in Nat \ {0}, Moved(0 - m, m, 0) PROVE M!Move("X", "Y")
      <4>1. /\ x_vault_amount' = x_vault_amount - m /\ y_vault_amount' = y_vault_amount + m
            /\ swap_m' = swap_m /\ HoldersM' = HoldersM
        BY <2>1, <2>3, <2>5, <3>8 DEF Moved
      <4> QED
        BY <2>2, <2>4, <2>6, <4>1
    <3>9. ASSUME NEW m \in Nat \ {0}, Moved(m, 0 - m, 0) PROVE M!Move("Y", "X")
      <4>1. /\ x_vault_amount' = x_vault_amount + m /\ y_vault_amount' = y_vault_amount - m
            /\ swap_m' = swap_m /\ HoldersM' = HoldersM
        BY <2>1, <2>3, <2>5, <3>9 DEF Moved
      <4> QED
        BY <2>2, <2>4, <2>6, <4>1
    <3> HIDE DEF P
    <3> QED
      BY <3>1, <3>2, <3>3, <3>4, <3>5, <3>6, <3>7, <3>8, <3>9
      DEF Movement, M!Next, M!Deposit, M!Withdraw, M!Exchange, M!Donate
  <2> QED
    BY <2>7, <2>8
<1> QED
  BY <1>1, <1>2, SwapInvariant, PTL DEF Spec, ImplementsCustody, M!Spec

=============================================================================
