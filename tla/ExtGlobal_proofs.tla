--------------------------- MODULE ExtGlobal_proofs ---------------------------
(***************************************************************************)
(* The invariants of ExtGlobal, for any number of accounts.                *)
(***************************************************************************)
EXTENDS ExtGlobal, FiniteSetTheorems, TLAPS

\* Every list of authorities is a finite set whose size is a number.
LEMMA AuthoritiesFinite ==
  ASSUME NEW authorities \in SUBSET Accounts
  PROVE  IsFiniteSet(authorities) /\ Cardinality(authorities) \in Nat
BY AccountsAssumption, FS_Subset, FS_CardinalityType

\* What an admin instruction can be, for the case splits below.
LEMMA GovStepCases ==
  ASSUME GovNext
  PROVE  \/ \E signer \in Accounts, authorities \in SUBSET Accounts :
              InitializeGlobal(signer, authorities)
         \/ \E signer, account \in Accounts : TransferAdmin(signer, account)
         \/ \E signer, account \in Accounts : AddWrapAuthority(signer, account)
         \/ \E signer, account \in Accounts : RemoveWrapAuthority(signer, account)
         \/ \E signer, account, recipient \in Accounts :
              SetClaimConfig(signer, account, recipient)
         \/ \E signer \in Accounts : AcceptAdmin(signer)
         \/ \E signer \in Accounts : RevokeAdminTransfer(signer)
         \/ \E signer \in Accounts : RemoveClaimConfig(signer)
BY DEF GovNext, GovStep

-----------------------------------------------------------------------------
\* Every governance step keeps the types.
LEMMA GovTypeStep ==
  ASSUME GovTypeOK, [GovNext]_govVars
  PROVE  GovTypeOK'
<1> USE DEF GovTypeOK
<1>1. CASE UNCHANGED govVars
  BY <1>1 DEF govVars
<1>2. ASSUME NEW signer \in Accounts, NEW authorities \in SUBSET Accounts,
             InitializeGlobal(signer, authorities)
      PROVE  GovTypeOK'
  BY <1>2, AuthoritiesFinite DEF InitializeGlobal, SlotsFor
<1>3. ASSUME NEW signer \in Accounts, NEW account \in Accounts, TransferAdmin(signer, account)
      PROVE  GovTypeOK'
  BY <1>3 DEF TransferAdmin
<1>4. ASSUME NEW signer \in Accounts, NEW account \in Accounts,
             AddWrapAuthority(signer, account)
      PROVE  GovTypeOK'
  BY <1>4, AuthoritiesFinite DEF AddWrapAuthority, RoomForOneMore, SlotsFor
<1>5. ASSUME NEW signer \in Accounts, NEW account \in Accounts,
             RemoveWrapAuthority(signer, account)
      PROVE  GovTypeOK'
  BY <1>5, AuthoritiesFinite DEF RemoveWrapAuthority, SlotsFor
<1>6. ASSUME NEW signer \in Accounts, NEW account \in Accounts, NEW recipient \in Accounts,
             SetClaimConfig(signer, account, recipient)
      PROVE  GovTypeOK'
  BY <1>6 DEF SetClaimConfig, ClaimConfig
<1>7. ASSUME NEW signer \in Accounts, AcceptAdmin(signer) PROVE GovTypeOK'
  BY <1>7 DEF AcceptAdmin, ClearNomination
<1>8. ASSUME NEW signer \in Accounts, RevokeAdminTransfer(signer) PROVE GovTypeOK'
  BY <1>8 DEF RevokeAdminTransfer, ClearNomination
<1>9. ASSUME NEW signer \in Accounts, RemoveClaimConfig(signer) PROVE GovTypeOK'
  BY <1>9 DEF RemoveClaimConfig
<1> QED
  BY <1>1, <1>2, <1>3, <1>4, <1>5, <1>6, <1>7, <1>8, <1>9, GovStepCases

\* The governance state is well typed in every behaviour.
THEOREM GovTypeCorrect == GovSpec => []GovTypeOK
<1>1. GovInit => GovTypeOK
  BY DEF GovInit, GovTypeOK
<1> QED
  BY <1>1, GovTypeStep, PTL DEF GovSpec

-----------------------------------------------------------------------------
\* No governance step leaves a nomination behind, or one by somebody else.
LEMMA NominationStep ==
  ASSUME NominationByAdmin, [GovNext]_govVars
  PROVE  NominationByAdmin'
<1> USE DEF NominationByAdmin
<1>1. CASE UNCHANGED govVars
  BY <1>1 DEF govVars
<1>2. ASSUME NEW signer \in Accounts, NEW authorities \in SUBSET Accounts,
             InitializeGlobal(signer, authorities)
      PROVE  NominationByAdmin'
  BY <1>2 DEF InitializeGlobal
<1>3. ASSUME NEW signer \in Accounts, NEW account \in Accounts, TransferAdmin(signer, account)
      PROVE  NominationByAdmin'
  BY <1>3 DEF TransferAdmin, IsAdmin
<1>4. ASSUME NEW signer \in Accounts, AcceptAdmin(signer) PROVE NominationByAdmin'
  BY <1>4 DEF AcceptAdmin, ClearNomination
<1>5. ASSUME NEW signer \in Accounts, RevokeAdminTransfer(signer) PROVE NominationByAdmin'
  BY <1>5 DEF RevokeAdminTransfer, ClearNomination
<1>6. ASSUME UNCHANGED <<admin, pending_admin, nominator>> PROVE NominationByAdmin'
  BY <1>6
<1> QED
  BY <1>1, <1>2, <1>3, <1>4, <1>5, <1>6, GovStepCases
     DEF AddWrapAuthority, RemoveWrapAuthority, SetClaimConfig, RemoveClaimConfig

\* A nomination that can be accepted is the current admin's and names another account.
THEOREM NominationCorrect == GovSpec => []NominationByAdmin
<1>1. GovInit => NominationByAdmin
  BY DEF GovInit, NominationByAdmin
<1> QED
  BY <1>1, NominationStep, PTL DEF GovSpec

-----------------------------------------------------------------------------
\* Each change of the list changes the allocation with it.
LEMMA SlotsStep ==
  ASSUME GovTypeOK, SlotsFitAuthorities, [GovNext]_govVars
  PROVE  SlotsFitAuthorities'
<1> USE DEF SlotsFitAuthorities
<1>1. CASE UNCHANGED govVars
  BY <1>1 DEF govVars
<1>2. ASSUME NEW signer \in Accounts, NEW authorities \in SUBSET Accounts,
             InitializeGlobal(signer, authorities)
      PROVE  SlotsFitAuthorities'
  BY <1>2 DEF InitializeGlobal, SlotsFor
<1>3. ASSUME NEW signer \in Accounts, NEW account \in Accounts,
             AddWrapAuthority(signer, account)
      PROVE  SlotsFitAuthorities'
  <2>1. IsFiniteSet(wrap_authorities)
    BY AuthoritiesFinite DEF GovTypeOK
  <2>2. account \notin wrap_authorities
    BY <1>3 DEF AddWrapAuthority
  <2>3. Cardinality(wrap_authorities \cup {account}) = Cardinality(wrap_authorities) + 1
    BY <2>1, <2>2, FS_AddElement
  <2> QED
    BY <1>3, <2>3 DEF AddWrapAuthority, RoomForOneMore, SlotsFor
<1>4. ASSUME NEW signer \in Accounts, NEW account \in Accounts,
             RemoveWrapAuthority(signer, account)
      PROVE  SlotsFitAuthorities'
  BY <1>4 DEF RemoveWrapAuthority, SlotsFor
<1>5. ASSUME UNCHANGED <<wrap_authorities, authority_slots>> PROVE SlotsFitAuthorities'
  BY <1>5
<1> QED
  BY <1>1, <1>2, <1>3, <1>4, <1>5, GovStepCases
     DEF TransferAdmin, AcceptAdmin, RevokeAdminTransfer, SetClaimConfig, RemoveClaimConfig

\* The allocated space fits the list of wrap authorities in every reachable state.
THEOREM SlotsCorrect == GovSpec => []SlotsFitAuthorities
<1>1. GovInit => SlotsFitAuthorities
  BY FS_EmptySet DEF GovInit, SlotsFitAuthorities
<1> QED
  BY <1>1, GovTypeCorrect, SlotsStep, PTL DEF GovSpec
=============================================================================
