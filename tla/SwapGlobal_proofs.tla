--------------------------- MODULE SwapGlobal_proofs ---------------------------
(***************************************************************************)
(* Proofs about SwapGlobal: types, and the space of the account.           *)
(***************************************************************************)
EXTENDS SwapGlobal, FiniteSetTheorems, TLAPS

USE SwapGlobalAssumption

\* One key in a finite list, or one key out of it, changes its length by at most one.
LEMMA OneMoreEntry ==
  ASSUME NEW S, IsFiniteSet(S), NEW x, x \notin S
  PROVE  Cardinality(S \cup {x}) = Cardinality(S) + 1
BY FS_AddElement

LEMMA OneEntryLess ==
  ASSUME NEW S, IsFiniteSet(S), NEW x
  PROVE  /\ Cardinality(S \ {x}) <= Cardinality(S)
         /\ Cardinality(S \ {x}) \in Nat
         /\ Cardinality(S) \in Nat
<1>1. S \ {x} \subseteq S
  OBVIOUS
<1> QED
  BY <1>1, FS_Subset, FS_CardinalityType

\* Before there is an account there are no lists.
EmptyAtFirst ==
  swap_admin = None => whitelisted_unwrappers = {} /\ whitelisted_extensions = {}

SwapGlobalIInv == SwapGlobalTypeOK /\ EmptyAtFirst /\ SpaceFitsLists

LEMMA ListsAreFinite ==
  ASSUME SwapGlobalTypeOK
  PROVE  /\ IsFiniteSet(whitelisted_unwrappers)
         /\ IsFiniteSet(whitelisted_extensions)
         /\ Cardinality(whitelisted_unwrappers) \in Nat
         /\ Cardinality(whitelisted_extensions) \in Nat
<1>1. whitelisted_unwrappers \subseteq Accounts /\ whitelisted_extensions \subseteq Programs
  BY DEF SwapGlobalTypeOK
<1> QED
  BY <1>1, FS_Subset, FS_CardinalityType

\* Every instruction that a signer may send keeps the types and the space.
LEMMA AdministerSwapStep ==
  ASSUME SwapGlobalIInv, NEW signer \in Accounts, AdministerSwap(signer)
  PROVE  SwapGlobalIInv'
<1> DEFINE u == Cardinality(whitelisted_unwrappers)
           e == Cardinality(whitelisted_extensions)
<1>0. /\ IsFiniteSet(whitelisted_unwrappers) /\ u \in Nat
      /\ IsFiniteSet(whitelisted_extensions) /\ e \in Nat
  BY ListsAreFinite DEF SwapGlobalIInv
<1>1. CASE InitializeSwap(signer)
  <2>1. space' = 0 /\ whitelisted_unwrappers' = {} /\ whitelisted_extensions' = {}
    BY <1>1 DEF InitializeSwap, Size, UNWRAPPER_SIZE, EXTENSION_SIZE, SwapGlobalIInv, EmptyAtFirst
  <2> QED
    BY <1>1, <2>1, FS_EmptySet
    DEF InitializeSwap, SwapGlobalIInv, SwapGlobalTypeOK, EmptyAtFirst, SpaceFitsLists, Size,
        UNWRAPPER_SIZE, EXTENSION_SIZE
<1>2. ASSUME NEW program \in Programs, WhitelistExt(signer, program)
      PROVE  SwapGlobalIInv'
  <2>1. Cardinality(whitelisted_extensions') = e + 1
    BY <1>0, <1>2, OneMoreEntry DEF WhitelistExt, IsExtensionWhitelisted
  <2>2. space' = u * 32 + (e + 1) * 96
    BY <1>2 DEF WhitelistExt, SpaceForOneMoreExtension, Size, UNWRAPPER_SIZE, EXTENSION_SIZE
  <2>3. SwapGlobalTypeOK'
    BY <1>0, <1>2, <2>2 DEF WhitelistExt, SwapGlobalIInv, SwapGlobalTypeOK
  <2>4. SpaceFitsLists'
    BY <1>0, <1>2, <2>1, <2>2
    DEF WhitelistExt, SpaceFitsLists, Size, UNWRAPPER_SIZE, EXTENSION_SIZE
  <2> QED
    BY <1>2, <2>3, <2>4 DEF WhitelistExt, IsSwapAdmin, SwapGlobalIInv, EmptyAtFirst
<1>3. ASSUME NEW program \in Programs, RemoveWhitelistedExt(signer, program)
      PROVE  SwapGlobalIInv'
  <2>1. Cardinality(whitelisted_extensions') <= e /\ Cardinality(whitelisted_extensions') \in Nat
    BY <1>0, <1>3, OneEntryLess DEF RemoveWhitelistedExt
  <2>2. SwapGlobalTypeOK'
    BY <1>3 DEF RemoveWhitelistedExt, SwapGlobalIInv, SwapGlobalTypeOK
  <2>3. SpaceFitsLists'
    BY <1>0, <1>3, <2>1
    DEF RemoveWhitelistedExt, SwapGlobalIInv, SwapGlobalTypeOK, SpaceFitsLists, Size,
        UNWRAPPER_SIZE, EXTENSION_SIZE
  <2> QED
    BY <1>3, <2>2, <2>3 DEF RemoveWhitelistedExt, IsSwapAdmin, SwapGlobalIInv, EmptyAtFirst
<1>4. ASSUME NEW authority \in Unwrappers, WhitelistUnwrapper(signer, authority)
      PROVE  SwapGlobalIInv'
  <2>1. Cardinality(whitelisted_unwrappers') = u + 1
    BY <1>0, <1>4, OneMoreEntry DEF WhitelistUnwrapper
  <2>2. space' = (u + 1) * 32 + e * 96
    BY <1>4 DEF WhitelistUnwrapper, Size, UNWRAPPER_SIZE, EXTENSION_SIZE
  <2>3. SwapGlobalTypeOK'
    BY <1>0, <1>4, <2>2 DEF WhitelistUnwrapper, SwapGlobalIInv, SwapGlobalTypeOK
  <2>4. SpaceFitsLists'
    BY <1>0, <1>4, <2>1, <2>2
    DEF WhitelistUnwrapper, SpaceFitsLists, Size, UNWRAPPER_SIZE, EXTENSION_SIZE
  <2> QED
    BY <1>4, <2>3, <2>4 DEF WhitelistUnwrapper, IsSwapAdmin, SwapGlobalIInv, EmptyAtFirst
<1>5. ASSUME NEW authority \in Unwrappers, RemoveWhitelistedUnwrapper(signer, authority)
      PROVE  SwapGlobalIInv'
  <2>1. Cardinality(whitelisted_unwrappers') <= u /\ Cardinality(whitelisted_unwrappers') \in Nat
    BY <1>0, <1>5, OneEntryLess DEF RemoveWhitelistedUnwrapper
  <2>2. SwapGlobalTypeOK'
    BY <1>5 DEF RemoveWhitelistedUnwrapper, SwapGlobalIInv, SwapGlobalTypeOK
  <2>3. SpaceFitsLists'
    BY <1>0, <1>5, <2>1
    DEF RemoveWhitelistedUnwrapper, SwapGlobalIInv, SwapGlobalTypeOK, SpaceFitsLists, Size,
        UNWRAPPER_SIZE, EXTENSION_SIZE
  <2> QED
    BY <1>5, <2>2, <2>3 DEF RemoveWhitelistedUnwrapper, IsSwapAdmin, SwapGlobalIInv, EmptyAtFirst
<1>6. CASE ResetWhitelists(signer)
  <2>1. Cardinality(whitelisted_unwrappers') = 0 /\ Cardinality(whitelisted_extensions') = 0
    BY <1>6, FS_EmptySet DEF ResetWhitelists
  <2> QED
    BY <1>6, <2>1
    DEF ResetWhitelists, SwapGlobalIInv, SwapGlobalTypeOK, EmptyAtFirst, SpaceFitsLists, Size,
        UNWRAPPER_SIZE, EXTENSION_SIZE
<1> QED
  BY <1>1, <1>2, <1>3, <1>4, <1>5, <1>6 DEF AdministerSwap

LEMMA SwapGlobalInitial == SwapGlobalInit => SwapGlobalIInv
BY FS_EmptySet
DEF SwapGlobalInit, SwapGlobalIInv, SwapGlobalTypeOK, EmptyAtFirst, SpaceFitsLists, Size,
    UNWRAPPER_SIZE, EXTENSION_SIZE

\* Every instruction keeps the invariant, whoever is the admin and whatever is on the lists.
LEMMA SwapGlobalInvariant == SwapGlobalSpec => []SwapGlobalIInv
<1>1. SwapGlobalIInv /\ [SwapGlobalNext]_swapGlobalVars => SwapGlobalIInv'
  <2>1. SwapGlobalIInv /\ SwapGlobalNext => SwapGlobalIInv'
    BY AdministerSwapStep DEF SwapGlobalNext
  <2>2. SwapGlobalIInv /\ UNCHANGED swapGlobalVars => SwapGlobalIInv'
    BY DEF swapGlobalVars, SwapGlobalIInv, SwapGlobalTypeOK, EmptyAtFirst, SpaceFitsLists
  <2> QED
    BY <2>1, <2>2
<1> QED
  BY <1>1, SwapGlobalInitial, PTL DEF SwapGlobalSpec

(***************************************************************************)
(* SwapGlobal::size and the realloc constraints of whitelist.rs: however   *)
(* the two lists grow and shrink, the account has room for both.           *)
(***************************************************************************)
THEOREM SpaceFitsListsHolds == SwapGlobalSpec => []SpaceFitsLists
BY SwapGlobalInvariant, PTL DEF SwapGlobalIInv
=============================================================================
