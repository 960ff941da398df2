------------------------------- MODULE SwapGlobal -------------------------------
(***************************************************************************)
(* The administration of the ext_swap facility: which extensions it swaps  *)
(* between and who may take M out through it.  It is the SwapGlobal        *)
(* account (programs/ext_swap/src/state.rs) and the instructions of        *)
(* instructions/initialize.rs and instructions/whitelist.rs.               *)
(*                                                                         *)
(* Both lists live in the one account, behind each other; the additions    *)
(* reallocate it for both, the removals and the reset leave it as it is.   *)
(* What an entry says beside its key (an extension's mint and token        *)
(* program) is stored and never read.                                      *)
(***************************************************************************)
EXTENDS Integers, FiniteSets

CONSTANTS
  Accounts,    \* the public keys that sign, or that an instruction names
  Programs,    \* the addresses an admin may whitelist as extension programs
  Unwrappers,  \* the keys an admin may whitelist as unwrappers
  None         \* an account that does not exist

ASSUME SwapGlobalAssumption ==
  /\ IsFiniteSet(Accounts)
  /\ IsFiniteSet(Programs)
  /\ Unwrappers \subseteq Accounts
  /\ None \notin Accounts

VARIABLES
  swap_admin,              \* SwapGlobal::admin; None until the account is initialized
  whitelisted_unwrappers,  \* SwapGlobal::whitelisted_unwrappers, without duplicates: a set
  whitelisted_extensions,  \* SwapGlobal::whitelisted_extensions, as the program ids
  space                    \* bytes allocated to the account beyond what empty lists take

swapGlobalVars == <<swap_admin, whitelisted_unwrappers, whitelisted_extensions, space>>

UNWRAPPER_SIZE == 32   \* a Pubkey
EXTENSION_SIZE == 96   \* program id, mint and token program

\* SwapGlobal::size, less the part that does not depend on the lists.
Size(unwrappers, extensions) ==
  unwrappers * UNWRAPPER_SIZE + extensions * EXTENSION_SIZE

SwapGlobalTypeOK ==
  /\ swap_admin \in Accounts \cup {None}
  /\ whitelisted_unwrappers \in SUBSET Unwrappers
  /\ whitelisted_extensions \in SUBSET Programs
  /\ space \in Nat

SwapGlobalInit ==
  /\ swap_admin = None
  /\ whitelisted_unwrappers = {}
  /\ whitelisted_extensions = {}
  /\ space = 0

-----------------------------------------------------------------------------
\* Whoever comes first is the admin, for good: there is no transfer of the role.
InitializeSwap(signer) ==
  /\ swap_admin = None
  /\ swap_admin' = signer
  /\ space' = Size(0, 0)
  /\ UNCHANGED <<whitelisted_unwrappers, whitelisted_extensions>>

IsSwapAdmin(signer) == swap_admin # None /\ signer = swap_admin

\* is_extension_whitelisted
IsExtensionWhitelisted(program) == program \in whitelisted_extensions

\* A slip WhitelistExt could make: the size of a list of extensions alone.
SpaceForExtensionsOnly == Size(0, Cardinality(whitelisted_extensions) + 1)

\* The account with one more extension.
SpaceForOneMoreExtension ==
  Size(Cardinality(whitelisted_unwrappers), Cardinality(whitelisted_extensions) + 1)

\* The new size counts both lists as they are and the entry that is pushed next.
WhitelistExt(signer, program) ==
  /\ IsSwapAdmin(signer)
  /\ ~IsExtensionWhitelisted(program)
  /\ space' = SpaceForOneMoreExtension
  /\ whitelisted_extensions' = whitelisted_extensions \cup {program}
  /\ UNCHANGED <<swap_admin, whitelisted_unwrappers>>

WhitelistUnwrapper(signer, authority) ==
  /\ IsSwapAdmin(signer)
  /\ authority \notin whitelisted_unwrappers
  /\ space' = Size(Cardinality(whitelisted_unwrappers) + 1,
                   Cardinality(whitelisted_extensions))
  /\ whitelisted_unwrappers' = whitelisted_unwrappers \cup {authority}
  /\ UNCHANGED <<swap_admin, whitelisted_extensions>>

\* The removals keep the space, so that an account may be larger than its lists.
RemoveWhitelistedExt(signer, program) ==
  /\ IsSwapAdmin(signer)
  /\ IsExtensionWhitelisted(program)
  /\ whitelisted_extensions' = whitelisted_extensions \ {program}
  /\ UNCHANGED <<swap_admin, whitelisted_unwrappers, space>>

RemoveWhitelistedUnwrapper(signer, authority) ==
  /\ IsSwapAdmin(signer)
  /\ authority \in whitelisted_unwrappers
  /\ whitelisted_unwrappers' = whitelisted_unwrappers \ {authority}
  /\ UNCHANGED <<swap_admin, whitelisted_extensions, space>>

\* Everything behind the admin's key is zeroed, which both lists read as empty.
ResetWhitelists(signer) ==
  /\ IsSwapAdmin(signer)
  /\ whitelisted_unwrappers' = {}
  /\ whitelisted_extensions' = {}
  /\ UNCHANGED <<swap_admin, space>>

-----------------------------------------------------------------------------
\* The instructions a signer may send, once the account exists or not.
AdministerSwap(signer) ==
  \/ InitializeSwap(signer)
  \/ \E program \in Programs :
       WhitelistExt(signer, program) \/ RemoveWhitelistedExt(signer, program)
  \/ \E authority \in Unwrappers :
       \/ WhitelistUnwrapper(signer, authority)
       \/ RemoveWhitelistedUnwrapper(signer, authority)
  \/ ResetWhitelists(signer)

SwapGlobalNext == \E signer \in Accounts : AdministerSwap(signer)

SwapGlobalSpec == SwapGlobalInit /\ [][SwapGlobalNext]_swapGlobalVars

-----------------------------------------------------------------------------
(***************************************************************************)
(* The account is never too small for its two lists.  An addition sizes it *)
(* to the lists of that moment and may so shrink an account that removals  *)
(* or a reset left too large: the other list must survive that.            *)
(***************************************************************************)
SpaceFitsLists ==
  Size(Cardinality(whitelisted_unwrappers), Cardinality(whitelisted_extensions)) <= space
=============================================================================
