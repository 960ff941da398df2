------------------------------- MODULE BackedToken -------------------------------
(***************************************************************************)
(* What an extension promises those who hold its tokens, whatever its      *)
(* variant and whatever its arithmetic: M comes in and tokens go out, or   *)
(* the other way, for the same value, but for less than one unit of the    *)
(* one or of the other; tokens that nobody paid for are only made while    *)
(* the reserve is worth all of them; and a token's index grows no faster   *)
(* than that of M, of which a part may have been withheld.                 *)
(*                                                                         *)
(* The roundings that an implementation chooses are not here.  A step may  *)
(* first settle growth and then move tokens.                               *)
(***************************************************************************)
EXTENDS Naturals

VARIABLES
  reserve,     \* M principal that backs the tokens
  supply,      \* tokens, in principal
  m_index,     \* what a unit of M principal is worth
  paid_index,  \* the index of M whose growth has been settled
  token_index  \* what a unit of the token's principal is worth

token == <<reserve, supply, m_index, paid_index, token_index>>

Init ==
  /\ reserve = 0
  /\ supply \in Nat
  /\ m_index \in Nat
  /\ paid_index \in Nat
  /\ token_index \in 1..paid_index

\* Holders gain at most M's growth, by settling it; they never lose.
Settle ==
  /\ paid_index <= paid_index'
  /\ paid_index' <= m_index
  /\ token_index <= token_index'
  /\ token_index' * paid_index <= token_index * paid_index'
  /\ UNCHANGED m_index

\* Principals of M and of the token that are worth the same up to a unit.
Equivalent(m, tokens) ==
  /\ tokens * token_index' < (m + 1) * m_index
  /\ m * m_index < (tokens + 1) * token_index'

Issue ==
  /\ Settle
  /\ reserve' > reserve
  /\ supply' > supply
  /\ Equivalent(reserve' - reserve, supply' - supply)

Redeem ==
  /\ Settle
  /\ reserve' < reserve
  /\ supply' < supply
  /\ Equivalent(reserve - reserve', supply - supply')

Reward ==
  /\ Settle
  /\ supply' > supply
  /\ supply' * token_index' <= reserve * m_index
  /\ UNCHANGED reserve

SettleOnly == Settle /\ UNCHANGED <<reserve, supply>>

\* M grows; a token that takes no part in it settles its growth by doing nothing.
Grow ==
  /\ m_index' > m_index
  /\ paid_index' \in {paid_index, m_index'}
  /\ UNCHANGED <<reserve, supply, token_index>>

Donate ==
  /\ reserve' > reserve
  /\ UNCHANGED <<supply, m_index, paid_index, token_index>>

Burn ==
  /\ supply' < supply
  /\ UNCHANGED <<reserve, m_index, paid_index, token_index>>

Next == Issue \/ Redeem \/ Reward \/ SettleOnly \/ Grow \/ Donate \/ Burn

Spec == Init /\ [][Next]_token
=============================================================================
