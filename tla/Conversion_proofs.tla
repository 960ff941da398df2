--------------------------- MODULE Conversion_proofs ---------------------------
(***************************************************************************)
(* What the conversions return, for every scale, fee and index.            *)
(***************************************************************************)
EXTENDS Conversion, TLAPS

(***************************************************************************)
(* Arithmetic the rest is built from: division rounds down to a unit, and  *)
(* products keep and cancel inequalities.                                  *)
(***************************************************************************)
\* a \div b is the number of whole b in a.
LEMMA DivBounds ==
  ASSUME NEW a \in Nat, NEW b \in Nat \ {0}
  PROVE  /\ a \div b \in Nat
         /\ (a \div b) * b <= a
         /\ a < (a \div b) * b + b
OBVIOUS

\* CeilDiv(a, b) is the least number of b that reaches a.
LEMMA CeilBounds ==
  ASSUME NEW a \in Nat, NEW b \in Nat \ {0}
  PROVE  /\ CeilDiv(a, b) \in Nat
         /\ a <= CeilDiv(a, b) * b
         /\ CeilDiv(a, b) * b < a + b
<1>1. a + b - 1 \in Nat
  OBVIOUS
<1> DEFINE q == (a + b - 1) \div b
<1>2. q \in Nat /\ q * b <= a + b - 1 /\ a + b - 1 < q * b + b
  BY <1>1, DivBounds
<1>3. q * b \in Nat
  BY <1>2
<1> QED
  BY <1>2, <1>3 DEF CeilDiv

\* More takes at least as many.
LEMMA CeilMono ==
  ASSUME NEW a \in Nat, NEW b \in Nat, a <= b, NEW n \in Nat \ {0}
  PROVE  CeilDiv(a, n) <= CeilDiv(b, n)
<1> DEFINE q == CeilDiv(a, n)
           r == CeilDiv(b, n)
<1>1. q \in Nat /\ q * n < a + n /\ r \in Nat /\ b <= r * n
  BY CeilBounds
<1> HIDE DEF q, r
<1>2. q * n < (r + 1) * n
  BY <1>1
<1> QED
  BY <1>1, <1>2 DEF q, r

\* A factor of zero or more keeps an inequality.
LEMMA MulMono ==
  ASSUME NEW a \in Nat, NEW b \in Nat, NEW c \in Nat, a <= b
  PROVE  a * c <= b * c
OBVIOUS

\* A positive factor cancels from one.
LEMMA MulCancel ==
  ASSUME NEW a \in Nat, NEW b \in Nat, NEW c \in Nat \ {0}, a * c <= b * c
  PROVE  a <= b
OBVIOUS

-----------------------------------------------------------------------------
(***************************************************************************)
(* Round trips.  The amount that a principal is worth rounded up, turned   *)
(* into a principal rounded down, is that principal again: for a whole     *)
(* balance there is an amount that moves it, to the last unit.             *)
(***************************************************************************)
THEOREM WholeBalanceHasAnAmount ==
  ASSUME NEW principal \in Nat, NEW index \in Nat, INDEX_SCALE <= index
  PROVE  AmountToPrincipalDown(PrincipalToAmountUp(principal, index), index) = principal
<1> DEFINE p == principal
           i == index
           a == PrincipalToAmountUp(principal, index)
           q == AmountToPrincipalDown(a, index)
<1>1. INDEX_SCALE \in Nat \ {0} /\ p \in Nat /\ i \in Nat \ {0} /\ i * p \in Nat
  BY ScaleAssumption
<1>2. /\ a \in Nat /\ i * p <= a * INDEX_SCALE
      /\ a * INDEX_SCALE < i * p + INDEX_SCALE
  BY <1>1, CeilBounds DEF PrincipalToAmountUp
<1> HIDE DEF a
<1>3. q \in Nat /\ q * i <= a * INDEX_SCALE /\ a * INDEX_SCALE < q * i + i
  <2>1. a * INDEX_SCALE \in Nat
    BY <1>1, <1>2
  <2> QED
    BY <1>1, <2>1, DivBounds DEF AmountToPrincipalDown
<1> HIDE DEF q, p, i
<1>4. INDEX_SCALE <= i
  BY DEF i
<1>5. q < p + 1
  <2>1. q * i < (p + 1) * i
    BY <1>1, <1>2, <1>3, <1>4
  <2> QED
    BY <1>1, <1>3, <2>1
<1>6. p < q + 1
  <2>1. p * i < (q + 1) * i
    BY <1>1, <1>2, <1>3
  <2> QED
    BY <1>1, <1>3, <2>1
<1>7. q = p
  BY <1>1, <1>3, <1>5, <1>6
<1> QED
  BY <1>7 DEF q, p, i, a

\* Rounded down both ways, it may be a unit less, and never one more.
THEOREM RoundTripLosesAUnit ==
  ASSUME NEW principal \in Nat, NEW index \in Nat, INDEX_SCALE <= index
  PROVE  AmountToPrincipalDown(PrincipalToAmountDown(principal, index), index)
           \in {principal - 1, principal}
<1> DEFINE p == principal
           i == index
           a == PrincipalToAmountDown(principal, index)
           q == AmountToPrincipalDown(a, index)
<1>1. INDEX_SCALE \in Nat \ {0} /\ p \in Nat /\ i \in Nat \ {0} /\ i * p \in Nat
  BY ScaleAssumption
<1>2. a \in Nat /\ a * INDEX_SCALE <= i * p /\ i * p < a * INDEX_SCALE + INDEX_SCALE
  BY <1>1, DivBounds DEF PrincipalToAmountDown
<1> HIDE DEF a
<1>3. q \in Nat /\ q * i <= a * INDEX_SCALE /\ a * INDEX_SCALE < q * i + i
  <2>1. a * INDEX_SCALE \in Nat
    BY <1>1, <1>2
  <2> QED
    BY <1>1, <2>1, DivBounds DEF AmountToPrincipalDown
<1> HIDE DEF q, p, i
<1>4. INDEX_SCALE <= i
  BY DEF i
<1>5. q <= p
  <2>1. q * i <= p * i
    BY <1>1, <1>2, <1>3
  <2> QED
    BY <1>1, <1>3, <2>1, MulCancel
<1>6. p < q + 2
  <2>1. p * i < (q + 2) * i
    BY <1>1, <1>2, <1>3, <1>4
  <2> QED
    BY <1>1, <1>3, <2>1
<1>7. q = p \/ q = p - 1
  BY <1>1, <1>3, <1>5, <1>6
<1> QED
  BY <1>7 DEF q, p, i, a

-----------------------------------------------------------------------------
\* The factor by which holders' amounts grow lies between 1.0 and M's own growth.
LEMMA ExtIncreaseFactorBounds ==
  ASSUME NEW factor \in INDEX_SCALE..MaxIndex, NEW fee \in 0..ONE_HUNDRED_PERCENT
  PROVE  ExtIncreaseFactor(factor, fee) \in INDEX_SCALE..factor
<1>1. CASE fee = 0
  BY <1>1, ScaleAssumption DEF ExtIncreaseFactor, MaxIndex
<1>2. CASE fee # 0
  <2>1. fee \in 1..ONE_HUNDRED_PERCENT
    BY <1>2, ScaleAssumption
  <2> QED
    BY <1>2, <2>1, PowfAssumption DEF ExtIncreaseFactor
<1> QED
  BY <1>1, <1>2

\* M's growth since the last sync is at least 1.0 and no more than the cap.
LEMMA MIncreaseFactorBounds ==
  ASSUME NEW last \in Nat, NEW new \in Nat,
         INDEX_SCALE <= last, last <= new, new <= MaxIndex
  PROVE  /\ MIncreaseFactor(last, new) \in INDEX_SCALE..MaxIndex
         /\ MIncreaseFactor(last, new) * last <= new * INDEX_SCALE
<1> DEFINE f == MIncreaseFactor(last, new)
<1>1. INDEX_SCALE \in Nat \ {0} /\ MaxIndex \in Nat /\ last \in Nat \ {0}
  BY ScaleAssumption DEF MaxIndex
<1>2. f \in Nat /\ f * last <= new * INDEX_SCALE /\ new * INDEX_SCALE < f * last + last
  BY <1>1, DivBounds DEF MIncreaseFactor
<1>3. INDEX_SCALE <= f
  <2>1. last * INDEX_SCALE <= new * INDEX_SCALE
    BY <1>1, MulMono
  <2>2. INDEX_SCALE * last < (f + 1) * last
    BY <1>1, <1>2, <2>1
  <2> QED
    BY <1>1, <1>2, <2>2
<1>4. f <= MaxIndex
  <2>1. new * INDEX_SCALE <= MaxIndex * INDEX_SCALE
    BY <1>1, MulMono
  <2>2. INDEX_SCALE * MaxIndex <= last * MaxIndex
    BY <1>1, MulMono
  <2>3. f * last <= MaxIndex * last
    BY <1>1, <1>2, <2>1, <2>2
  <2> QED
    BY <1>1, <1>2, <2>3, MulCancel
<1> QED
  BY <1>1, <1>2, <1>3, <1>4

(***************************************************************************)
(* calculate_new_index never lowers the ext index, never raises it by more *)
(* than M's own growth, and keeps it at or below M's index.                *)
(***************************************************************************)
THEOREM NewIndexBounds ==
  ASSUME NEW ext \in Nat, NEW last \in Nat, NEW new \in Nat, NEW fee \in Nat,
         ValidIndexInput(ext, last, new, fee)
  PROVE  LET index == CalculateNewIndex(ext, last, new, fee)
         IN /\ index \in Nat
            /\ ext <= index
            /\ index * last <= ext * new
            /\ index <= new
<1> DEFINE f == MIncreaseFactor(last, new)
           g == ExtIncreaseFactor(f, fee)
           index == CalculateNewIndex(ext, last, new, fee)
<1>1. /\ INDEX_SCALE \in Nat \ {0} /\ MaxIndex \in Nat
      /\ INDEX_SCALE <= ext /\ ext <= last /\ last <= new /\ new <= MaxIndex
      /\ fee \in 0..ONE_HUNDRED_PERCENT
      /\ last \in Nat \ {0}
  BY ScaleAssumption DEF ValidIndexInput, MaxIndex
<1>2. f \in INDEX_SCALE..MaxIndex /\ f * last <= new * INDEX_SCALE
  BY <1>1, MIncreaseFactorBounds
<1>3. g \in INDEX_SCALE..f
  BY <1>1, <1>2, ExtIncreaseFactorBounds
<1> HIDE DEF f, g
<1>4. f \in Nat /\ g \in Nat /\ INDEX_SCALE <= g /\ g <= f
  BY <1>1, <1>2, <1>3
<1>5. index \in Nat /\ index * INDEX_SCALE <= ext * g
      /\ ext * g < index * INDEX_SCALE + INDEX_SCALE
  <2>1. ext * g \in Nat
    BY <1>4
  <2>2. index = (ext * g) \div INDEX_SCALE
    BY DEF CalculateNewIndex, f, g
  <2> QED
    BY <1>1, <2>1, <2>2, DivBounds
<1> HIDE DEF index
<1>6. ext <= index
  <2>1. INDEX_SCALE * ext <= g * ext
    BY <1>1, <1>4, MulMono
  <2>2. ext * INDEX_SCALE < (index + 1) * INDEX_SCALE
    BY <1>1, <1>4, <1>5, <2>1
  <2> QED
    BY <1>1, <1>5, <2>2
<1>7. index * last <= ext * new
  <2>1. (index * INDEX_SCALE) * last <= (ext * g) * last
    BY <1>1, <1>4, <1>5, MulMono
  <2>2. g * last <= f * last
    BY <1>4, MulMono
  <2>3. g * last <= new * INDEX_SCALE
    BY <1>1, <1>2, <1>4, <2>2
  <2>4. (g * last) * ext <= (new * INDEX_SCALE) * ext
    BY <1>1, <1>4, <2>3, MulMono
  <2>5. (index * last) * INDEX_SCALE <= (ext * new) * INDEX_SCALE
    BY <1>1, <1>4, <1>5, <2>1, <2>4
  <2> QED
    BY <1>1, <1>5, <2>5, MulCancel
<1>8. index <= new
  <2>1. ext * new <= last * new
    BY <1>1, MulMono
  <2>2. index * last <= new * last
    BY <1>1, <1>5, <1>7, <2>1
  <2> QED
    BY <1>1, <1>5, <2>2, MulCancel
<1> QED
  BY <1>5, <1>6, <1>7, <1>8 DEF index
=============================================================================
