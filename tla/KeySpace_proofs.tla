--------------------------- MODULE KeySpace_proofs ---------------------------
(***************************************************************************)
(* What CommonPrefixLen computes, for IDs of any length.                   *)
(***************************************************************************)
EXTENDS KeySpace, WellFoundedInduction, TLAPS

LEMMA FirstOne ==
  ASSUME NEW a \in ID, NEW k \in 1..IdBits, a[k] = 1
  PROVE  \E i \in 1..IdBits : a[i] = 1 /\ \A j \in 1..(i - 1) : a[j] = 0
<1>. DEFINE ones == {i \in 1..IdBits : a[i] = 1}
<1>1. IdBits \in Nat /\ \A i \in 1..IdBits : a[i] \in {0, 1}
  BY IdBitsAssumption DEF ID, Bit
<1>2. ones \in SUBSET Nat /\ k \in ones
  BY <1>1
<1>3. PICK i \in ones : \A j \in ones : <<j, i>> \notin OpToRel(<, Nat)
  <2>. HIDE DEF ones
  <2>. QED BY <1>2, NatLessThanWellFounded, WFMin
<1>4. \A j \in ones : ~(j < i)
  BY <1>2, <1>3 DEF OpToRel
<1>. QED BY <1>1, <1>4

LEMMA PrefixOfID ==
  ASSUME NEW a \in ID
  PROVE  /\ ZeroPrefixLen(a) \in 0..IdBits
         /\ \A i \in 1..ZeroPrefixLen(a) : a[i] = 0
         /\ ZeroPrefixLen(a) < IdBits => a[ZeroPrefixLen(a) + 1] = 1
<1>. DEFINE First(n) == /\ \A i \in 1..n : a[i] = 0
                        /\ n < IdBits => a[n + 1] = 1
<1>1. IdBits \in Nat /\ \A i \in 1..IdBits : a[i] \in {0, 1}
  BY IdBitsAssumption DEF ID, Bit
<1>2. \E n \in 0..IdBits : First(n)
  <2>1. CASE \A i \in 1..IdBits : a[i] = 0
    <3>1. IdBits \in 0..IdBits /\ First(IdBits)
      BY <1>1, <2>1
    <3>. QED BY <3>1
  <2>2. CASE ~ \A i \in 1..IdBits : a[i] = 0
    <3>1. PICK i \in 1..IdBits : a[i] = 1 /\ \A j \in 1..(i - 1) : a[j] = 0
      BY <1>1, <2>2, FirstOne
    <3>2. i - 1 \in 0..IdBits /\ First(i - 1)
      BY <1>1, <3>1
    <3>. QED BY <3>2
  <2>. QED BY <2>1, <2>2
<1>3. ZeroPrefixLen(a) = CHOOSE n \in 0..IdBits : First(n)
  BY DEF ZeroPrefixLen
<1>. QED BY <1>2, <1>3

LEMMA CommonPrefix ==
  ASSUME NEW a \in ID, NEW b \in ID
  PROVE  LET n == CommonPrefixLen(a, b)
         IN  /\ n \in 0..IdBits
             /\ \A i \in 1..n : a[i] = b[i]
             /\ n < IdBits => (n + 1 \in 1..IdBits /\ a[n + 1] # b[n + 1])
<1>. DEFINE x == Xor(a, b)
            n == ZeroPrefixLen(x)
<1>1. x \in ID /\ \A i \in 1..IdBits : x[i] = IF a[i] = b[i] THEN 0 ELSE 1
  BY DEF Xor, ID, Bit
<1>2. /\ n \in 0..IdBits
      /\ \A i \in 1..n : x[i] = 0
      /\ n < IdBits => x[n + 1] = 1
  BY <1>1, PrefixOfID
<1>3. IdBits \in Nat /\ n = CommonPrefixLen(a, b)
  BY IdBitsAssumption DEF CommonPrefixLen
<1>. HIDE DEF n, x
<1>4. \A i \in 1..n : a[i] = b[i]
  BY <1>1, <1>2, <1>3
<1>5. n < IdBits => (n + 1 \in 1..IdBits /\ a[n + 1] # b[n + 1])
  BY <1>1, <1>2, <1>3
<1>. QED BY <1>2, <1>3, <1>4, <1>5

\* The common prefix ends where the first difference is.
LEMMA FirstDifference ==
  ASSUME NEW a \in ID, NEW b \in ID, NEW c \in 0..(IdBits - 1),
         \A i \in 1..c : a[i] = b[i], a[c + 1] # b[c + 1]
  PROVE  CommonPrefixLen(a, b) = c
<1>. DEFINE n == CommonPrefixLen(a, b)
<1>1. /\ n \in 0..IdBits /\ \A i \in 1..n : a[i] = b[i]
      /\ n < IdBits => a[n + 1] # b[n + 1]
  BY CommonPrefix
<1>2. IdBits \in Nat
  BY IdBitsAssumption
<1>. HIDE DEF n
<1>3. ~(c < n) /\ ~(n < c)
  BY <1>1, <1>2
<1>. QED BY <1>1, <1>2, <1>3 DEF n
=============================================================================
