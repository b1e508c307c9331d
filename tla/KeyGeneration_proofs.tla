------------------------ MODULE KeyGeneration_proofs ------------------------
(***************************************************************************)
(* Every ID that is generated has the Cpl asked for: for any local ID, any *)
(* random bits, any length of ID, prefix, byte and machine word, and any   *)
(* hash that leads to every prefix.                                        *)
(***************************************************************************)
EXTENDS KeyGeneration, KeySpace_proofs, FiniteSetTheorems

LEMMA CplIsInByte ==
  ASSUME NEW cpl \in Nat
  PROVE  LET start == (cpl \div ByteBits) * ByteBits
         IN  /\ cpl = start + (cpl % ByteBits)
             /\ cpl % ByteBits \in Nat /\ start \in Nat
<1>1. ByteBits \in Nat \ {0}
  BY KeyGenerationAssumption
<1>2. /\ cpl \div ByteBits \in Nat /\ cpl % ByteBits \in Nat
      /\ cpl = ByteBits * (cpl \div ByteBits) + (cpl % ByteBits)
  BY <1>1, Z3
<1>. QED BY <1>1, <1>2, Z3

\* A call that is neither refused nor out of range asks for a bit of the ID.
LEMMA InRange ==
  ASSUME NEW cpl \in Nat, ~OutOfRange(cpl)
  PROVE  cpl \in 0..(IdBits - 1)
<1>. DEFINE b == IdBits \div ByteBits
            c == cpl \div ByteBits
<1>1. /\ ByteBits \in Nat \ {0} /\ IdBits \in Nat \ {0} /\ IdBits % ByteBits = 0
  BY KeyGenerationAssumption, IdBitsAssumption
<1>2. /\ b \in Nat /\ IdBits = ByteBits * b + (IdBits % ByteBits)
  BY <1>1, Z3
<1>3. /\ c \in Nat /\ cpl = ByteBits * c + (cpl % ByteBits)
      /\ cpl % ByteBits \in 0..(ByteBits - 1)
  BY <1>1, Z3
<1>4. c + 1 <= b
  BY <1>2, <1>3 DEF OutOfRange
<1>. HIDE DEF b, c
<1>5. ByteBits * (c + 1) <= ByteBits * b
  BY <1>1, <1>2, <1>3, <1>4, Z3
<1>6. ByteBits * (c + 1) = ByteBits * c + ByteBits
  BY <1>1, <1>3, Z3
<1>. QED BY <1>1, <1>2, <1>3, <1>5, <1>6, Z3

\* What the masks come to.
LEMMA RandomKeyBits ==
  ASSUME local \in ID, NEW random \in ID, NEW cpl \in 0..(IdBits - 1)
  PROVE  RandomKey(cpl, random) =
            [i \in 1..IdBits |-> IF i <= cpl THEN local[i]
                                ELSE IF i = cpl + 1 THEN 1 - local[i]
                                ELSE random[i]]
<1>. DEFINE start == (cpl \div ByteBits) * ByteBits
            mod == cpl % ByteBits
            origMask == {start + k : k \in 1..mod}
<1>1. IdBits \in Nat /\ cpl \in Nat
  BY IdBitsAssumption
<1>2. cpl = start + mod /\ start \in Nat /\ mod \in Nat
  BY <1>1, CplIsInByte
<1>3. RandomKey(cpl, random) =
         [i \in 1..IdBits |->
             IF i <= start \/ i \in origMask THEN local[i]
             ELSE IF i = start + mod + 1 THEN 1 - local[i]
             ELSE random[i]]
  BY DEF RandomKey
<1>. HIDE DEF start, mod
<1>4. \A i \in Nat : i \in origMask <=> start < i /\ i <= cpl
  <2>1. ASSUME NEW i \in Nat, start < i, i <= cpl PROVE i \in origMask
    <3>1. i - start \in 1..mod /\ i = start + (i - start)
      BY <1>2, <2>1
    <3>. QED BY <3>1
  <2>2. ASSUME NEW i \in Nat, i \in origMask PROVE start < i /\ i <= cpl
    BY <1>2, <2>2
  <2>. QED BY <2>1, <2>2
<1>. HIDE DEF origMask
<1>. QED BY <1>1, <1>2, <1>3, <1>4

LEMMA RandomKeyHasCpl ==
  ASSUME local \in ID, NEW random \in ID, NEW cpl \in 0..(IdBits - 1)
  PROVE  LET id == RandomKey(cpl, random)
         IN  id \in ID /\ CommonPrefixLen(id, local) = cpl
<1>. DEFINE id == RandomKey(cpl, random)
<1>1. IdBits \in Nat /\ \A i \in 1..IdBits : local[i] \in {0, 1} /\ random[i] \in {0, 1}
  BY IdBitsAssumption DEF ID, Bit
<1>2. id = [i \in 1..IdBits |-> IF i <= cpl THEN local[i]
                                ELSE IF i = cpl + 1 THEN 1 - local[i]
                                ELSE random[i]]
  BY RandomKeyBits
<1>. HIDE DEF id
<1>3. id \in ID
  BY <1>1, <1>2 DEF ID, Bit
<1>4. \A i \in 1..cpl : id[i] = local[i]
  BY <1>1, <1>2
<1>5. id[cpl + 1] # local[cpl + 1]
  BY <1>1, <1>2
<1>6. CommonPrefixLen(id, local) = cpl
  BY <1>3, <1>4, <1>5, FirstDifference
<1>. QED BY <1>3, <1>6 DEF id

\* An ID is the key that its own bits, taken for the random ones, give.
LEMMA KeyOfItself ==
  ASSUME local \in ID, NEW id \in ID, CommonPrefixLen(id, local) < IdBits - 1
  PROVE  RandomKey(CommonPrefixLen(id, local), id) = id
<1>. DEFINE cpl == CommonPrefixLen(id, local)
<1>1. /\ IdBits \in Nat
      /\ \A i \in 1..IdBits : local[i] \in {0, 1} /\ id[i] \in {0, 1}
  BY IdBitsAssumption DEF ID, Bit
<1>2. /\ cpl \in 0..IdBits /\ \A i \in 1..cpl : id[i] = local[i]
      /\ cpl < IdBits => id[cpl + 1] # local[cpl + 1]
  BY CommonPrefix
<1>3. cpl < IdBits - 1
  OBVIOUS
<1>. HIDE DEF cpl
<1>4. cpl \in 0..(IdBits - 1) /\ cpl < IdBits
  BY <1>1, <1>2, <1>3
<1>5. RandomKey(cpl, id) =
         [i \in 1..IdBits |-> IF i <= cpl THEN local[i]
                             ELSE IF i = cpl + 1 THEN 1 - local[i]
                             ELSE id[i]]
  BY <1>4, RandomKeyBits
<1>6. ASSUME NEW i \in 1..IdBits
      PROVE  id[i] = IF i <= cpl THEN local[i]
                     ELSE IF i = cpl + 1 THEN 1 - local[i]
                     ELSE id[i]
  <2>1. CASE i <= cpl
    BY <1>2, <1>4, <2>1
  <2>2. CASE i = cpl + 1
    BY <1>1, <1>2, <1>4, <2>2
  <2>3. CASE ~(i <= cpl) /\ i # cpl + 1
    BY <2>3
  <2>. QED BY <2>1, <2>2, <2>3
<1>7. id = [i \in 1..IdBits |-> id[i]]
  BY DEF ID
<1>8. RandomKey(cpl, id) = [i \in 1..IdBits |-> id[i]]
  BY <1>5, <1>6
<1>. QED BY <1>7, <1>8 DEF cpl

LEMMA TargetPrefixIsPrefix ==
  ASSUME local \in ID, NEW random \in Prefix, NEW cpl \in 0..MaxCplForRefresh
  PROVE  TargetPrefix(cpl, random) \in Prefix
<1>1. /\ IdBits \in Nat /\ PrefixBits \in Nat /\ PrefixBits <= IdBits
      /\ \A i \in 1..IdBits : local[i] \in {0, 1}
      /\ \A i \in 1..PrefixBits : random[i] \in {0, 1}
  BY IdBitsAssumption, PrefixMapAssumption DEF ID, Prefix, Bit
<1>2. ASSUME NEW i \in 1..PrefixBits
      PROVE  TargetPrefix(cpl, random)[i] \in {0, 1}
  BY <1>1 DEF TargetPrefix
<1>3. TargetPrefix(cpl, random) = [i \in 1..PrefixBits |-> TargetPrefix(cpl, random)[i]]
  BY DEF TargetPrefix
<1>. HIDE DEF TargetPrefix
<1>. QED BY <1>2, <1>3 DEF Prefix, Bit

LEMMA PreimageHasCpl ==
  ASSUME local \in ID, NEW random \in Prefix, NEW cpl \in 0..MaxCplForRefresh,
         NEW id \in ID, PrefixOf(id) = TargetPrefix(cpl, random)
  PROVE  CommonPrefixLen(id, local) = cpl
<1>1. /\ IdBits \in Nat /\ PrefixBits \in Nat /\ PrefixBits <= IdBits
      /\ cpl + 1 \in 1..PrefixBits /\ cpl \in Nat
      /\ \A i \in 1..IdBits : local[i] \in {0, 1}
  BY IdBitsAssumption, PrefixMapAssumption DEF MaxCplForRefresh, ID, Bit
<1>2. \A i \in 1..PrefixBits : id[i] = TargetPrefix(cpl, random)[i]
  BY DEF PrefixOf
<1>3. \A i \in 1..(cpl + 1) :
         id[i] = IF i = cpl + 1 THEN 1 - local[i] ELSE local[i]
  BY <1>1, <1>2 DEF TargetPrefix
<1>4. \A i \in 1..cpl : id[i] = local[i]
  BY <1>1, <1>3
<1>5. id[cpl + 1] # local[cpl + 1]
  BY <1>1, <1>3
<1>. QED BY <1>1, <1>4, <1>5, FirstDifference

\* A prefix is its own target prefix, too.
LEMMA PrefixOfItself ==
  ASSUME local \in ID, NEW prefix \in Prefix, NEW cpl \in 0..MaxCplForRefresh,
         \A i \in 1..cpl : prefix[i] = local[i], prefix[cpl + 1] # local[cpl + 1]
  PROVE  TargetPrefix(cpl, prefix) = prefix
<1>1. /\ IdBits \in Nat /\ PrefixBits \in Nat /\ PrefixBits <= IdBits
      /\ cpl + 1 \in 1..PrefixBits /\ cpl \in Nat
      /\ \A i \in 1..IdBits : local[i] \in {0, 1}
      /\ \A i \in 1..PrefixBits : prefix[i] \in {0, 1}
  BY IdBitsAssumption, PrefixMapAssumption DEF MaxCplForRefresh, ID, Prefix, Bit
<1>2. prefix[cpl + 1] = 1 - local[cpl + 1]
  BY <1>1
<1>3. ASSUME NEW i \in 1..PrefixBits PROVE TargetPrefix(cpl, prefix)[i] = prefix[i]
  BY <1>1, <1>2 DEF TargetPrefix
<1>4. TargetPrefix(cpl, prefix) = [i \in 1..PrefixBits |-> TargetPrefix(cpl, prefix)[i]]
  BY DEF TargetPrefix
<1>5. prefix = [i \in 1..PrefixBits |-> prefix[i]]
  BY DEF Prefix
<1>. HIDE DEF TargetPrefix
<1>. QED BY <1>3, <1>4, <1>5

-----------------------------------------------------------------------------
\* The search

\* The number's candidate leads to the prefix, and no smaller one does.
IsLeast(n, prefix) ==
    /\ PrefixOf(Hash[Candidate(n)]) = prefix
    /\ \A m \in 0..(n - 1) : PrefixOf(Hash[Candidate(m)]) # prefix

Have == {prefix \in Prefix : found[prefix]}

SearchTypeOK ==
    /\ number \in Number
    /\ ids \in [Prefix -> Number]
    /\ found \in [Prefix -> BOOLEAN]
    /\ count \in Nat

SearchIInv ==
    /\ SearchTypeOK
    /\ count = Cardinality(Have)
    /\ \A prefix \in Prefix : found[prefix] => IsLeast(ids[prefix], prefix)
    /\ \A prefix \in Prefix : ~found[prefix] =>
          \A m \in 0..(number - 1) : PrefixOf(Hash[Candidate(m)]) # prefix

\* There are 2^PrefixBits prefixes: each is the set of its bits that are 1.
LEMMA PrefixesCounted == IsFiniteSet(Prefix) /\ Cardinality(Prefix) = target
<1>. DEFINE B == 1..PrefixBits
            T == SUBSET B
            f == [X \in T |-> [b \in B |-> IF b \in X THEN 1 ELSE 0]]
<1>1. PrefixBits \in Nat \ {0}
  BY PrefixMapAssumption
<1>2. IsFiniteSet(B) /\ Cardinality(B) = PrefixBits
  BY <1>1, FS_Interval
<1>. HIDE DEF B
<1>3. IsFiniteSet(T) /\ Cardinality(T) = 2^PrefixBits
  BY <1>2, FS_SUBSET
<1>4. f \in Bijection(T, Prefix)
  <2>1. f \in [T -> Prefix]
    BY DEF Prefix, Bit, B
  <2>2. ASSUME NEW X \in T, NEW Y \in T, f[X] = f[Y] PROVE X = Y
    <3>1. ASSUME NEW b \in B PROVE b \in X <=> b \in Y
      <4>1. f[X][b] = f[Y][b]
        BY <2>2
      <4>. QED BY <4>1
    <3>. QED BY <3>1
  <2>3. ASSUME NEW p \in Prefix PROVE \E X \in T : f[X] = p
    <3>. DEFINE X == {b \in B : p[b] = 1}
    <3>1. p \in [B -> {0, 1}]
      BY DEF Prefix, Bit, B
    <3>2. X \in T /\ \A b \in B : b \in X <=> p[b] = 1
      OBVIOUS
    <3>. HIDE DEF X
    <3>3. f[X] = [b \in B |-> IF b \in X THEN 1 ELSE 0]
      BY <3>2
    <3>4. \A b \in B : f[X][b] = p[b]
      BY <3>1, <3>2, <3>3
    <3>5. f[X] = p
      BY <3>1, <3>3, <3>4
    <3>. QED BY <3>2, <3>5
  <2>. HIDE DEF f, T
  <2>. QED BY <2>1, <2>2, <2>3 DEF Bijection, Injection, Surjection, IsInjective
<1>. HIDE DEF f, T
<1>5. ExistsBijection(T, Prefix)
  BY <1>4 DEF ExistsBijection
<1>. QED BY <1>3, <1>5, FS_Bijection DEF target

LEMMA SearchInitIInv == SearchInit => SearchIInv
<1>. SUFFICES ASSUME SearchInit PROVE SearchIInv
  OBVIOUS
<1>1. SearchTypeOK
  BY PrefixMapAssumption DEF SearchInit, SearchTypeOK, Number
<1>2. Have = {}
  BY DEF SearchInit, Have
<1>3. count = Cardinality(Have)
  BY <1>2, FS_EmptySet DEF SearchInit
<1>4. \A prefix \in Prefix : ~found[prefix] /\ 0..(number - 1) = {}
  BY DEF SearchInit
<1>. QED BY <1>1, <1>3, <1>4 DEF SearchIInv

LEMMA SearchKeepsIInv ==
  ASSUME SearchIInv, Search
  PROVE  SearchIInv'
<1>. DEFINE id == Hash[Candidate(number)]
            p == PrefixOf(id)
<1>1. /\ MaxUint32 \in Nat /\ PrefixBits \in Nat /\ PrefixBits <= IdBits
      /\ IdBits \in Nat /\ number \in Number /\ number \in Nat
      /\ ids \in [Prefix -> Number] /\ found \in [Prefix -> BOOLEAN] /\ count \in Nat
  BY PrefixMapAssumption, IdBitsAssumption DEF SearchIInv, SearchTypeOK, Number
<1>2. p \in Prefix
  <2>1. Candidate(number) \in PeerID
    BY <1>1, PrefixMapAssumption
  <2>2. id \in ID
    BY <2>1, PrefixMapAssumption
  <2>. QED BY <1>1, <2>2 DEF PrefixOf, Prefix, ID
<1>3. number' \in Number /\ (number' = number + 1 \/ number' = 0)
  BY <1>1 DEF Search, Advance, Number
<1>4. number' \in Nat /\ \A m \in 0..(number' - 1) : m \in 0..(number - 1) \/ m = number
  <2>1. CASE number' = number + 1
    BY <1>1, <2>1
  <2>2. CASE number' = 0
    BY <1>1, <2>2
  <2>. QED BY <1>3, <2>1, <2>2
<1>5. Keep(p)
  BY DEF Search
<1>6. \A m \in 0..(number' - 1), q \in Prefix :
         PrefixOf(Hash[Candidate(m)]) = q => q = p \/ m \in 0..(number - 1)
  BY <1>4
<1>. HIDE DEF p, id
<1>7. CASE found[p]
  <2>1. UNCHANGED <<ids, found, count>>
    BY <1>5, <1>7 DEF Keep
  <2>2. SearchTypeOK' /\ Have' = Have
    BY <1>1, <1>3, <2>1 DEF SearchTypeOK, Have
  <2>3. \A q \in Prefix : found'[q] => IsLeast(ids[q], q)'
    BY <2>1 DEF SearchIInv, IsLeast
  <2>4. ASSUME NEW q \in Prefix, ~found'[q], NEW m \in 0..(number' - 1)
        PROVE  PrefixOf(Hash[Candidate(m)]) # q
    BY <1>6, <1>7, <2>1, <2>4 DEF SearchIInv
  <2>. QED BY <2>1, <2>2, <2>3, <2>4 DEF SearchIInv
<1>8. CASE ~found[p]
  <2>1. /\ found' = [found EXCEPT ![p] = TRUE]
        /\ ids' = [ids EXCEPT ![p] = number]
        /\ count' = count + 1
    BY <1>5, <1>8 DEF Keep
  <2>2. SearchTypeOK'
    <3>1. ids' \in [Prefix -> Number]
      BY <1>1, <2>1
    <3>2. found' \in [Prefix -> BOOLEAN]
      BY <1>1, <2>1
    <3>3. count' \in Nat
      BY <1>1, <2>1
    <3>. QED BY <1>3, <3>1, <3>2, <3>3 DEF SearchTypeOK
  <2>3. Have' = Have \cup {p} /\ p \notin Have /\ Have \subseteq Prefix
    BY <1>1, <1>2, <1>8, <2>1 DEF Have
  <2>4. IsFiniteSet(Have)
    BY <2>3, PrefixesCounted, FS_Subset
  <2>5. count' = Cardinality(Have')
    BY <2>1, <2>3, <2>4, FS_AddElement DEF SearchIInv
  <2>6. IsLeast(number, p)
    <3>1. PrefixOf(Hash[Candidate(number)]) = p
      BY DEF p, id
    <3>. QED BY <1>2, <1>8, <3>1 DEF SearchIInv, IsLeast
  <2>7. \A q \in Prefix : found'[q] => IsLeast(ids[q], q)'
    <3>1. ASSUME NEW q \in Prefix, found'[q] PROVE IsLeast(ids'[q], q)
      <4>1. CASE q = p
        BY <1>1, <1>2, <2>1, <2>6, <4>1
      <4>2. CASE q # p
        <5>1. found[q] /\ ids'[q] = ids[q]
          BY <1>1, <2>1, <3>1, <4>2
        <5>. QED BY <5>1 DEF SearchIInv
      <4>. QED BY <4>1, <4>2
    <3>. QED BY <3>1 DEF IsLeast
  <2>8. ASSUME NEW q \in Prefix, ~found'[q], NEW m \in 0..(number' - 1)
        PROVE  PrefixOf(Hash[Candidate(m)]) # q
    <3>1. q # p /\ ~found[q]
      BY <1>1, <1>2, <2>1, <2>8
    <3>. QED BY <1>6, <3>1 DEF SearchIInv
  <2>. QED BY <2>2, <2>5, <2>7, <2>8 DEF SearchIInv
<1>. QED BY <1>7, <1>8

\* Once all are counted, all are found.
LEMMA WrittenIsComplete ==
  ASSUME SearchIInv, mapWritten
  PROVE  \A prefix \in Prefix : found[prefix] /\ IsLeast(keyPrefixMap[prefix], prefix)
<1>. DEFINE C == Cardinality(Have)
            P == Cardinality(Prefix)
<1>1. Have \in SUBSET Prefix
  BY DEF Have
<1>2. C <= P /\ (P = C => Prefix = Have)
  BY <1>1, PrefixesCounted, FS_Subset
<1>3. P \in Nat /\ C \in Nat
  BY <1>1, PrefixesCounted, FS_Subset, FS_CardinalityType
<1>4. C >= P
  BY PrefixesCounted DEF SearchIInv, mapWritten
<1>. HIDE DEF C, P
<1>5. Prefix = Have
  BY <1>2, <1>3, <1>4
<1>6. \A prefix \in Prefix : found[prefix]
  BY <1>5 DEF Have
<1>. QED BY <1>6 DEF SearchIInv, keyPrefixMap

\* The peer ID with a key of the map, hashed, begins with the prefix.
LEMMA PeerIDHasPrefix ==
  ASSUME SearchIInv, mapWritten, NEW prefix \in Prefix
  PROVE  LET id == Hash[PeerIDFor(keyPrefixMap[prefix])]
         IN  id \in ID /\ PrefixOf(id) = prefix
<1>1. IsLeast(keyPrefixMap[prefix], prefix)
  BY WrittenIsComplete
<1>2. keyPrefixMap[prefix] \in Number
  BY DEF SearchIInv, SearchTypeOK, keyPrefixMap
<1>3. PeerIDFor(keyPrefixMap[prefix]) = Candidate(keyPrefixMap[prefix])
  BY DEF PeerIDFor, Candidate
<1>4. Candidate(keyPrefixMap[prefix]) \in PeerID
  BY <1>2, PrefixMapAssumption
<1>. QED BY <1>1, <1>3, <1>4, PrefixMapAssumption DEF IsLeast

-----------------------------------------------------------------------------
LEMMA UintIsNat ==
  ASSUME NEW cpl \in Uint
  PROVE  cpl \in Nat
BY KeyGenerationAssumption DEF Uint

\* Below the greatest int the check of GenRandomKey is exact enough.
LEMMA RefusedInTime ==
  ASSUME NEW cpl \in Uint, cpl < MaxInt, OutOfRange(cpl)
  PROVE  Refused(cpl)
<1>. DEFINE b == IdBits \div ByteBits
            c == cpl \div ByteBits
            W == 2 * MaxInt + 2
<1>1. /\ ByteBits \in Nat \ {0} /\ IdBits \in Nat \ {0} /\ IdBits % ByteBits = 0
      /\ MaxInt \in Nat /\ cpl \in Nat
  BY KeyGenerationAssumption, IdBitsAssumption, UintIsNat
<1>2. /\ b \in Nat /\ IdBits = ByteBits * b
      /\ c \in Nat /\ cpl = ByteBits * c + (cpl % ByteBits)
      /\ cpl % ByteBits \in 0..(ByteBits - 1)
  BY <1>1, Z3
<1>3. c >= b
  BY DEF OutOfRange
<1>4. W \in Nat /\ cpl + 1 < W /\ cpl + 1 <= MaxInt
  BY <1>1
<1>. HIDE DEF b, c, W
<1>5. ByteBits * c >= ByteBits * b
  BY <1>1, <1>2, <1>3, Z3
<1>6. ByteBits * c \in Nat /\ ByteBits * b \in Nat
  BY <1>1, <1>2, Z3
<1>7. cpl + 1 >= IdBits
  BY <1>1, <1>2, <1>5, <1>6
<1>8. (cpl + 1) % W = cpl + 1
  BY <1>1, <1>4
<1>. QED BY <1>1, <1>4, <1>7, <1>8 DEF Refused, AsInt, W

-----------------------------------------------------------------------------
IInv ==
    /\ SearchIInv
    /\ local \in ID
    /\ GeneratedHasCpl
    /\ PanicsOnlyOnOverflow

LEMMA IInvHolds == Spec => []IInv
<1>1. Init => IInv
  BY SearchInitIInv DEF Init, IInv, GeneratedHasCpl, PanicsOnlyOnOverflow, Failed
<1>2. IInv /\ [Next]_vars => IInv'
  <2>. SUFFICES ASSUME IInv, [Next]_vars PROVE IInv'
    OBVIOUS
  <2>1. CASE Search /\ UNCHANGED callVars
    <3>1. SearchIInv'
      BY <2>1, SearchKeepsIInv DEF IInv
    <3>. QED BY <2>1, <3>1
             DEF IInv, GeneratedHasCpl, PanicsOnlyOnOverflow, callVars
  <2>2. ASSUME UNCHANGED searchVars PROVE SearchIInv'
    BY <2>2 DEF IInv, SearchIInv, SearchTypeOK, IsLeast, Have, searchVars
  <2>3. ASSUME NEW cpl \in Uint, GenRandomKey(cpl), UNCHANGED searchVars PROVE IInv'
    <3>1. local' = local /\ local \in ID /\ asked'.cpl = cpl /\ cpl \in Nat
      BY <2>3, UintIsNat DEF GenRandomKey, IInv
    <3>2. ASSUME ~OutOfRange(cpl), NEW random \in ID,
                 result' = Returned(RandomKey(cpl, random))
          PROVE  CommonPrefixLen(result'.id, local') = asked'.cpl
      BY <3>1, <3>2, InRange, RandomKeyHasCpl DEF Returned
    <3>3. GeneratedHasCpl'
      BY <2>3, <3>2 DEF GenRandomKey, GeneratedHasCpl, Failed
    <3>4. ASSUME result'.outcome = "panic" PROVE cpl >= MaxInt
      <4>1. ~Refused(cpl) /\ OutOfRange(cpl)
        BY <2>3, <3>4 DEF GenRandomKey, Failed, Returned
      <4>. QED BY <3>1, <4>1, RefusedInTime, KeyGenerationAssumption
    <3>. QED BY <2>2, <2>3, <3>1, <3>3, <3>4 DEF IInv, PanicsOnlyOnOverflow
  <2>4. ASSUME NEW cpl \in Uint, GenRandPeerID(cpl), mapWritten, UNCHANGED searchVars
        PROVE  IInv'
    <3>1. local' = local /\ local \in ID /\ asked'.cpl = cpl /\ cpl \in Nat
      BY <2>4, UintIsNat DEF GenRandPeerID, IInv
    <3>2. ASSUME cpl <= MaxCplForRefresh, NEW random \in Prefix,
                 result' = Returned(Hash[PeerIDFor(keyPrefixMap[TargetPrefix(cpl, random)])])
          PROVE  CommonPrefixLen(result'.id, local') = asked'.cpl
      <4>1. cpl \in 0..MaxCplForRefresh
        BY <3>1, <3>2, PrefixMapAssumption DEF MaxCplForRefresh
      <4>2. TargetPrefix(cpl, random) \in Prefix
        BY <3>1, <4>1, TargetPrefixIsPrefix
      <4>. DEFINE id == Hash[PeerIDFor(keyPrefixMap[TargetPrefix(cpl, random)])]
      <4>3. id \in ID /\ PrefixOf(id) = TargetPrefix(cpl, random)
        BY <2>4, <4>2, PeerIDHasPrefix DEF IInv
      <4>4. result'.id = id
        BY <3>2 DEF Returned
      <4>. HIDE DEF id
      <4>. QED BY <3>1, <4>1, <4>3, <4>4, PreimageHasCpl
    <3>3. GeneratedHasCpl'
      BY <2>4, <3>2 DEF GenRandPeerID, GeneratedHasCpl, Failed
    <3>4. result'.outcome # "panic"
      BY <2>4 DEF GenRandPeerID, Failed, Returned
    <3>. QED BY <2>2, <2>4, <3>1, <3>3, <3>4 DEF IInv, PanicsOnlyOnOverflow
  <2>5. CASE UNCHANGED vars
    BY <2>2, <2>5 DEF IInv, GeneratedHasCpl, PanicsOnlyOnOverflow, vars, callVars
  <2>. QED BY <2>1, <2>3, <2>4, <2>5 DEF Next
<1>. QED BY <1>1, <1>2, PTL DEF Spec

\* Whatever the hash, the map that is written leads to every prefix, by the
\* first candidate that does.
THEOREM MapHasLeastPreimagesHolds == Spec => []MapHasLeastPreimages
<1>1. IInv => MapHasLeastPreimages
  BY WrittenIsComplete DEF IInv, MapHasLeastPreimages, IsLeast
<1>. QED BY <1>1, IInvHolds, PTL

\* GenRandomKey returns for every Cpl below the greatest int.
THEOREM PanicsOnlyOnOverflowHolds == Spec => []PanicsOnlyOnOverflow
BY IInvHolds, PTL DEF IInv

\* GenRandPeerIDWithCPL leaves no peer ID of the map out.
THEOREM EveryPrefixIsPossibleHolds == Spec => []EveryPrefixIsPossible
<1>1. IInv => EveryPrefixIsPossible
  BY PrefixOfItself DEF IInv, EveryPrefixIsPossible
<1>. QED BY <1>1, IInvHolds, PTL

\* Whatever key or peer ID is generated, it has the Cpl asked for.
THEOREM GeneratedHasCplHolds == Spec => []GeneratedHasCpl
BY IInvHolds, PTL DEF IInv

\* No key is out of reach: random bits can give every ID of a Cpl.
THEOREM EveryKeyIsPossibleHolds == Spec => []EveryKeyIsPossible
<1>1. IInv => EveryKeyIsPossible
  BY KeyOfItself DEF IInv, EveryKeyIsPossible
<1>. QED BY <1>1, IInvHolds, PTL

-----------------------------------------------------------------------------
(* The search ends in time.  What can be proved of that: MaxUint32 - number*)
(* is not negative and gets smaller with every round until the map is      *)
(* written.  That the search does take its rounds is the run's business.   *)

\* Every candidate leads to a prefix.
LEMMA CandidatePrefix ==
  ASSUME NEW n \in Number
  PROVE  PrefixOf(Hash[Candidate(n)]) \in Prefix
<1>1. Hash[Candidate(n)] \in ID
  BY PrefixMapAssumption
<1>. QED BY <1>1, PrefixMapAssumption, IdBitsAssumption DEF PrefixOf, Prefix, ID

\* A prefix that is still missing will come up, and not among the candidates
\* that the search has done with.
LEMMA MissingIsAhead ==
  ASSUME SearchIInv, NEW prefix \in Prefix, ~found[prefix]
  PROVE  \E n \in number..MaxUint32 : PrefixOf(Hash[Candidate(n)]) = prefix
<1>1. number \in Nat /\ MaxUint32 \in Nat
  BY PrefixMapAssumption DEF SearchIInv, SearchTypeOK, Number
<1>2. PICK n \in Number : PrefixOf(Hash[Candidate(n)]) = prefix
  BY HashAssumption
<1>3. n \notin 0..(number - 1)
  BY <1>2 DEF SearchIInv
<1>4. n \in number..MaxUint32
  BY <1>1, <1>3 DEF Number
<1>. QED BY <1>2, <1>4

\* Before the map is written some prefix is missing.
MissingOne == ~mapWritten => \E prefix \in Prefix : ~found[prefix]

LEMMA SomeIsMissing == SearchIInv => MissingOne
<1>. SUFFICES ASSUME SearchIInv, ~mapWritten, \A prefix \in Prefix : found[prefix]
              PROVE  FALSE
  BY DEF MissingOne
<1>1. Have = Prefix
  BY DEF Have
<1>2. count = target /\ count \in Nat
  BY <1>1, PrefixesCounted DEF SearchIInv, SearchTypeOK
<1>. QED BY <1>2 DEF mapWritten

\* Some candidate that is still to come leads to a prefix that is missing.
CandidateAhead ==
    ~mapWritten =>
        \E n \in number..MaxUint32 : ~found[PrefixOf(Hash[Candidate(n)])]

\* A round after which the map is not yet complete takes the next number.
GoesForward == ~mapWritten' => number' = number + 1 /\ number' <= MaxUint32

\* While the search goes on there is a candidate left with a prefix that it
\* still needs: it is never in vain.
THEOREM SearchIsNotInVain == Spec => []CandidateAhead
<1>1. SearchIInv => CandidateAhead
  BY SomeIsMissing, MissingIsAhead DEF CandidateAhead, MissingOne
<1>2. IInv => CandidateAhead
  BY <1>1 DEF IInv
<1>. QED BY <1>2, IInvHolds, PTL

LEMMA GoesForwardStep == SearchIInv /\ MissingOne' /\ [Next]_vars => [GoesForward]_vars
<1>. SUFFICES ASSUME SearchIInv, MissingOne', Next, ~mapWritten'
              PROVE  number' = number + 1 /\ number' <= MaxUint32
  BY DEF GoesForward
<1>1. Search
  BY DEF Next, searchVars, mapWritten
<1>2. MaxUint32 \in Nat /\ number \in Number /\ number \in Nat
  BY PrefixMapAssumption DEF SearchIInv, SearchTypeOK, Number
<1>3. PICK prefix \in Prefix : ~found'[prefix]
  BY DEF MissingOne
<1>. DEFINE p == PrefixOf(Hash[Candidate(number)])
<1>4. p \in Prefix /\ Keep(p) /\ found \in [Prefix -> BOOLEAN]
  BY <1>1, <1>2, CandidatePrefix DEF Search, SearchIInv, SearchTypeOK
<1>. HIDE DEF p
<1>5. ~found[prefix] /\ p # prefix
  BY <1>3, <1>4 DEF Keep
<1>6. PICK n \in number..MaxUint32 : PrefixOf(Hash[Candidate(n)]) = prefix
  BY <1>5, MissingIsAhead
<1>7. n # number
  BY <1>5, <1>6 DEF p
<1>8. number < MaxUint32
  BY <1>2, <1>6, <1>7
<1>9. number' = (number + 1) % (MaxUint32 + 1)
  BY <1>1 DEF Search, Advance
<1>. QED BY <1>2, <1>8, <1>9

\* Until the map is written the counter goes up by one in every round and does
\* not wrap around, although it is exactly as wide as the candidates need.
THEOREM SearchGoesForward == Spec => [][GoesForward]_vars
<1>1. IInv => SearchIInv
  BY DEF IInv
<1>. QED BY <1>1, IInvHolds, SomeIsMissing, GoesForwardStep, PTL DEF Spec
=============================================================================
