------------------------- MODULE NearestPeers_proofs -------------------------
(***************************************************************************)
(* NearestPeers and Find are exact, in every table that Placement holds    *)
(* of, for any IDs, bucket size and number of peers asked for.             *)
(***************************************************************************)
EXTENDS NearestPeers, RoutingTable_proofs, KeySpace_proofs

-----------------------------------------------------------------------------
(* Prefixes and distances.                                                 *)

\* The first differing bit decides which of two peers is nearer.
LEMMA NearerAtBit ==
  ASSUME NEW target \in ID, NEW p \in Peer, NEW q \in Peer, NEW i \in 1..IdBits,
         DhtId[p][i] = target[i], DhtId[q][i] # target[i],
         \A j \in 1..(i - 1) : DhtId[p][j] = DhtId[q][j]
  PROVE  Nearer(target, p, q)
<1>. DEFINE a == DhtId[p]
            b == DhtId[q]
<1>1. a \in ID /\ b \in ID /\ IdBits \in Nat
  BY DhtIdAssumption, IdBitsAssumption
<1>3. \A j \in 1..IdBits :
          /\ Xor(target, a)[j] = IF target[j] = a[j] THEN 0 ELSE 1
          /\ Xor(target, b)[j] = IF target[j] = b[j] THEN 0 ELSE 1
  BY DEF Xor
<1>4. Xor(target, a)[i] < Xor(target, b)[i]
  BY <1>3
<1>5. \A j \in 1..(i - 1) : j \in 1..IdBits
  BY <1>1
<1>6. \A j \in 1..(i - 1) : Xor(target, a)[j] = Xor(target, b)[j]
  BY <1>3, <1>5
<1>. QED BY <1>4, <1>6 DEF Nearer, CloserTo, Less

\* A peer that leaves the local ID before the target does is farther from the
\* target than every peer that stays with the local ID for longer.
LEMMA NearerThanLeft ==
  ASSUME NEW target \in ID, NEW p \in Peer, NEW q \in Peer,
         Cpl[q] < CommonPrefixLen(target, Local), Cpl[q] < Cpl[p]
  PROVE  Nearer(target, p, q)
<1>. DEFINE i == Cpl[q] + 1
            t == CommonPrefixLen(target, Local)
<1>1. /\ Local \in ID /\ DhtId[p] \in ID /\ DhtId[q] \in ID
      /\ Cpl[p] = CommonPrefixLen(DhtId[p], Local)
      /\ Cpl[q] = CommonPrefixLen(DhtId[q], Local)
      /\ IdBits \in Nat
  BY DhtIdAssumption, IdBitsAssumption
<1>2. /\ t \in 0..IdBits /\ \A j \in 1..t : target[j] = Local[j]
  BY <1>1, CommonPrefix
<1>3. /\ Cpl[p] \in 0..IdBits /\ \A j \in 1..Cpl[p] : DhtId[p][j] = Local[j]
  BY <1>1, CommonPrefix
<1>4. /\ Cpl[q] \in 0..IdBits /\ \A j \in 1..Cpl[q] : DhtId[q][j] = Local[j]
      /\ Cpl[q] < IdBits => DhtId[q][Cpl[q] + 1] # Local[Cpl[q] + 1]
  BY <1>1, CommonPrefix
<1>5. i \in 1..IdBits /\ i \in 1..t /\ i \in 1..Cpl[p]
  BY <1>1, <1>2, <1>3, <1>4
<1>6. DhtId[p][i] = target[i] /\ DhtId[q][i] # target[i]
  <2>1. DhtId[q][i] # Local[i]
    BY <1>1, <1>4, <1>5
  <2>2. DhtId[p][i] = Local[i] /\ target[i] = Local[i]
    BY <1>2, <1>3, <1>5
  <2>. QED BY <2>1, <2>2
<1>7. \A j \in 1..(i - 1) : j \in 1..Cpl[p] /\ j \in 1..Cpl[q]
  BY <1>3, <1>4
<1>8. \A j \in 1..(i - 1) : DhtId[p][j] = DhtId[q][j]
  BY <1>3, <1>4, <1>7
<1>. QED BY <1>5, <1>6, <1>8, NearerAtBit

\* A peer that leaves the local ID together with the target is nearer to the
\* target than every peer that stays with the local ID for longer.
LEMMA NearerThanRight ==
  ASSUME NEW target \in ID, NEW p \in Peer, NEW q \in Peer,
         Cpl[p] = CommonPrefixLen(target, Local), Cpl[p] < Cpl[q]
  PROVE  Nearer(target, p, q)
<1>. DEFINE i == Cpl[p] + 1
<1>1. /\ Local \in ID /\ DhtId[p] \in ID /\ DhtId[q] \in ID
      /\ Cpl[p] = CommonPrefixLen(DhtId[p], Local)
      /\ Cpl[q] = CommonPrefixLen(DhtId[q], Local)
      /\ IdBits \in Nat
  BY DhtIdAssumption, IdBitsAssumption
<1>2. Cpl[p] < IdBits => target[i] # Local[i]
  <2>. DEFINE t == CommonPrefixLen(target, Local)
  <2>1. t < IdBits => target[t + 1] # Local[t + 1]
    BY <1>1, CommonPrefix
  <2>2. t = Cpl[p]
    OBVIOUS
  <2>. HIDE DEF t
  <2>. QED BY <2>1, <2>2
<1>3. /\ Cpl[p] \in 0..IdBits /\ \A j \in 1..Cpl[p] : DhtId[p][j] = Local[j]
      /\ Cpl[p] < IdBits => DhtId[p][i] # Local[i]
  BY <1>1, CommonPrefix
<1>4. /\ Cpl[q] \in 0..IdBits /\ \A j \in 1..Cpl[q] : DhtId[q][j] = Local[j]
  BY <1>1, CommonPrefix
<1>5. i \in 1..IdBits /\ i \in 1..Cpl[q] /\ Cpl[p] < IdBits
  BY <1>1, <1>3, <1>4
<1>6. DhtId[p][i] = target[i] /\ DhtId[q][i] # target[i]
  <2>1. DhtId[p][i] # Local[i] /\ target[i] # Local[i] /\ DhtId[q][i] = Local[i]
    BY <1>2, <1>3, <1>4, <1>5
  <2>2. Local[i] \in Bit /\ DhtId[p][i] \in Bit /\ target[i] \in Bit
    BY <1>1, <1>5 DEF ID
  <2>. QED BY <2>1, <2>2 DEF Bit
<1>7. \A j \in 1..(i - 1) : j \in 1..Cpl[p] /\ j \in 1..Cpl[q]
  BY <1>3, <1>4
<1>8. \A j \in 1..(i - 1) : DhtId[p][j] = DhtId[q][j]
  BY <1>3, <1>4, <1>7
<1>. QED BY <1>5, <1>6, <1>8, NearerAtBit

-----------------------------------------------------------------------------
(* Nearer orders the peers, and ByDistance lists them in that order.       *)

LEMMA NearerIsOrder ==
  ASSUME NEW target \in ID
  PROVE  /\ \A p \in Peer : ~Nearer(target, p, p)
         /\ \A p, q \in Peer : Nearer(target, p, q) => ~Nearer(target, q, p)
         /\ \A p, q, r \in Peer :
               Nearer(target, p, q) /\ Nearer(target, q, r) => Nearer(target, p, r)
         /\ \A p, q \in Peer :
               p # q => Nearer(target, p, q) \/ Nearer(target, q, p)
<1>. DEFINE d(p) == Xor(target, DhtId[p])
            N(p, q) == \E i \in 1..IdBits :
                          /\ d(p)[i] < d(q)[i]
                          /\ \A j \in 1..(i - 1) : d(p)[j] = d(q)[j]
<1>1. \A p, q : Nearer(target, p, q) <=> N(p, q)
  BY DEF Nearer, CloserTo, Less
<1>2. IdBits \in Nat /\ \A p \in Peer : DhtId[p] \in ID
  BY IdBitsAssumption, DhtIdAssumption
<1>3. \A p \in Peer : \A i \in 1..IdBits :
         /\ d(p)[i] = IF target[i] = DhtId[p][i] THEN 0 ELSE 1
         /\ d(p)[i] \in {0, 1}
  BY DEF Xor
<1>. HIDE DEF d
<1>4. ASSUME NEW p \in Peer
      PROVE  ~N(p, p)
  <2>1. \A i \in 1..IdBits : ~(d(p)[i] < d(p)[i])
    BY <1>3
  <2>. QED BY <2>1
<1>5. ASSUME NEW p \in Peer, NEW q \in Peer, NEW r \in Peer, N(p, q), N(q, r)
      PROVE  N(p, r)
  <2>1. PICK i \in 1..IdBits : /\ d(p)[i] < d(q)[i]
                               /\ \A j \in 1..(i - 1) : d(p)[j] = d(q)[j]
    BY <1>5
  <2>2. PICK k \in 1..IdBits : /\ d(q)[k] < d(r)[k]
                               /\ \A j \in 1..(k - 1) : d(q)[j] = d(r)[j]
    BY <1>5
  <2>3. CASE i <= k
    <3>1. d(p)[i] < d(r)[i]
      BY <1>2, <1>3, <2>1, <2>2, <2>3
    <3>2. \A j \in 1..(i - 1) : d(p)[j] = d(r)[j]
      BY <1>2, <2>1, <2>2, <2>3
    <3>. QED BY <3>1, <3>2
  <2>4. CASE k < i
    <3>1. d(p)[k] < d(r)[k]
      BY <1>2, <1>3, <2>1, <2>2, <2>4
    <3>2. \A j \in 1..(k - 1) : d(p)[j] = d(r)[j]
      BY <1>2, <2>1, <2>2, <2>4
    <3>. QED BY <3>1, <3>2
  <2>. QED BY <1>2, <2>3, <2>4
<1>6. ASSUME NEW p \in Peer, NEW q \in Peer, p # q
      PROVE  N(p, q) \/ N(q, p)
  <2>. DEFINE differ == {i \in 1..IdBits : DhtId[p][i] # DhtId[q][i]}
  <2>1. DhtId[p] # DhtId[q]
    BY <1>6, DhtIdAssumption
  <2>2. differ # {}
    BY <1>2, <2>1 DEF ID
  <2>3. differ \in SUBSET Int /\ IsFiniteSet(differ)
    <3>1. IsFiniteSet(1..IdBits) /\ differ \in SUBSET (1..IdBits)
      BY <1>2, FS_Interval
    <3>2. differ \in SUBSET Int
      BY <1>2
    <3>. HIDE DEF differ
    <3>. QED BY <3>1, <3>2, FS_Subset
  <2>4. PICK i \in differ : \A j \in differ : i <= j
    BY <2>2, <2>3, FiniteHasLeast
  <2>5. \A j \in 1..(i - 1) : DhtId[p][j] = DhtId[q][j] /\ j \in 1..IdBits
    BY <1>2, <2>4
  <2>6. \A j \in 1..(i - 1) : d(p)[j] = d(q)[j]
    BY <1>3, <2>5
  <2>7. d(p)[i] # d(q)[i]
    <3>1. target[i] \in {0, 1} /\ DhtId[p][i] \in {0, 1} /\ DhtId[q][i] \in {0, 1}
      BY <1>2 DEF ID, Bit
    <3>. QED BY <1>3, <3>1
  <2>8. d(p)[i] < d(q)[i] \/ d(q)[i] < d(p)[i]
    BY <1>3, <2>7
  <2>. QED BY <2>6, <2>8
<1>7. \A p, q \in Peer : N(p, q) => ~N(q, p)
  BY <1>4, <1>5
<1>. HIDE DEF N
<1>. QED BY <1>1, <1>4, <1>5, <1>6, <1>7

\* The place of p among S: what ByDistance sorts by.
NearerIn(S, target, p) == {q \in S : Nearer(target, q, p)}

LEMMA Ranks ==
  ASSUME NEW target \in ID, NEW S \in SUBSET Peer, IsFiniteSet(S)
  PROVE  /\ Cardinality(S) \in Nat
         /\ \A p \in S : Cardinality(NearerIn(S, target, p)) \in 0..(Cardinality(S) - 1)
         /\ \A p, q \in S :
               Nearer(target, p, q) <=>
                   Cardinality(NearerIn(S, target, p))
                       < Cardinality(NearerIn(S, target, q))
<1>. DEFINE rank(p) == Cardinality(NearerIn(S, target, p))
<1>1. Cardinality(S) \in Nat
  BY FS_CardinalityType
<1>2. ASSUME NEW p \in S PROVE rank(p) \in 0..(Cardinality(S) - 1)
  <2>1. NearerIn(S, target, p) \in SUBSET S /\ p \notin NearerIn(S, target, p)
    BY NearerIsOrder DEF NearerIn
  <2>2. /\ IsFiniteSet(NearerIn(S, target, p))
        /\ rank(p) <= Cardinality(S)
        /\ rank(p) # Cardinality(S)
    BY <2>1, FS_Subset
  <2>3. rank(p) \in Nat
    BY <2>2, FS_CardinalityType
  <2>. QED BY <1>1, <2>2, <2>3
<1>3. ASSUME NEW p \in S, NEW q \in S, Nearer(target, p, q)
      PROVE  rank(p) < rank(q)
  <2>1. /\ NearerIn(S, target, p) \in SUBSET NearerIn(S, target, q)
        /\ p \in NearerIn(S, target, q) /\ p \notin NearerIn(S, target, p)
    BY <1>3, NearerIsOrder DEF NearerIn
  <2>2. IsFiniteSet(NearerIn(S, target, q))
    BY FS_Subset DEF NearerIn
  <2>3. rank(p) <= rank(q) /\ rank(p) # rank(q)
    BY <2>1, <2>2, FS_Subset
  <2>. HIDE DEF rank
  <2>. QED BY <1>1, <1>2, <2>3
<1>4. ASSUME NEW p \in S, NEW q \in S, ~Nearer(target, p, q)
      PROVE  ~(rank(p) < rank(q))
  <2>. HIDE DEF rank
  <2>1. CASE p = q
    BY <1>1, <1>2, <2>1
  <2>2. CASE p # q
    <3>1. Nearer(target, q, p)
      BY <1>4, <2>2, NearerIsOrder
    <3>2. rank(q) < rank(p)
      BY <1>3, <3>1
    <3>. QED BY <1>1, <1>2, <3>2
  <2>. QED BY <2>1, <2>2
<1>. QED BY <1>1, <1>2, <1>3, <1>4

\* No two peers have one place.
LEMMA RanksDiffer ==
  ASSUME NEW target \in ID, NEW S \in SUBSET Peer, IsFiniteSet(S),
         NEW p \in S, NEW q \in S,
         Cardinality(NearerIn(S, target, p)) = Cardinality(NearerIn(S, target, q))
  PROVE  p = q
<1>. DEFINE rank(r) == Cardinality(NearerIn(S, target, r))
<1>1. /\ Cardinality(S) \in Nat
      /\ rank(p) \in 0..(Cardinality(S) - 1) /\ rank(q) \in 0..(Cardinality(S) - 1)
      /\ Nearer(target, p, q) <=> rank(p) < rank(q)
      /\ Nearer(target, q, p) <=> rank(q) < rank(p)
  BY Ranks
<1>2. rank(p) = rank(q)
  OBVIOUS
<1>. HIDE DEF rank
<1>3. ~(rank(p) < rank(q)) /\ ~(rank(q) < rank(p))
  BY <1>1, <1>2
<1>. QED BY <1>1, <1>3, NearerIsOrder

\* Every place is taken, as the ranks of n peers are n different numbers
\* below n.
LEMMA ByDistanceSorts ==
  ASSUME NEW target \in ID, NEW S \in SUBSET Peer, IsFiniteSet(S)
  PROVE  LET s == ByDistance(S, target)
         IN  /\ s \in Seq(Peer) /\ Len(s) = Cardinality(S)
             /\ Cardinality(S) \in Nat
             /\ \A r \in 1..Len(s) : s[r] \in S
             /\ \A r \in 1..Len(s) : Cardinality(NearerIn(S, target, s[r])) = r - 1
             /\ \A r \in 1..Len(s) : \A p \in S :
                   Nearer(target, p, s[r]) <=> \E j \in 1..(r - 1) : s[j] = p
<1>. DEFINE n == Cardinality(S)
            rank(p) == Cardinality(NearerIn(S, target, p))
            f == [p \in S |-> rank(p)]
            s == ByDistance(S, target)
<1>1. /\ n \in Nat
      /\ \A p \in S : rank(p) \in 0..(n - 1)
      /\ \A p, q \in S : Nearer(target, p, q) <=> rank(p) < rank(q)
  BY Ranks
<1>2. \A p, q \in S : rank(p) = rank(q) => p = q
  BY RanksDiffer
<1>3. \A r \in 1..n : \E p \in S : rank(p) = r - 1
  <2>1. f \in Injection(S, 0..(n - 1))
    BY <1>1, <1>2 DEF Injection, IsInjective
  <2>2. IsFiniteSet(0..(n - 1)) /\ Cardinality(0..(n - 1)) = n
    <3>1. 0 \in Int /\ n - 1 \in Int /\ n \in Nat
      BY <1>1
    <3>. HIDE DEF n
    <3>2. IsFiniteSet(0..(n - 1))
      BY <3>1, FS_Interval
    <3>3. Cardinality(0..(n - 1)) = IF 0 > n - 1 THEN 0 ELSE (n - 1) - 0 + 1
      BY <3>1, FS_Interval
    <3>. QED BY <3>1, <3>2, <3>3
  <2>3. f \in Surjection(S, 0..(n - 1))
    BY <2>1, <2>2, FS_Injection
  <2>4. ASSUME NEW r \in 1..n PROVE \E p \in S : rank(p) = r - 1
    <3>1. r - 1 \in 0..(n - 1)
      BY <1>1
    <3>2. \E p \in S : f[p] = r - 1
      BY <2>3, <3>1 DEF Surjection
    <3>. QED BY <3>2
  <2>. QED BY <2>4
<1>4. s = [r \in 1..n |-> CHOOSE p \in S : rank(p) = r - 1]
  BY DEF ByDistance, NearerIn
<1>. HIDE DEF n, rank, s
<1>5. \A r \in 1..n : s[r] \in S /\ rank(s[r]) = r - 1
  BY <1>3, <1>4
<1>6. s \in Seq(Peer) /\ Len(s) = n
  <2>1. s \in [1..n -> Peer]
    BY <1>4, <1>5
  <2>. QED BY <1>1, <2>1, SeqDef
<1>7. ASSUME NEW r \in 1..n, NEW p \in S
      PROVE  Nearer(target, p, s[r]) <=> \E j \in 1..(r - 1) : s[j] = p
  <2>1. Nearer(target, p, s[r]) <=> rank(p) < r - 1
    BY <1>1, <1>5
  <2>2. ASSUME rank(p) < r - 1 PROVE \E j \in 1..(r - 1) : s[j] = p
    <3>1. rank(p) + 1 \in 1..n /\ rank(p) + 1 \in 1..(r - 1) /\ rank(p) \in Nat
      BY <1>1, <2>2
    <3>2. s[rank(p) + 1] \in S /\ rank(s[rank(p) + 1]) = rank(p)
      BY <1>5, <3>1
    <3>3. s[rank(p) + 1] = p
      BY <1>2, <3>2
    <3>. QED BY <3>1, <3>3
  <2>3. ASSUME NEW j \in 1..(r - 1), s[j] = p PROVE rank(p) < r - 1
    BY <1>1, <1>5, <2>3
  <2>. QED BY <2>1, <2>2, <2>3
<1>. QED BY <1>1, <1>5, <1>6, <1>7 DEF n, s, rank

-----------------------------------------------------------------------------
(* What NearestPeers gathers, and what it leaves out.                      *)

LEMMA TablePeersFinite ==
  ASSUME IInv
  PROVE  IsFiniteSet(TablePeers) /\ TablePeers \in SUBSET Peer
<1>1. IsTable(buckets) /\ WithinCapacity(buckets) /\ TablePeers \in SUBSET Peer
  BY IInvTable
<1>2. buckets \in [1..Len(buckets) -> SUBSET Peer] /\ Len(buckets) \in Nat
  BY <1>1 DEF IsTable
<1>3. buckets \in Surjection(1..Len(buckets), Buckets(buckets))
  BY <1>2 DEF Surjection, Buckets
<1>4. IsFiniteSet(Buckets(buckets))
  BY <1>2, <1>3, FS_Interval, FS_Surjection
<1>5. \A b \in Buckets(buckets) : IsFiniteSet(b)
  BY <1>1 DEF WithinCapacity, Buckets
<1>6. IsFiniteSet(UNION Buckets(buckets))
  BY <1>4, <1>5, FS_UNION
<1>. QED BY <1>1, <1>6 DEF TablePeers, Peers

LEMMA TargetBucketInTable ==
  ASSUME IInv, NEW target \in ID
  PROVE  LET m == TargetBucket(target)
             t == CommonPrefixLen(target, Local)
         IN  /\ m \in 1..Len(buckets) /\ t \in Nat /\ Len(buckets) \in Nat
             /\ m - 1 <= t
             /\ m < Len(buckets) => m = t + 1
<1>1. Len(buckets) \in Nat /\ Len(buckets) > 0
  BY IInvTable DEF IsTable
<1>2. CommonPrefixLen(target, Local) \in Nat
  BY CommonPrefix, DhtIdAssumption, IdBitsAssumption
<1>. QED BY <1>1, <1>2 DEF TargetBucket

LEMMA FromInTable ==
  ASSUME IInv, NEW j \in 1..Len(buckets)
  PROVE  /\ From(j) \in SUBSET TablePeers
         /\ IsFiniteSet(From(j)) /\ Cardinality(From(j)) \in Nat
<1>1. \A i \in j..Len(buckets) : i \in 1..Len(buckets)
  OBVIOUS
<1>2. From(j) \in SUBSET TablePeers
  BY <1>1 DEF From, TablePeers, Peers, Buckets
<1>3. IsFiniteSet(From(j))
  BY <1>2, TablePeersFinite, FS_Subset
<1>. QED BY <1>2, <1>3, FS_CardinalityType

\* The parts of Gathered, and how far the loop to the left went: it took the
\* buckets it took because those to their right were short of count.
LEMMA GatheredShape ==
  ASSUME IInv, NEW target \in ID, NEW count \in Nat
  PROVE  LET m == TargetBucket(target)
             C == Gathered(target, count)
         IN  /\ C \in SUBSET TablePeers /\ IsFiniteSet(C)
             /\ buckets[m] \in SUBSET C
             /\ \A i \in 1..Len(buckets) :
                   buckets[i] \in SUBSET C
                   \/ /\ i > m
                      /\ count <= Cardinality(buckets[m])
                   \/ /\ i < m
                      /\ count <= Cardinality(From(i + 1))
<1>. DEFINE n == Len(buckets)
            m == TargetBucket(target)
            C == Gathered(target, count)
            right == IF Cardinality(buckets[m]) < count THEN (m + 1)..n ELSE {}
            left == {i \in 1..(m - 1) : Cardinality(From(i + 1)) < count}
<1>1. m \in 1..n /\ n \in Nat
  BY TargetBucketInTable
<1>2. C = UNION {buckets[i] : i \in {m} \cup right \cup left}
  BY DEF Gathered
<1>3. \A i \in 1..n : buckets[i] \in SUBSET TablePeers /\ IsFiniteSet(buckets[i])
  BY IInvTable DEF TablePeers, Peers, Buckets, WithinCapacity
<1>4. C \in SUBSET TablePeers
  <2>1. right \subseteq 1..n /\ left \subseteq 1..n
    BY <1>1
  <2>. HIDE DEF right, left
  <2>. QED BY <1>1, <1>2, <1>3, <2>1
<1>5. IsFiniteSet(C)
  <2>. HIDE DEF C
  <2>. QED BY <1>4, TablePeersFinite, FS_Subset
<1>6. ASSUME NEW i \in 1..n, i \notin {m} \cup right \cup left
      PROVE  \/ (i > m /\ count <= Cardinality(buckets[m]))
             \/ (i < m /\ count <= Cardinality(From(i + 1)))
  <2>1. CASE i > m
    <3>1. ~(Cardinality(buckets[m]) < count)
      BY <1>1, <1>6, <2>1
    <3>2. Cardinality(buckets[m]) \in Nat
      BY <1>1, <1>3, FS_CardinalityType
    <3>. QED BY <2>1, <3>1, <3>2
  <2>2. CASE i < m
    <3>1. ~(Cardinality(From(i + 1)) < count)
      BY <1>1, <1>6, <2>2
    <3>2. i + 1 \in 1..n
      BY <1>1, <2>2
    <3>3. Cardinality(From(i + 1)) \in Nat
      BY <3>2, FromInTable
    <3>. QED BY <2>2, <3>1, <3>3
  <2>. QED BY <1>1, <1>6, <2>1, <2>2
<1>7. \A i \in {m} \cup right \cup left : buckets[i] \in SUBSET C
  <2>. HIDE DEF right, left
  <2>. QED BY <1>2
<1>. QED BY <1>4, <1>5, <1>6, <1>7

\* Whatever is left out is farther away than everything that is taken.
LEMMA LeftOutIsFarther ==
  ASSUME IInv, NEW target \in ID, NEW count \in Nat,
         NEW p \in Gathered(target, count),
         NEW q \in TablePeers \ Gathered(target, count)
  PROVE  Nearer(target, p, q)
<1>. DEFINE n == Len(buckets)
            m == TargetBucket(target)
            t == CommonPrefixLen(target, Local)
            C == Gathered(target, count)
            right == IF Cardinality(buckets[m]) < count THEN (m + 1)..n ELSE {}
            left == {i \in 1..(m - 1) : Cardinality(From(i + 1)) < count}
<1>1. /\ m \in 1..n /\ t \in Nat /\ n \in Nat
      /\ m - 1 <= t
      /\ m < n => m = t + 1
  BY TargetBucketInTable
<1>2. C = UNION {buckets[i] : i \in {m} \cup right \cup left}
  BY DEF Gathered
<1>3. \A i \in 1..n : /\ buckets[i] \in SUBSET TablePeers
                      /\ IsFiniteSet(buckets[i])
                      /\ Cardinality(buckets[i]) \in Nat
  BY IInvTable, FS_CardinalityType DEF TablePeers, Peers, Buckets, WithinCapacity
<1>4. PICK k \in {m} \cup right \cup left : p \in buckets[k]
  <2>. HIDE DEF right, left
  <2>. QED BY <1>2
<1>5. k \in 1..n
  BY <1>1
<1>6. PICK i \in 1..n : q \in buckets[i]
  BY DEF TablePeers, Peers, Buckets
<1>7. i \notin {m} \cup right \cup left
  <2>. HIDE DEF right, left
  <2>. QED BY <1>2, <1>6
<1>8. /\ p \in Peer /\ q \in Peer
      /\ Cpl[p] \in Nat /\ Cpl[q] \in Nat
      /\ IF k < n THEN Cpl[p] = k - 1 ELSE Cpl[p] >= k - 1
      /\ IF i < n THEN Cpl[q] = i - 1 ELSE Cpl[q] >= i - 1
  <2>1. p \in Peer /\ q \in Peer
    BY <1>3, <1>5, <1>4, TablePeersFinite
  <2>. QED BY <1>4, <1>5, <1>6, <2>1, IInvTable, CplType DEF WellPlaced
<1>9. \A j \in 1..n : IsFiniteSet(From(j)) /\ Cardinality(From(j)) \in Nat
  BY FromInTable
<1>10. CASE i > m
  <2>1. ~(Cardinality(buckets[m]) < count)
    BY <1>1, <1>7, <1>10
  <2>2. \A j \in 1..(m - 1) : ~(Cardinality(From(j + 1)) < count)
    <3>. SUFFICES ASSUME NEW j \in 1..(m - 1)
                  PROVE  ~(Cardinality(From(j + 1)) < count)
      OBVIOUS
    <3>1. j \in Nat /\ j + 1 \in 1..n /\ m \in (j + 1)..n
      <4>. HIDE DEF m, n
      <4>. QED BY <1>1
    <3>2. buckets[m] \in SUBSET From(j + 1)
      BY <3>1 DEF From
    <3>3. Cardinality(buckets[m]) <= Cardinality(From(j + 1))
      BY <1>9, <3>1, <3>2, FS_Subset
    <3>4. /\ Cardinality(buckets[m]) \in Nat
          /\ Cardinality(From(j + 1)) \in Nat
      BY <1>1, <1>3, <1>9, <3>1
    <3>. QED BY ONLY <2>1, <3>3, <3>4, count \in Nat
  <2>3. k = m
    BY <2>1, <2>2
  <2>4. Cpl[p] = t /\ t < Cpl[q]
    BY <1>1, <1>8, <1>10, <2>3
  <2>. QED BY <1>8, <2>4, NearerThanRight
<1>11. CASE i < m
  <2>1. ~(Cardinality(From(i + 1)) < count)
    BY <1>1, <1>7, <1>11
  <2>2. i < k
    <3>1. CASE k \in left
      <4>. SUFFICES ASSUME k < i PROVE FALSE
        BY <1>1, <1>7, <3>1
      <4>1. i + 1 \in 1..n /\ k + 1 \in 1..n /\ k + 1 <= i + 1
        BY <1>1, <1>5, <1>11
      <4>2. From(i + 1) \in SUBSET From(k + 1)
        BY <4>1 DEF From
      <4>3. Cardinality(From(i + 1)) <= Cardinality(From(k + 1))
        BY <1>9, <4>1, <4>2, FS_Subset
      <4>4. Cardinality(From(k + 1)) < count
        BY <3>1
      <4>. QED BY <1>9, <2>1, <4>1, <4>3, <4>4
    <3>2. CASE k \notin left
      <4>1. k = m \/ k \in (m + 1)..n
        BY <3>2
      <4>. QED BY <1>1, <1>11, <4>1
    <3>. QED BY <3>1, <3>2
  <2>3. Cpl[q] < t /\ Cpl[q] < Cpl[p]
    BY <1>1, <1>5, <1>8, <1>11, <2>2
  <2>. QED BY <1>8, <2>3, NearerThanLeft
<1>. QED BY <1>1, <1>7, <1>10, <1>11

\* It never leaves anything out before it has enough.
LEMMA GatheredEnough ==
  ASSUME IInv, NEW target \in ID, NEW count \in Nat,
         Gathered(target, count) # TablePeers
  PROVE  count <= Cardinality(Gathered(target, count))
<1>. DEFINE n == Len(buckets)
            m == TargetBucket(target)
            C == Gathered(target, count)
            Short(i) == i < m /\ count <= Cardinality(From(i + 1))
            stops == {i \in 1..n : Short(i)}
<1>1. /\ C \in SUBSET TablePeers /\ IsFiniteSet(C)
      /\ buckets[m] \in SUBSET C
      /\ \A i \in 1..n : buckets[i] \in SUBSET C
                         \/ (i > m /\ count <= Cardinality(buckets[m]))
                         \/ Short(i)
  BY GatheredShape
<1>2. m \in 1..n /\ n \in Nat /\ Cardinality(C) \in Nat
  BY <1>1, TargetBucketInTable, FS_CardinalityType
<1>. HIDE DEF C, m
<1>3. PICK q \in TablePeers \ C : TRUE
  BY <1>1 DEF C
<1>4. PICK i \in 1..n : q \in buckets[i]
  BY DEF TablePeers, Peers, Buckets
<1>5. CASE count <= Cardinality(buckets[m])
  <2>1. Cardinality(buckets[m]) <= Cardinality(C) /\ IsFiniteSet(buckets[m])
    BY <1>1, FS_Subset
  <2>2. Cardinality(buckets[m]) \in Nat
    BY <2>1, FS_CardinalityType
  <2>. QED BY <1>2, <1>5, <2>1, <2>2 DEF C
<1>6. CASE ~(count <= Cardinality(buckets[m]))
  <2>1. i \in stops
    BY <1>1, <1>3, <1>4, <1>6
  <2>2. stops \in SUBSET Int /\ IsFiniteSet(stops)
    <3>1. IsFiniteSet(1..n) /\ stops \in SUBSET (1..n)
      BY <1>2, FS_Interval
    <3>2. stops \in SUBSET Int
      OBVIOUS
    <3>. HIDE DEF stops
    <3>. QED BY <3>1, <3>2, FS_Subset
  <2>. DEFINE g == Greatest(stops)
  <2>3. g \in stops /\ \A j \in stops : g >= j
    <3>. HIDE DEF stops
    <3>. QED BY <2>1, <2>2, GreatestInSet
  <2>. HIDE DEF g
  <2>4. \A j \in (g + 1)..n : buckets[j] \in SUBSET C
    BY <1>1, <1>2, <1>6, <2>3
  <2>5. From(g + 1) \in SUBSET C
    BY <2>4 DEF From
  <2>6. Cardinality(From(g + 1)) <= Cardinality(C) /\ IsFiniteSet(From(g + 1))
    BY <1>1, <2>5, FS_Subset
  <2>7. Cardinality(From(g + 1)) \in Nat
    BY <2>6, FS_CardinalityType
  <2>. QED BY <1>2, <2>3, <2>6, <2>7 DEF C
<1>. QED BY <1>5, <1>6

-----------------------------------------------------------------------------
(* The answers.                                                            *)

LEMMA NearestPeersAnswer ==
  ASSUME IInv, NEW target \in ID, NEW count \in Nat
  PROVE  AreNearest(NearestPeers(target, count), target, count)
<1>. DEFINE C == Gathered(target, count)
            s == ByDistance(C, target)
            a == NearestPeers(target, count)
            T == TablePeers
            size == IF count < Cardinality(T) THEN count ELSE Cardinality(T)
<1>1. IsFiniteSet(T) /\ T \in SUBSET Peer /\ Cardinality(T) \in Nat
  BY TablePeersFinite, FS_CardinalityType
<1>2. C \in SUBSET T /\ C \in SUBSET Peer /\ IsFiniteSet(C)
  BY <1>1, GatheredShape
<1>. HIDE DEF C
<1>3. /\ s \in Seq(Peer) /\ Len(s) = Cardinality(C) /\ Cardinality(C) \in Nat
      /\ \A r \in 1..Len(s) : s[r] \in C
      /\ \A r \in 1..Len(s) : \A p \in C :
            Nearer(target, p, s[r]) <=> \E j \in 1..(r - 1) : s[j] = p
  BY <1>2, ByDistanceSorts
<1>. HIDE DEF s
<1>4. a = IF count < Len(s) THEN SubSeq(s, 1, count) ELSE s
  BY DEF NearestPeers, C, s
<1>. HIDE DEF a
<1>5. C = T \/ count <= Cardinality(C)
  BY GatheredEnough DEF C
<1>6. Cardinality(C) <= Cardinality(T)
  BY <1>1, <1>2, FS_Subset
<1>7. /\ Len(a) = IF count < Cardinality(C) THEN count ELSE Cardinality(C)
      /\ Len(a) <= Len(s) /\ Len(a) \in Nat
      /\ \A i \in 1..Len(a) : i \in 1..Len(s) /\ a[i] = s[i]
  BY <1>3, <1>4
<1>8. Len(a) = size
  BY <1>1, <1>3, <1>5, <1>6, <1>7
<1>9. ASSUME NEW i \in 1..Len(a), NEW p \in T
      PROVE  Nearer(target, p, a[i]) <=> \E j \in 1..(i - 1) : a[j] = p
  <2>1. a[i] = s[i] /\ i \in 1..Len(s) /\ s[i] \in C
    BY <1>3, <1>7
  <2>2. \A j \in 1..(i - 1) : j \in 1..Len(a) /\ a[j] = s[j] /\ s[j] \in C
    BY <1>3, <1>7
  <2>3. CASE p \in C
    BY <1>3, <2>1, <2>2, <2>3
  <2>4. CASE p \notin C
    <3>1. Nearer(target, s[i], p)
      BY <2>1, <2>4, LeftOutIsFarther DEF C
    <3>2. ~Nearer(target, p, s[i])
      BY <1>1, <1>2, <2>1, <3>1, NearerIsOrder
    <3>. QED BY <2>1, <2>2, <2>4, <3>2
  <2>. QED BY <2>3, <2>4
<1>10. \A i \in 1..Len(a) : a[i] \in T
  BY <1>2, <1>3, <1>7
<1>. QED BY <1>8, <1>9, <1>10 DEF AreNearest, a

LEMMA NearestPeersType ==
  ASSUME IInv, NEW target \in ID, NEW count \in Nat
  PROVE  NearestPeers(target, count) \in Seq(Peer)
<1>. DEFINE s == ByDistance(Gathered(target, count), target)
<1>1. /\ Gathered(target, count) \in SUBSET Peer
      /\ IsFiniteSet(Gathered(target, count))
  BY TablePeersFinite, GatheredShape
<1>2. s \in Seq(Peer)
  BY <1>1, ByDistanceSorts
<1>3. NearestPeers(target, count) = IF count < Len(s) THEN SubSeq(s, 1, count) ELSE s
  BY DEF NearestPeers
<1>. HIDE DEF s
<1>. QED BY <1>2, <1>3

\* NearestPeers answers what a search of the whole table would answer.
THEOREM NearestPeersExactHolds == Spec => []NearestPeersExact
<1>1. ASSUME IInv PROVE NearestPeersExact
  BY <1>1, NearestPeersAnswer, LookupAssumption DEF NearestPeersExact
<1>. QED BY <1>1, IInvHolds, PTL

\* Find finds exactly the peers in the table.
THEOREM FindExactHolds == Spec => []FindExact
<1>1. ASSUME IInv, NEW p \in Peer
      PROVE  Find(p) = IF p \in TablePeers THEN p ELSE NoPeer
  <2>. DEFINE target == DhtId[p]
              s == NearestPeers(target, 1)
  <2>1. target \in ID
    BY DhtIdAssumption
  <2>2. AreNearest(s, target, 1)
    BY <1>1, <2>1, NearestPeersAnswer
  <2>3. IsFiniteSet(TablePeers) /\ TablePeers \in SUBSET Peer
    BY <1>1, TablePeersFinite
  <2>4. Find(p) = IF s = <<>> \/ s[1] # p THEN NoPeer ELSE p
    BY DEF Find
  <2>. HIDE DEF s
  <2>5. CASE p \in TablePeers
    <3>1. Cardinality(TablePeers) \in Nat /\ Cardinality(TablePeers) # 0
      BY <2>3, <2>5, FS_CardinalityType, FS_EmptySet
    <3>2. Len(s) = 1 /\ s[1] \in TablePeers
      BY <2>2, <3>1 DEF AreNearest
    <3>3. ~Nearer(target, p, s[1])
      BY <2>2, <2>5, <3>2 DEF AreNearest
    <3>4. ~Nearer(target, s[1], p)
      <4>1. \A i \in 1..IdBits : Xor(target, DhtId[p])[i] = 0
        BY DEF Xor
      <4>2. \A i \in 1..IdBits : Xor(target, DhtId[s[1]])[i] \in {0, 1}
        BY DEF Xor
      <4>. QED BY <4>1, <4>2 DEF Nearer, CloserTo, Less
    <3>5. s[1] = p
      BY <2>1, <2>3, <3>2, <3>3, <3>4, NearerIsOrder
    <3>. QED BY <2>4, <2>5, <3>2, <3>5
  <2>6. CASE p \notin TablePeers
    <3>1. s = <<>> \/ s[1] # p
      <4>. SUFFICES ASSUME s # <<>>, s[1] = p PROVE FALSE
        OBVIOUS
      <4>1. ~(1 \in 1..Len(s))
        BY <2>2, <2>6 DEF AreNearest
      <4>2. Len(s) = 0
        BY <2>2, <2>3, <4>1, FS_CardinalityType DEF AreNearest
      <4>3. s \in Seq(Peer)
        BY <1>1, <2>1, NearestPeersType DEF s
      <4>. QED BY <4>2, <4>3
    <3>. QED BY <2>4, <2>6, <3>1
  <2>. QED BY <2>5, <2>6
<1>2. IInv => FindExact
  BY <1>1 DEF FindExact
<1>. QED BY <1>2, IInvHolds, PTL

-----------------------------------------------------------------------------
(* The two sorters of the repository.                                      *)

\* The equations of the recursive function in Distance.
LEMMA DistanceByRecursion ==
  ASSUME NEW k1 \in ID, NEW k2 \in ID
  PROVE  \E f \in [0..IdBits -> Nat] :
            /\ f[0] = 0
            /\ \A i \in 1..IdBits : f[i] = 2 * f[i - 1] + Xor(k1, k2)[i]
            /\ Distance(k1, k2) = f[IdBits]
<1>. DEFINE n == IdBits
            T == Nat
            Body(f) == [i \in 0..n |-> IF i = 0 THEN 0 ELSE 2 * f[i - 1] + Xor(k1, k2)[i]]
            comb == [x \in (1..n) \X T |-> 2 * x[2] + Xor(k1, k2)[x[1]]]
            f == CHOOSE f : f = Body(f)
<1>1. n \in Nat /\ \A i \in 1..n : Xor(k1, k2)[i] \in {0, 1}
  BY IdBitsAssumption DEF Xor
<1>2. comb \in [(1..n) \X T -> T] /\ 0 \in T
  <2>1. \A x \in (1..n) \X T : x[1] \in 1..n /\ x[2] \in T
    OBVIOUS
  <2>. QED BY <1>1, <2>1
<1>3. \E g : g = Body(g)
  <2>1. PICK g \in [0..n -> T] :
              g[0] = 0 /\ \A i \in 1..n : g[i] = comb[<<i, g[i - 1]>>]
    <3>. HIDE DEF comb, n, T
    <3>1. Steps(n, T, 0, comb)
      BY <1>1, <1>2 DEF Steps
    <3>. QED BY <3>1, IndexRecursion
  <2>2. ASSUME NEW i \in 0..n PROVE g[i] = Body(g)[i]
    <3>1. CASE i = 0
      BY <2>1, <3>1
    <3>2. CASE i # 0
      <4>1. i \in 1..n /\ g[i - 1] \in T /\ <<i, g[i - 1]>> \in (1..n) \X T
        BY <1>1, <3>2
      <4>2. g[i] = 2 * g[i - 1] + Xor(k1, k2)[i]
        BY <2>1, <4>1
      <4>. QED BY <4>1, <4>2, <3>2
    <3>. QED BY <3>1, <3>2
  <2>3. g = Body(g)
    BY <2>2
  <2>. QED BY <2>3
<1>4. f = Body(f)
  <2>. HIDE DEF Body
  <2>. QED BY <1>3
<1>. HIDE DEF f
<1>5. /\ DOMAIN f = 0..n /\ f[0] = 0
      /\ \A i \in 1..n : f[i] = 2 * f[i - 1] + Xor(k1, k2)[i]
      /\ f = [i \in 0..n |-> f[i]]
  <2>1. DOMAIN f = 0..n /\ \A i \in 0..n : f[i] = Body(f)[i]
    BY <1>4
  <2>2. ASSUME NEW i \in 1..n PROVE f[i] = 2 * f[i - 1] + Xor(k1, k2)[i]
    <3>1. i \in 0..n /\ i # 0
      BY <1>1
    <3>. QED BY <2>1, <3>1
  <2>3. f[0] = 0
    BY <1>1, <2>1
  <2>4. f = [i \in 0..n |-> f[i]]
    <3>. HIDE DEF n
    <3>. QED BY <1>4
  <2>. QED BY <2>1, <2>2, <2>3, <2>4
<1>6. f \in [0..n -> T]
  <2>1. f[0] \in T
    BY <1>2, <1>5
  <2>2. ASSUME NEW i \in 1..n, f[i - 1] \in T PROVE f[i] \in T
    <3>1. f[i] = 2 * f[i - 1] + Xor(k1, k2)[i]
      BY <1>5
    <3>. QED BY <1>1, <2>2, <3>1
  <2>. HIDE DEF T
  <2>. QED BY <1>1, <1>5, <2>1, <2>2, IndexType
<1>7. Distance(k1, k2) = f[n]
  BY DEF Distance, f
<1>. QED BY <1>5, <1>6, <1>7

\* Comparing distances as numbers is comparing them bit by bit: after the
\* first bit that differs the greater number stays ahead by one at least.
LEMMA DistanceOrders ==
  ASSUME NEW target \in ID, NEW a \in ID, NEW b \in ID, CloserTo(target, a, b)
  PROVE  Distance(target, a) \in Nat /\ Distance(target, b) \in Nat
         /\ Distance(target, a) < Distance(target, b)
<1>. DEFINE n == IdBits
            x == Xor(target, a)
            y == Xor(target, b)
<1>1. PICK da \in [0..n -> Nat] :
         /\ da[0] = 0 /\ \A i \in 1..n : da[i] = 2 * da[i - 1] + x[i]
         /\ Distance(target, a) = da[n]
  BY DistanceByRecursion
<1>2. PICK db \in [0..n -> Nat] :
         /\ db[0] = 0 /\ \A i \in 1..n : db[i] = 2 * db[i - 1] + y[i]
         /\ Distance(target, b) = db[n]
  BY DistanceByRecursion
<1>3. n \in Nat /\ \A i \in 1..n : x[i] \in {0, 1} /\ y[i] \in {0, 1}
  BY IdBitsAssumption DEF Xor
<1>4. PICK i \in 1..n : x[i] < y[i] /\ \A j \in 1..(i - 1) : x[j] = y[j]
  BY DEF CloserTo, Less
<1>. HIDE DEF n, x, y
<1>. DEFINE Ahead(k) == IF k < i THEN da[k] = db[k] ELSE da[k] + 1 <= db[k]
            good == {k \in 0..n : Ahead(k)}
<1>5. Ahead(0)
  BY <1>1, <1>2, <1>3, <1>4
<1>6. ASSUME NEW k \in 1..n, Ahead(k - 1) PROVE Ahead(k)
  <2>1. /\ k - 1 \in 0..n /\ k \in 0..n
        /\ da[k - 1] \in Nat /\ db[k - 1] \in Nat
        /\ da[k] = 2 * da[k - 1] + x[k] /\ db[k] = 2 * db[k - 1] + y[k]
        /\ x[k] \in {0, 1} /\ y[k] \in {0, 1}
    BY <1>1, <1>2, <1>3
  <2>2. CASE k < i
    <3>1. x[k] = y[k] /\ da[k - 1] = db[k - 1]
      BY <1>3, <1>4, <1>6, <2>2
    <3>. QED BY <2>1, <2>2, <3>1
  <2>3. CASE k = i
    <3>1. x[k] = 0 /\ y[k] = 1 /\ da[k - 1] = db[k - 1]
      BY <1>3, <1>4, <1>6, <2>1, <2>3
    <3>. QED BY <2>1, <2>3, <3>1
  <2>4. CASE k > i
    <3>1. da[k - 1] + 1 <= db[k - 1]
      BY <1>3, <1>6, <2>4
    <3>2. da[k] + 1 <= db[k]
      BY <2>1, <3>1
    <3>. QED BY <1>3, <2>4, <3>2
  <2>. QED BY <1>3, <2>2, <2>3, <2>4
<1>7. good = 0..n
  <2>1. good \in SUBSET (0..n) /\ 0 \in good
    BY <1>3, <1>5
  <2>2. ASSUME NEW k \in 1..n, k - 1 \in good PROVE k \in good
    BY <1>3, <1>6, <2>2
  <2>. HIDE DEF good
  <2>. QED BY <1>3, <2>1, <2>2, IndexInduction
<1>8. Ahead(n)
  <2>1. n \in good
    <3>1. n \in 0..n
      BY <1>3
    <3>. HIDE DEF good
    <3>. QED BY <1>7, <3>1
  <2>. QED BY <2>1
<1>9. da[n] \in Nat /\ db[n] \in Nat
  <2>1. n \in 0..n
    BY <1>3
  <2>. QED BY <1>1, <1>2, <2>1
<1>. QED BY <1>1, <1>2, <1>3, <1>4, <1>8, <1>9

\* One sorter compares bytes and the other one numbers: both orders are one.
LEMMA NearerByNumber ==
  ASSUME NEW target \in ID, NEW p \in Peer, NEW q \in Peer
  PROVE  Nearer(target, p, q)
            <=> Distance(target, DhtId[p]) < Distance(target, DhtId[q])
<1>1. DhtId[p] \in ID /\ DhtId[q] \in ID
  BY DhtIdAssumption
<1>2. ASSUME Nearer(target, p, q)
      PROVE  Distance(target, DhtId[p]) < Distance(target, DhtId[q])
  BY <1>1, <1>2, DistanceOrders DEF Nearer
<1>3. ASSUME ~Nearer(target, p, q)
      PROVE  ~(Distance(target, DhtId[p]) < Distance(target, DhtId[q]))
  <2>1. Distance(target, DhtId[p]) \in Nat
    <3>1. PICK dist \in [0..IdBits -> Nat] : Distance(target, DhtId[p]) = dist[IdBits]
      BY <1>1, DistanceByRecursion
    <3>2. IdBits \in 0..IdBits
      BY IdBitsAssumption
    <3>. QED BY <3>1, <3>2
  <2>2. CASE p = q
    BY <2>1, <2>2
  <2>3. CASE p # q
    <3>1. Nearer(target, q, p)
      BY <1>3, <2>3, NearerIsOrder
    <3>. QED BY <1>1, <3>1, DistanceOrders DEF Nearer
  <2>. QED BY <2>2, <2>3
<1>. QED BY <1>2, <1>3

\* SortClosestPeers and SortByDistance sort the table in one way.
THEOREM SortersAgreeHolds == Spec => []SortersAgree
<1>1. ASSUME IInv, NEW target \in ID
      PROVE  LET peers == ByDistance(TablePeers, target)
             IN  [r \in DOMAIN peers |-> DhtId[peers[r]]]
                     = SortByDistance(target, {DhtId[p] : p \in TablePeers})
  <2>. DEFINE S == TablePeers
              K == {DhtId[p] : p \in S}
              n == Cardinality(S)
              peers == ByDistance(S, target)
              before(k) == {l \in K : Distance(target, l) < Distance(target, k)}
              id == [p \in S |-> DhtId[p]]
  <2>1. IsFiniteSet(S) /\ S \in SUBSET Peer
    BY <1>1, TablePeersFinite
  <2>. HIDE DEF S
  <2>2. /\ peers \in Seq(Peer) /\ Len(peers) = n /\ n \in Nat
        /\ \A r \in 1..n : peers[r] \in S
    BY <2>1, ByDistanceSorts
  <2>3. \A p, q \in S : DhtId[p] = DhtId[q] => p = q
    BY <2>1, DhtIdAssumption
  <2>4. \A T \in SUBSET S :
           /\ IsFiniteSet(T)
           /\ Cardinality({DhtId[p] : p \in T}) = Cardinality(T)
    <3>. SUFFICES ASSUME NEW T \in SUBSET S
                  PROVE  /\ IsFiniteSet(T)
                         /\ Cardinality({DhtId[p] : p \in T}) = Cardinality(T)
      OBVIOUS
    <3>1. IsFiniteSet(T)
      BY <2>1, FS_Subset
    <3>. DEFINE I == {DhtId[p] : p \in T}
                f == [p \in T |-> DhtId[p]]
    <3>2. f \in Bijection(T, I)
      BY <2>3 DEF Bijection, Injection, Surjection, IsInjective
    <3>. HIDE DEF I, f
    <3>3. ExistsBijection(T, I)
      BY <3>2 DEF ExistsBijection
    <3>4. Cardinality(I) = Cardinality(T)
      BY <3>1, <3>3, FS_Bijection
    <3>. QED BY <3>1, <3>4 DEF I
  <2>5. Cardinality(K) = n
    BY <2>4
  <2>6. ASSUME NEW p \in S
        PROVE  Cardinality(before(DhtId[p])) = Cardinality(NearerIn(S, target, p))
    <3>1. before(DhtId[p]) = {DhtId[q] : q \in NearerIn(S, target, p)}
      <4>1. \A q \in S : Nearer(target, q, p)
                            <=> Distance(target, DhtId[q]) < Distance(target, DhtId[p])
        BY <2>1, NearerByNumber
      <4>. QED BY <4>1 DEF NearerIn
    <3>2. NearerIn(S, target, p) \in SUBSET S
      BY DEF NearerIn
    <3>. HIDE DEF before
    <3>. QED BY <2>4, <3>1, <3>2
  <2>7. ASSUME NEW r \in 1..n PROVE Cardinality(NearerIn(S, target, peers[r])) = r - 1
    BY <2>1, <2>2, <2>7, ByDistanceSorts
  <2>8. ASSUME NEW r \in 1..n
        PROVE  DhtId[peers[r]] = CHOOSE k \in K : Cardinality(before(k)) = r - 1
    <3>. HIDE DEF before
    <3>1. DhtId[peers[r]] \in K /\ Cardinality(before(DhtId[peers[r]])) = r - 1
      BY <2>2, <2>6, <2>7
    <3>2. ASSUME NEW k \in K, Cardinality(before(k)) = r - 1 PROVE k = DhtId[peers[r]]
      <4>1. PICK p \in S : k = DhtId[p]
        OBVIOUS
      <4>2. Cardinality(NearerIn(S, target, p)) = r - 1
        BY <2>6, <3>2, <4>1
      <4>3. p = peers[r]
        BY <2>1, <2>2, <2>7, <4>2, RanksDiffer
      <4>. QED BY <4>1, <4>3
    <3>. QED BY <3>1, <3>2
  <2>9. DOMAIN peers = 1..n
    BY <2>2
  <2>10. SortByDistance(target, K)
            = [r \in 1..n |-> CHOOSE k \in K : Cardinality(before(k)) = r - 1]
    BY <2>5 DEF SortByDistance
  <2>11. [r \in 1..n |-> DhtId[peers[r]]] = SortByDistance(target, K)
    <3>. HIDE DEF K, n, peers, before
    <3>. QED BY <2>8, <2>10
  <2>. HIDE DEF n, peers
  <2>12. [r \in DOMAIN peers |-> DhtId[peers[r]]] = SortByDistance(target, K)
    BY <2>9, <2>11
  <2>. QED BY <2>12 DEF peers, S
<1>2. IInv => SortersAgree
  BY <1>1 DEF SortersAgree
<1>. QED BY <1>2, IInvHolds, PTL
=============================================================================
