-------------------------- MODULE ListTable_proofs --------------------------
(***************************************************************************)
(* Proofs about ListTable.tla, for any set of peers, any bucket size, any  *)
(* length of ID and any bound on the clock: the recursion of nextBucket    *)
(* and the loop of removePeer compute what KBuckets.tla says they compute, *)
(* the lists keep their order, and every step is one of RoutingTable.tla.  *)
(***************************************************************************)
EXTENDS ListTable, KBuckets_proofs

-----------------------------------------------------------------------------
(* Lists: their order, and what Only keeps of it.                          *)

\* R holds of every two peers of list b, in the order in which they stand.
Ordered(b, R) == \A j, k \in 1..Len(b) : j < k => <<b[j], b[k]>> \in R

LEMMA OnlyByRecursion ==
  ASSUME NEW b \in Seq(Peer), NEW S
  PROVE  \E kept \in [0..Len(b) -> Seq(Peer)] :
            /\ kept[0] = <<>>
            /\ \A i \in 1..Len(b) :
                  kept[i] = IF b[i] \in S THEN Append(kept[i - 1], b[i])
                            ELSE kept[i - 1]
            /\ Only(b, S) = kept[Len(b)]
<1>. DEFINE n == Len(b)
            T == Seq(Peer)
            Body(f) == [i \in 0..n |->
                          IF i = 0 THEN <<>>
                          ELSE IF b[i] \in S THEN Append(f[i - 1], b[i])
                          ELSE f[i - 1]]
            comb == [x \in (1..n) \X T |->
                       IF b[x[1]] \in S THEN Append(x[2], b[x[1]]) ELSE x[2]]
            f == CHOOSE f : f = Body(f)
<1>1. n \in Nat /\ \A i \in 1..n : b[i] \in Peer
  OBVIOUS
<1>2. comb \in [(1..n) \X T -> T] /\ <<>> \in T
  <2>1. \A x \in (1..n) \X T : x[1] \in 1..n /\ x[2] \in T
    OBVIOUS
  <2>2. \A s \in T : \A p \in Peer : Append(s, p) \in T
    OBVIOUS
  <2>. QED BY <1>1, <2>1, <2>2
<1>3. \E g : g = Body(g)
  <2>1. PICK g \in [0..n -> T] :
              g[0] = <<>> /\ \A i \in 1..n : g[i] = comb[<<i, g[i - 1]>>]
    <3>. HIDE DEF comb, n, T
    <3>1. Steps(n, T, <<>>, comb)
      BY <1>1, <1>2 DEF Steps
    <3>. QED BY <3>1, IndexRecursion
  <2>2. ASSUME NEW i \in 0..n PROVE g[i] = Body(g)[i]
    <3>1. CASE i = 0
      BY <2>1, <3>1
    <3>2. CASE i # 0
      <4>1. i \in 1..n /\ g[i - 1] \in T /\ <<i, g[i - 1]>> \in (1..n) \X T
        BY <3>2
      <4>2. g[i] = IF b[i] \in S THEN Append(g[i - 1], b[i]) ELSE g[i - 1]
        BY <2>1, <4>1
      <4>. QED BY <4>1, <4>2, <3>2
    <3>. QED BY <3>1, <3>2
  <2>3. g = Body(g)
    BY <2>2
  <2>. QED BY <2>3
<1>4. f = Body(f)
  <2>. HIDE DEF Body
  <2>. QED BY <1>3
<1>. HIDE DEF f
<1>5. /\ DOMAIN f = 0..n /\ f[0] = <<>>
      /\ \A i \in 1..n : f[i] = IF b[i] \in S THEN Append(f[i - 1], b[i]) ELSE f[i - 1]
      /\ f = [i \in 0..n |-> f[i]]
  <2>1. DOMAIN f = 0..n /\ \A i \in 0..n : f[i] = Body(f)[i]
    BY <1>4
  <2>2. ASSUME NEW i \in 1..n
        PROVE  f[i] = IF b[i] \in S THEN Append(f[i - 1], b[i]) ELSE f[i - 1]
    <3>1. i \in 0..n /\ i # 0
      BY <1>1
    <3>. QED BY <2>1, <3>1
  <2>3. f[0] = <<>>
    BY <1>1, <2>1
  <2>4. f = [i \in 0..n |-> f[i]]
    <3>. HIDE DEF n
    <3>. QED BY <1>4
  <2>. QED BY <2>1, <2>2, <2>3, <2>4
<1>6. f \in [0..n -> T]
  <2>1. f[0] \in T
    BY <1>5
  <2>2. ASSUME NEW i \in 1..n, f[i - 1] \in T PROVE f[i] \in T
    <3>1. f[i] = IF b[i] \in S THEN Append(f[i - 1], b[i]) ELSE f[i - 1]
      BY <1>5
    <3>. QED BY <1>1, <2>2, <3>1
  <2>. HIDE DEF T
  <2>. QED BY <1>1, <1>5, <2>1, <2>2, IndexType
<1>7. Only(b, S) = f[n]
  BY DEF Only, f
<1>. QED BY <1>5, <1>6, <1>7

LEMMA OnlyKeepsOrder ==
  ASSUME NEW b \in Seq(Peer), NEW S
  PROVE  /\ Only(b, S) \in Seq(Peer)
         /\ Range(Only(b, S)) = Range(b) \cap S
         /\ \A R : Ordered(b, R) => Ordered(Only(b, S), R)
<1>. DEFINE n == Len(b)
<1>1. PICK kept \in [0..n -> Seq(Peer)] :
            /\ kept[0] = <<>>
            /\ \A i \in 1..n :
                  kept[i] = IF b[i] \in S THEN Append(kept[i - 1], b[i])
                            ELSE kept[i - 1]
            /\ Only(b, S) = kept[n]
  BY OnlyByRecursion
<1>2. n \in Nat /\ (\A i \in 1..n : b[i] \in Peer) /\ DOMAIN b = 1..n
  OBVIOUS
<1>. DEFINE Seen(i) == {b[j] : j \in 1..i}
            good == {i \in 0..n :
                       /\ Range(kept[i]) = Seen(i) \cap S
                       /\ \A R : Ordered(b, R) => Ordered(kept[i], R)}
<1>3. 0 \in good
  BY <1>1, <1>2 DEF Range, Ordered
<1>4. ASSUME NEW i \in 1..n, i - 1 \in good PROVE i \in good
  <2>. DEFINE old == kept[i - 1]
              new == kept[i]
  <2>1. /\ old \in Seq(Peer) /\ new \in Seq(Peer) /\ b[i] \in Peer
        /\ DOMAIN old = 1..Len(old) /\ DOMAIN new = 1..Len(new) /\ Len(old) \in Nat
    BY <1>2
  <2>2. Range(old) = Seen(i - 1) \cap S /\ \A R : Ordered(b, R) => Ordered(old, R)
    BY <1>4
  <2>3. Seen(i) = Seen(i - 1) \cup {b[i]}
    BY <1>2
  <2>4. new = IF b[i] \in S THEN Append(old, b[i]) ELSE old
    BY <1>1
  <2>5. CASE b[i] \notin S
    BY <2>2, <2>3, <2>4, <2>5
  <2>6. CASE b[i] \in S
    <3>1. /\ Len(new) = Len(old) + 1 /\ new[Len(old) + 1] = b[i]
          /\ \A j \in 1..Len(old) : new[j] = old[j]
      BY <2>1, <2>4, <2>6
    <3>. HIDE DEF old, new
    <3>2. Range(new) = Range(old) \cup {b[i]}
      <4>1. \A x : x \in Range(new) <=> \E j \in 1..Len(new) : new[j] = x
        BY <2>1 DEF Range
      <4>2. \A x : x \in Range(old) <=> \E j \in 1..Len(old) : old[j] = x
        BY <2>1 DEF Range
      <4>3. 1..Len(new) = (1..Len(old)) \cup {Len(old) + 1}
        BY <2>1, <3>1
      <4>. QED BY <3>1, <4>1, <4>2, <4>3
    <3>3. ASSUME NEW R, Ordered(b, R) PROVE Ordered(new, R)
      <4>. SUFFICES ASSUME NEW j \in 1..Len(new), NEW k \in 1..Len(new), j < k
                    PROVE  <<new[j], new[k]>> \in R
        BY DEF Ordered
      <4>1. CASE k <= Len(old)
        <5>1. Ordered(old, R) /\ j \in 1..Len(old) /\ k \in 1..Len(old)
          BY <2>1, <2>2, <3>1, <3>3, <4>1
        <5>. QED BY <3>1, <5>1 DEF Ordered
      <4>2. CASE k = Len(old) + 1
        <5>1. j \in 1..Len(old) /\ new[k] = b[i] /\ new[j] = old[j]
          BY <2>1, <3>1, <4>2
        <5>2. old[j] \in Seen(i - 1)
          BY <2>1, <2>2, <5>1 DEF Range
        <5>3. PICK h \in 1..(i - 1) : old[j] = b[h]
          BY <5>2
        <5>4. h \in 1..n /\ h < i
          BY <1>2
        <5>5. <<b[h], b[i]>> \in R
          BY <3>3, <5>4 DEF Ordered
        <5>. QED BY <5>1, <5>3, <5>5
      <4>3. k <= Len(old) \/ k = Len(old) + 1
        BY <2>1, <3>1
      <4>. QED BY <4>1, <4>2, <4>3
    <3>4. Range(new) = Seen(i) \cap S
      BY <2>2, <2>3, <2>6, <3>2
    <3>. QED BY <3>3, <3>4 DEF new
  <2>. QED BY <2>5, <2>6
<1>5. good = 0..n
  <2>1. good \in SUBSET (0..n)
    OBVIOUS
  <2>. HIDE DEF good
  <2>. QED BY <1>2, <1>3, <1>4, <2>1, IndexInduction
<1>6. n \in good
  <2>. HIDE DEF good
  <2>. QED BY <1>2, <1>5
<1>7. Range(b) = Seen(n)
  BY <1>2 DEF Range
<1>. QED BY <1>1, <1>2, <1>6, <1>7

\* No peer is twice in a list.
Distinct == {x \in Peer \X Peer : x[1] # x[2]}

LEMMA LenOfDistinct ==
  ASSUME NEW b \in Seq(Peer), Ordered(b, Distinct)
  PROVE  /\ IsFiniteSet(Range(b))
         /\ Cardinality(Range(b)) = Len(b)
         /\ Range(b) \in SUBSET Peer
<1>. DEFINE n == Len(b)
<1>1. n \in Nat /\ b \in [1..n -> Peer] /\ DOMAIN b = 1..n
  OBVIOUS
<1>2. \A j, k \in 1..n : j < k => b[j] # b[k]
  BY DEF Ordered, Distinct
<1>3. \A j, k \in 1..n : b[j] = b[k] => j = k
  BY <1>1, <1>2
<1>4. b \in Bijection(1..n, Range(b))
  <2>1. b \in [1..n -> Range(b)] /\ \A x \in Range(b) : \E j \in 1..n : b[j] = x
    BY <1>1 DEF Range
  <2>. QED BY <1>1, <1>3, <2>1 DEF Bijection, Injection, Surjection, IsInjective
<1>5. IsFiniteSet(1..n) /\ Cardinality(1..n) = n
  BY <1>1, FS_Interval
<1>6. ExistsBijection(1..n, Range(b))
  BY <1>4 DEF ExistsBijection
<1>7. Range(b) \in SUBSET Peer
  BY <1>1 DEF Range
<1>. HIDE DEF n
<1>. QED BY <1>5, <1>6, <1>7, FS_Bijection DEF n

LEMMA PushFrontList ==
  ASSUME NEW b \in Seq(Peer), NEW p \in Peer
  PROVE  LET new == <<p>> \o b
         IN  /\ new \in Seq(Peer)
             /\ Range(new) = Range(b) \cup {p}
             /\ \A R : Ordered(b, R) /\ (\A q \in Range(b) : <<p, q>> \in R)
                          => Ordered(new, R)
<1>. DEFINE new == <<p>> \o b
<1>1. /\ new \in Seq(Peer) /\ Len(new) = Len(b) + 1 /\ new[1] = p
      /\ \A j \in 2..Len(new) : new[j] = b[j - 1]
      /\ Len(b) \in Nat /\ DOMAIN b = 1..Len(b) /\ DOMAIN new = 1..Len(new)
  OBVIOUS
<1>. HIDE DEF new
<1>2. Range(new) = Range(b) \cup {p}
  <2>1. \A x : x \in Range(new) <=> \E j \in 1..Len(new) : new[j] = x
    BY <1>1 DEF Range
  <2>2. \A x : x \in Range(b) <=> \E j \in 1..Len(b) : b[j] = x
    BY <1>1 DEF Range
  <2>3. ASSUME NEW j \in 1..Len(b) PROVE j + 1 \in 1..Len(new) /\ new[j + 1] = b[j]
    BY <1>1
  <2>4. ASSUME NEW j \in 1..Len(new)
        PROVE  new[j] = p \/ \E k \in 1..Len(b) : b[k] = new[j]
    <3>1. j = 1 \/ (j \in 2..Len(new) /\ j - 1 \in 1..Len(b))
      BY <1>1
    <3>. QED BY <1>1, <3>1
  <2>5. 1 \in 1..Len(new)
    BY <1>1
  <2>. QED BY <1>1, <2>1, <2>2, <2>3, <2>4, <2>5
<1>3. ASSUME NEW R, Ordered(b, R), \A q \in Range(b) : <<p, q>> \in R
      PROVE  Ordered(new, R)
  <2>. SUFFICES ASSUME NEW j \in 1..Len(new), NEW k \in 1..Len(new), j < k
                PROVE  <<new[j], new[k]>> \in R
    BY DEF Ordered
  <2>1. k - 1 \in 1..Len(b) /\ new[k] = b[k - 1]
    BY <1>1
  <2>2. CASE j = 1
    <3>1. new[k] \in Range(b)
      BY <1>1, <2>1 DEF Range
    <3>. QED BY <1>1, <1>3, <2>2, <3>1
  <2>3. CASE j # 1
    <3>1. j - 1 \in 1..Len(b) /\ new[j] = b[j - 1] /\ j - 1 < k - 1
      BY <1>1, <2>3
    <3>. QED BY <1>3, <2>1, <3>1 DEF Ordered
  <2>. QED BY <2>2, <2>3
<1>. QED BY <1>1, <1>2, <1>3 DEF new

-----------------------------------------------------------------------------
(* The table as lists and as sets.                                         *)

\* R holds of every two peers of a list, in every list of ls.
AllOrdered(ls, R) == \A i \in 1..Len(ls) : Ordered(ls[i], R)

LEMMA TablesType ==
  ASSUME NEW ls \in Tables
  PROVE  /\ ls \in Seq(Seq(Peer)) /\ Len(ls) \in Nat \ {0} /\ DOMAIN ls = 1..Len(ls)
         /\ \A i \in 1..Len(ls) : ls[i] \in Seq(Peer)
BY DEF Tables

LEMMA SetsOfTable ==
  ASSUME NEW ls \in Tables
  PROVE  /\ IsTable(SetsOf(ls))
         /\ Len(SetsOf(ls)) = Len(ls)
         /\ \A i \in 1..Len(ls) : SetsOf(ls)[i] = Range(ls[i])
<1>1. /\ Len(ls) \in Nat \ {0}
      /\ \A i \in 1..Len(ls) : Range(ls[i]) \in SUBSET Peer
  BY TablesType, RangeOfSeq
<1>2. SetsOf(ls) = [i \in 1..Len(ls) |-> Range(ls[i])]
  BY DEF SetsOf
<1>. QED BY <1>1, <1>2 DEF IsTable

LEMMA SameBuckets ==
  ASSUME NEW ls \in Tables, NEW p \in Peer
  PROVE  /\ BucketIdForPeer(ls, p) \in 1..Len(ls)
         /\ BucketIdForPeer(SetsOf(ls), p) = BucketIdForPeer(ls, p)
         /\ BucketForPeer(ls, p) \in Seq(Peer)
         /\ BucketForPeer(SetsOf(ls), p) = Range(BucketForPeer(ls, p))
         /\ InLastBucket(SetsOf(ls), p) <=> InLastBucket(ls, p)
         /\ GetPeer(ls, p) <=> p \in BucketForPeer(SetsOf(ls), p)
<1>1. Len(ls) \in Nat \ {0} /\ Cpl[p] \in Nat
  BY TablesType, CplType
<1>2. /\ BucketIdForPeer(ls, p) \in 1..Len(ls)
      /\ BucketIdForPeer(SetsOf(ls), p) = BucketIdForPeer(ls, p)
  BY <1>1, SetsOfTable DEF BucketIdForPeer
<1>3. /\ BucketForPeer(ls, p) \in Seq(Peer)
      /\ BucketForPeer(SetsOf(ls), p) = Range(BucketForPeer(ls, p))
  BY <1>2, SetsOfTable, TablesType DEF BucketForPeer
<1>. QED BY <1>2, <1>3, SetsOfTable DEF InLastBucket, GetPeer

LEMMA SameRoom ==
  ASSUME NEW ls \in Tables, AllOrdered(ls, Distinct), NEW p \in Peer
  PROVE  FitsIn(ls, p) <=> HasRoom(SetsOf(ls), p)
<1>1. BucketForPeer(ls, p) \in Seq(Peer) /\ Ordered(BucketForPeer(ls, p), Distinct)
  BY SameBuckets DEF AllOrdered, BucketForPeer
<1>2. Cardinality(BucketForPeer(SetsOf(ls), p)) = Len(BucketForPeer(ls, p))
  BY <1>1, SameBuckets, LenOfDistinct
<1>. QED BY <1>2 DEF FitsIn, HasRoom

\* One list of a table replaced by another.
LEMMA ReplacedList ==
  ASSUME NEW ls \in Tables, NEW i \in 1..Len(ls), NEW b \in Seq(Peer),
         NEW new, new = [ls EXCEPT ![i] = b]
  PROVE  /\ new \in Tables /\ Len(new) = Len(ls)
         /\ \A j \in 1..Len(ls) : new[j] = IF j = i THEN b ELSE ls[j]
         /\ \A R : AllOrdered(ls, R) /\ Ordered(b, R) => AllOrdered(new, R)
         /\ SetsOf(new) = [SetsOf(ls) EXCEPT ![i] = Range(b)]
<1>1. /\ new \in Seq(Seq(Peer)) /\ Len(new) = Len(ls)
      /\ \A j \in 1..Len(ls) : new[j] = IF j = i THEN b ELSE ls[j]
  BY TablesType, ExceptSeq
<1>2. new \in Tables
  <2>1. new # <<>>
    BY <1>1, TablesType
  <2>. QED BY <1>1, <2>1 DEF Tables
<1>3. \A R : AllOrdered(ls, R) /\ Ordered(b, R) => AllOrdered(new, R)
  BY <1>1 DEF AllOrdered
<1>4. SetsOf(new) = [SetsOf(ls) EXCEPT ![i] = Range(b)]
  <2>1. ASSUME NEW j \in 1..Len(ls)
        PROVE  Range(new[j]) = IF j = i THEN Range(b) ELSE Range(ls[j])
    BY <1>1
  <2>. QED BY <1>1, <2>1 DEF SetsOf
<1>. QED BY <1>1, <1>2, <1>3, <1>4

LEMMA PushFrontIsPush ==
  ASSUME NEW ls \in Tables, NEW p \in Peer
  PROVE  /\ PushFront(ls, p) \in Tables
         /\ SetsOf(PushFront(ls, p)) = Push(SetsOf(ls), p)
         /\ \A R : AllOrdered(ls, R)
                   /\ (\A q \in Range(BucketForPeer(ls, p)) : <<p, q>> \in R)
                      => AllOrdered(PushFront(ls, p), R)
<1>. DEFINE id == BucketIdForPeer(ls, p)
            b == ls[id]
            new == <<p>> \o b
<1>1. id \in 1..Len(ls) /\ b \in Seq(Peer) /\ b = BucketForPeer(ls, p)
  BY SameBuckets DEF BucketForPeer
<1>2. PushFront(ls, p) = [ls EXCEPT ![id] = new]
  BY DEF PushFront
<1>3. /\ new \in Seq(Peer) /\ Range(new) = Range(b) \cup {p}
      /\ \A R : Ordered(b, R) /\ (\A q \in Range(b) : <<p, q>> \in R) => Ordered(new, R)
  BY <1>1, PushFrontList
<1>4. Push(SetsOf(ls), p) = [SetsOf(ls) EXCEPT ![id] = Range(b) \cup {p}]
  BY <1>1, SameBuckets, SetsOfTable DEF Push
<1>. HIDE DEF id, b, new
<1>5. \A R : AllOrdered(ls, R) => Ordered(b, R)
  BY <1>1 DEF AllOrdered, b
<1>. DEFINE out == PushFront(ls, p)
<1>6. /\ out \in Tables
      /\ \A R : AllOrdered(ls, R) /\ Ordered(new, R) => AllOrdered(out, R)
      /\ SetsOf(out) = [SetsOf(ls) EXCEPT ![id] = Range(new)]
  <2>. HIDE DEF out
  <2>1. out = [ls EXCEPT ![id] = new]
    BY <1>2 DEF out
  <2>. QED BY <1>1, <1>3, <2>1, ReplacedList
<1>7. SetsOf(PushFront(ls, p)) = Push(SetsOf(ls), p)
  BY <1>2, <1>3, <1>4, <1>6
<1>. QED BY <1>1, <1>2, <1>3, <1>5, <1>6, <1>7

-----------------------------------------------------------------------------
(* nextBucket.                                                             *)

\* What one split makes of the sets.
SplitSets(bs) ==
    LET n == Len(bs)
    IN  [i \in 1..(n + 1) |->
            IF i < n THEN bs[i]
            ELSE IF i = n THEN bs[n] \ Deeper(bs[n], n - 1)
            ELSE Deeper(bs[n], n - 1)]

LEMMA SplitList ==
  ASSUME NEW ls \in Tables
  PROVE  LET n == Len(ls)
         IN  /\ Split(ls) \in Tables
             /\ Len(Split(ls)) = n + 1
             /\ Moves(ls[n], n - 1) \in Seq(Peer)
             /\ Range(Moves(ls[n], n - 1)) = Deeper(SetsOf(ls)[n], n - 1)
             /\ SetsOf(Split(ls)) = SplitSets(SetsOf(ls))
             /\ \A R : AllOrdered(ls, R) =>
                          /\ AllOrdered(Split(ls), R)
                          /\ Ordered(Moves(ls[n], n - 1), R)
<1>. DEFINE n == Len(ls)
            b == ls[n]
            stays == Stays(b, n - 1)
            moves == Moves(b, n - 1)
            mid == [ls EXCEPT ![n] = stays]
            new == Split(ls)
<1>1. n \in Nat \ {0} /\ n \in 1..n /\ b \in Seq(Peer) /\ SetsOf(ls)[n] = Range(b)
  BY TablesType, SetsOfTable
<1>2. \A p \in Range(b) : p \in Peer
  BY <1>1, RangeOfSeq
<1>3. /\ moves \in Seq(Peer) /\ Range(moves) = Deeper(Range(b), n - 1)
      /\ \A R : Ordered(b, R) => Ordered(moves, R)
  <2>1. moves = Only(b, Closer(n - 1))
    BY DEF Moves
  <2>2. Range(b) \cap Closer(n - 1) = Deeper(Range(b), n - 1)
    BY <1>2 DEF Closer, Deeper
  <2>. HIDE DEF moves, n, b
  <2>. QED BY <1>1, <2>1, <2>2, OnlyKeepsOrder
<1>4. /\ stays \in Seq(Peer) /\ Range(stays) = Range(b) \ Deeper(Range(b), n - 1)
      /\ \A R : Ordered(b, R) => Ordered(stays, R)
  <2>1. stays = Only(b, Peer \ Closer(n - 1))
    BY DEF Stays
  <2>2. Range(b) \cap (Peer \ Closer(n - 1)) = Range(b) \ Deeper(Range(b), n - 1)
    BY <1>2 DEF Closer, Deeper
  <2>. HIDE DEF stays, n, b
  <2>. QED BY <1>1, <2>1, <2>2, OnlyKeepsOrder
<1>5. \A R : AllOrdered(ls, R) => Ordered(b, R)
  BY <1>1 DEF AllOrdered
<1>6. new = Append(mid, moves)
  BY DEF Split
<1>. HIDE DEF moves, stays
<1>7. /\ mid \in Tables /\ Len(mid) = n
      /\ \A j \in 1..n : mid[j] = IF j = n THEN stays ELSE ls[j]
      /\ \A R : AllOrdered(ls, R) /\ Ordered(stays, R) => AllOrdered(mid, R)
  <2>1. n \in 1..Len(ls) /\ stays \in Seq(Peer)
    BY <1>1, <1>4
  <2>2. mid = [ls EXCEPT ![n] = stays]
    OBVIOUS
  <2>. HIDE DEF n, mid
  <2>3. mid \in Tables
    BY <2>1, <2>2, ReplacedList
  <2>4. Len(mid) = Len(ls) /\ \A j \in 1..Len(ls) : mid[j] = IF j = n THEN stays ELSE ls[j]
    BY <2>1, <2>2, ReplacedList
  <2>5. \A R : AllOrdered(ls, R) /\ Ordered(stays, R) => AllOrdered(mid, R)
    BY <2>1, <2>2, ReplacedList
  <2>. QED BY <2>3, <2>4, <2>5 DEF n
<1>. HIDE DEF mid, new
<1>8. /\ new \in Seq(Seq(Peer)) /\ new # <<>> /\ Len(new) = n + 1
      /\ \A j \in 1..n : new[j] = mid[j]
      /\ new[n + 1] = moves
  BY <1>3, <1>6, <1>7, TablesType, AppendProperties
<1>9. new \in Tables
  BY <1>8 DEF Tables
<1>10. \A R : AllOrdered(ls, R) => AllOrdered(new, R)
  <2>. SUFFICES ASSUME NEW R, AllOrdered(ls, R), NEW i \in 1..(n + 1)
                PROVE  Ordered(new[i], R)
    BY <1>8 DEF AllOrdered
  <2>1. AllOrdered(mid, R) /\ Ordered(moves, R)
    BY <1>3, <1>4, <1>5, <1>7
  <2>2. i = n + 1 \/ i \in 1..n
    BY <1>1
  <2>. QED BY <1>7, <1>8, <2>1, <2>2 DEF AllOrdered
<1>11. SetsOf(new) = SplitSets(SetsOf(ls))
  <2>1. Len(SetsOf(ls)) = n /\ \A i \in 1..n : SetsOf(ls)[i] = Range(ls[i])
    BY SetsOfTable
  <2>2. ASSUME NEW i \in 1..(n + 1)
        PROVE  Range(new[i]) = IF i < n THEN Range(ls[i])
                               ELSE IF i = n THEN Range(b) \ Deeper(Range(b), n - 1)
                               ELSE Deeper(Range(b), n - 1)
    <3>1. i \in 1..n \/ i = n + 1
      BY <1>1
    <3>. HIDE DEF b, n
    <3>. QED BY <1>1, <1>3, <1>4, <1>7, <1>8, <3>1
  <2>3. SetsOf(new) = [i \in 1..(n + 1) |-> Range(new[i])]
    BY <1>8 DEF SetsOf
  <2>4. SplitSets(SetsOf(ls)) =
           [i \in 1..(n + 1) |->
              IF i < n THEN Range(ls[i])
              ELSE IF i = n THEN Range(b) \ Deeper(Range(b), n - 1)
              ELSE Deeper(Range(b), n - 1)]
    <3>. DEFINE bs == SetsOf(ls)
    <3>1. Len(bs) = n /\ bs[n] = Range(b) /\ \A i \in 1..n : bs[i] = Range(ls[i])
      BY <1>1, <2>1
    <3>2. SplitSets(bs) =
             [i \in 1..(n + 1) |->
                IF i < n THEN bs[i]
                ELSE IF i = n THEN Range(b) \ Deeper(Range(b), n - 1)
                ELSE Deeper(Range(b), n - 1)]
      <4>. HIDE DEF bs, n, b
      <4>. QED BY <3>1 DEF SplitSets
    <3>3. \A i \in 1..(n + 1) : i < n => bs[i] = Range(ls[i])
      BY <1>1, <3>1
    <3>. HIDE DEF n, b
    <3>. QED BY <3>2, <3>3
  <2>. QED BY <2>2, <2>3, <2>4
<1>. QED BY <1>1, <1>3, <1>5, <1>8, <1>9, <1>10, <1>11 DEF new, moves

\* The sets after nextBucket are those after its first split, unfolded
\* further if the bucket that the split created is full.
LEMMA UnfoldBySplits ==
  ASSUME NEW bs, IsTable(bs), IsFiniteSet(bs[Len(bs)])
  PROVE  LET n == Len(bs)
         IN  /\ IsTable(SplitSets(bs))
             /\ Len(SplitSets(bs)) = n + 1
             /\ IsFiniteSet(SplitSets(bs)[n + 1])
             /\ NextBucket(bs) =
                   IF Cardinality(Deeper(bs[n], n - 1)) >= BucketSize
                   THEN NextBucket(SplitSets(bs)) ELSE SplitSets(bs)
<1>. DEFINE n == Len(bs)
            last == bs[n]
            new == SplitSets(bs)
            deep == Deeper(last, n - 1)
            top == UnfoldTo(bs)
            S == {c \in (n - 1)..(n + MaxCpl) : Cardinality(Deeper(last, c)) < BucketSize}
<1>1. /\ n \in Nat \ {0} /\ MaxCpl \in Nat /\ BucketSize \in Nat
      /\ last \in SUBSET Peer /\ IsFiniteSet(last)
      /\ \A p \in last : Cpl[p] \in Nat
  BY CplAssumption, CplType, BucketSizeAssumption DEF IsTable
<1>2. \A c : IsFiniteSet(Deeper(last, c)) /\ Cardinality(Deeper(last, c)) \in Nat
  BY <1>1, FS_Subset, FS_CardinalityType DEF Deeper
<1>3. /\ top \in (n - 1)..(n + MaxCpl)
      /\ Cardinality(Deeper(last, top)) < BucketSize
  BY UnfoldToType
<1>4. \A c \in S : top <= c
  <2>1. IsFiniteSet(S) /\ S \in SUBSET Int /\ top \in S
    <3>1. IsFiniteSet((n - 1)..(n + MaxCpl))
      BY <1>1, FS_Interval
    <3>. QED BY <1>1, <1>3, <3>1, FS_Subset
  <2>2. top = Least(S)
    BY DEF UnfoldTo
  <2>. HIDE DEF S, top
  <2>. QED BY <2>1, <2>2, LeastInSet
<1>5. /\ Len(new) = n + 1
      /\ \A i \in 1..(n + 1) : new[i] = IF i < n THEN bs[i]
                                         ELSE IF i = n THEN last \ deep ELSE deep
      /\ new = [i \in 1..(n + 1) |-> new[i]]
  BY <1>1 DEF SplitSets
<1>6. IsTable(new) /\ IsFiniteSet(new[n + 1])
  <2>1. ASSUME NEW i \in 1..(n + 1) PROVE new[i] \in SUBSET Peer
    BY <1>1, <1>5 DEF IsTable, Deeper
  <2>2. new[n + 1] = deep
    BY <1>1, <1>5
  <2>. HIDE DEF new
  <2>. QED BY <1>1, <1>2, <1>5, <2>1, <2>2 DEF IsTable
<1>7. CASE Cardinality(deep) < BucketSize
  <2>1. top = n - 1
    BY <1>1, <1>3, <1>4, <1>7
  <2>2. NextBucket(bs) =
          [i \in 1..(n + 1) |->
             IF i < n THEN bs[i]
             ELSE IF i < n + 1
                  THEN (IF i = n THEN last ELSE Deeper(last, i - 2)) \ Deeper(last, i - 1)
             ELSE IF i = n THEN last ELSE Deeper(last, i - 2)]
    BY <1>1, <2>1 DEF NextBucket
  <2>3. ASSUME NEW i \in 1..(n + 1) PROVE NextBucket(bs)[i] = new[i]
    <3>1. i < n \/ i = n \/ i = n + 1
      BY <1>1
    <3>. HIDE DEF new, last, top
    <3>. QED BY <1>1, <1>5, <2>2, <3>1
  <2>4. NextBucket(bs) = new
    <3>. HIDE DEF new
    <3>. QED BY <1>5, <2>2, <2>3
  <2>. QED BY <1>1, <1>2, <1>5, <1>6, <1>7, <2>4
<1>8. CASE Cardinality(deep) >= BucketSize
  <2>. DEFINE S2 == {c \in n..(n + 1 + MaxCpl) : Cardinality(Deeper(deep, c)) < BucketSize}
              top2 == UnfoldTo(new)
  <2>1. \A c \in Nat : c >= n - 1 => Deeper(deep, c) = Deeper(last, c)
    BY <1>1 DEF Deeper
  <2>2. top \in S2
    <3>1. top \in n..(n + 1 + MaxCpl)
      <4>1. top # n - 1
        BY <1>1, <1>2, <1>3, <1>8
      <4>. HIDE DEF top, n
      <4>. QED BY <1>1, <1>3, <4>1
    <3>. QED BY <1>1, <1>3, <2>1, <3>1
  <2>3. \A c \in S2 : top <= c
    <3>. SUFFICES ASSUME NEW c \in S2 PROVE top <= c
      OBVIOUS
    <3>1. Cardinality(Deeper(last, c)) < BucketSize /\ c \in n..(n + 1 + MaxCpl)
      BY <1>1, <2>1
    <3>2. CASE c <= n + MaxCpl
      BY <1>1, <1>4, <3>1, <3>2
    <3>3. CASE c > n + MaxCpl
      BY <1>1, <1>3, <3>1, <3>3
    <3>. HIDE DEF top
    <3>. QED BY <1>1, <3>1, <3>2, <3>3
  <2>4. top2 = top
    <3>1. new[Len(new)] = deep
      BY <1>1, <1>5
    <3>2. top2 = Least(S2)
      <4>. HIDE DEF new, deep
      <4>. DEFINE S3 == {c \in (Len(new) - 1)..(Len(new) + MaxCpl) :
                           Cardinality(Deeper(new[Len(new)], c)) < BucketSize}
      <4>1. top2 = Least(S3)
        BY DEF UnfoldTo
      <4>2. Len(new) - 1 = n /\ Len(new) + MaxCpl = n + 1 + MaxCpl
        BY <1>1, <1>5
      <4>3. S3 = S2
        BY <3>1, <4>2
      <4>. QED BY <4>1, <4>3
    <3>. HIDE DEF S2, top
    <3>3. Least(S2) \in S2 /\ \A y \in S2 : Least(S2) <= y
      <4>1. S2 # {} /\ \E x \in S2 : \A y \in S2 : x <= y
        BY <2>2, <2>3
      <4>. QED BY <4>1 DEF Least
    <3>4. \A x \in S2 : x \in Int
      BY <1>1 DEF S2
    <3>. HIDE DEF top2
    <3>. QED BY <2>2, <2>3, <3>2, <3>3, <3>4
  <2>. HIDE DEF top2
  <2>5. top >= n
    BY <1>1, <1>3, <2>2
  <2>6. NextBucket(new) =
          [i \in 1..(top + 2) |->
             IF i < n + 1 THEN new[i]
             ELSE IF i < top + 2
                  THEN (IF i = n + 1 THEN deep ELSE Deeper(deep, i - 2)) \ Deeper(deep, i - 1)
             ELSE IF i = n + 1 THEN deep ELSE Deeper(deep, i - 2)]
    <3>1. Len(new) = n + 1 /\ new[n + 1] = deep
      BY <1>1, <1>5
    <3>. HIDE DEF new, deep, top
    <3>. QED BY <1>1, <2>4, <3>1 DEF NextBucket, top2
  <2>7. NextBucket(bs) =
          [i \in 1..(top + 2) |->
             IF i < n THEN bs[i]
             ELSE IF i < top + 2
                  THEN (IF i = n THEN last ELSE Deeper(last, i - 2)) \ Deeper(last, i - 1)
             ELSE IF i = n THEN last ELSE Deeper(last, i - 2)]
    BY DEF NextBucket
  <2>8. ASSUME NEW i \in 1..(top + 2) PROVE NextBucket(bs)[i] = NextBucket(new)[i]
    <3>1. CASE i < n
      <4>1. i \in 1..(n + 1) /\ i < n + 1
        BY <1>1, <3>1
      <4>2. new[i] = bs[i]
        BY <1>5, <3>1, <4>1
      <4>. HIDE DEF new, last, deep, top, n
      <4>. QED BY <2>6, <2>7, <3>1, <4>1, <4>2
    <3>2. CASE i = n
      <4>1. i < top + 2 /\ i < n + 1 /\ ~(i < n) /\ i \in 1..(n + 1)
        BY <1>1, <1>3, <2>5, <3>2
      <4>2. new[i] = last \ deep
        BY <1>5, <3>2, <4>1
      <4>3. NextBucket(bs)[i] = last \ Deeper(last, n - 1)
        <5>. HIDE DEF last, top
        <5>. QED BY <2>7, <3>2, <4>1
      <4>4. NextBucket(new)[i] = new[i]
        <5>. HIDE DEF new, deep, top
        <5>. QED BY <2>6, <4>1
      <4>. QED BY <4>2, <4>3, <4>4
    <3>3. CASE i > n
      <4>1. /\ ~(i < n) /\ i # n /\ ~(i < n + 1) /\ i - 1 \in Nat /\ i - 2 \in Nat
            /\ i - 1 >= n - 1 /\ i - 2 >= n - 1
        BY <1>1, <3>3
      <4>2. Deeper(deep, i - 1) = Deeper(last, i - 1) /\ Deeper(deep, i - 2) = Deeper(last, i - 2)
        BY <2>1, <4>1
      <4>3. i = n + 1 => Deeper(last, i - 2) = deep
        BY <1>1
      <4>. HIDE DEF new, last, deep, top
      <4>. QED BY <2>6, <2>7, <4>1, <4>2, <4>3
    <3>4. i \in Int /\ n \in Int
      BY <1>1, <1>3
    <3>. HIDE DEF new, n
    <3>. QED BY <3>1, <3>2, <3>3, <3>4
  <2>9. NextBucket(bs) = NextBucket(new)
    <3>. HIDE DEF new, top, last, deep
    <3>. QED BY <2>6, <2>7, <2>8
  <2>. QED BY <1>5, <1>6, <1>8, <2>9
<1>. QED BY <1>1, <1>2, <1>7, <1>8

\* The bucket that the next split would create is full.
StillFull(l) == Len(Moves(l[Len(l)], Len(l) - 1)) >= BucketSize

\* The splits that may be left: at MaxCpl nothing moves any more.
SplitsLeft == [l \in Tables |-> IF Len(l) <= MaxCpl + 1 THEN MaxCpl + 1 - Len(l) ELSE 0]

LEMMA SplitsEnd ==
  /\ SplitsLeft \in [Tables -> Nat]
  /\ \A l \in Tables : StillFull(l) => SplitsLeft[Split(l)] < SplitsLeft[l]
<1>1. MaxCpl \in Nat /\ BucketSize \in Nat \ {0}
  BY CplAssumption, BucketSizeAssumption
<1>2. SplitsLeft \in [Tables -> Nat]
  <2>. SUFFICES ASSUME NEW l \in Tables
                PROVE  (IF Len(l) <= MaxCpl + 1 THEN MaxCpl + 1 - Len(l) ELSE 0) \in Nat
    BY DEF SplitsLeft
  <2>1. Len(l) \in Nat
    BY TablesType
  <2>. QED BY <1>1, <2>1
<1>3. ASSUME NEW l \in Tables, StillFull(l)
      PROVE  SplitsLeft[Split(l)] < SplitsLeft[l]
  <2>. DEFINE n == Len(l)
              moves == Moves(l[n], n - 1)
  <2>1. /\ n \in Nat \ {0} /\ Split(l) \in Tables /\ Len(Split(l)) = n + 1
        /\ moves \in Seq(Peer) /\ Range(moves) = Deeper(SetsOf(l)[n], n - 1)
    BY SplitList, TablesType
  <2>2. Len(moves) >= BucketSize
    BY <1>3 DEF StillFull
  <2>3. n - 1 < MaxCpl
    <3>. HIDE DEF moves
    <3>1. 1 \in DOMAIN moves /\ moves[1] \in Peer
      BY <1>1, <2>1, <2>2
    <3>2. moves[1] \in Deeper(SetsOf(l)[n], n - 1)
      BY <2>1, <3>1 DEF Range
    <3>3. Cpl[moves[1]] > n - 1
      BY <3>2 DEF Deeper
    <3>. QED BY <1>1, <2>1, <3>1, <3>3, CplType
  <2>. HIDE DEF n
  <2>. QED BY <1>1, <2>1, <2>3 DEF SplitsLeft, n
<1>. QED BY <1>2, <1>3

LEMMA NextByRecursion ==
  \E next : /\ \A l \in Tables :
                  next[l] = IF StillFull(l) THEN next[Split(l)] ELSE Split(l)
            /\ \A ls : NextList(ls) = next[ls]
<1>. DEFINE Body(f) == [l \in Tables |-> IF StillFull(l) THEN f[Split(l)] ELSE Split(l)]
            stop == {l \in Tables : ~StillFull(l)}
            out == [l \in Tables |-> Split(l)]
            comb == [x \in Tables \X Tables |-> x[2]]
            f == CHOOSE f : f = Body(f)
<1>1. \A l \in Tables : Split(l) \in Tables
  BY SplitList
<1>2. Terminates(Tables, Tables, SplitsLeft, stop, out, out, comb)
  <2>1. out \in [Tables -> Tables] /\ comb \in [Tables \X Tables -> Tables]
    BY <1>1
  <2>2. \A l \in Tables \ stop : SplitsLeft[out[l]] < SplitsLeft[l]
    BY SplitsEnd
  <2>. HIDE DEF out, comb
  <2>. QED BY <2>1, <2>2, SplitsEnd DEF Terminates
<1>3. \E g : g = Body(g)
  <2>1. PICK g \in [Tables -> Tables] :
           \A l \in Tables : g[l] = Equation(g, l, stop, out, out, comb)
    <3>. HIDE DEF stop, out, comb
    <3>. QED BY <1>2, Recursion
  <2>2. ASSUME NEW l \in Tables PROVE g[l] = Body(g)[l]
    <3>1. g[l] = Equation(g, l, stop, out, out, comb)
      BY <2>1
    <3>2. Split(l) \in Tables /\ g[Split(l)] \in Tables
      BY <1>1
    <3>3. comb[<<l, g[Split(l)]>>] = g[Split(l)]
      BY <3>2
    <3>. QED BY <3>1, <3>3 DEF Equation
  <2>3. g = Body(g)
    BY <2>2
  <2>. QED BY <2>3
<1>4. f = Body(f)
  <2>. HIDE DEF Body
  <2>. QED BY <1>3
<1>5. \A ls : NextList(ls) = f[ls]
  BY DEF NextList, StillFull
<1>. HIDE DEF f
<1>6. \A l \in Tables : f[l] = IF StillFull(l) THEN f[Split(l)] ELSE Split(l)
  BY <1>4
<1>. QED BY <1>5, <1>6

\* The recursion of nextBucket computes what KBuckets says, and keeps every
\* order that the lists were in.
LEMMA NextListIsNextBucket ==
  ASSUME NEW ls \in Tables, AllOrdered(ls, Distinct)
  PROVE  /\ NextList(ls) \in Tables
         /\ SetsOf(NextList(ls)) = NextBucket(SetsOf(ls))
         /\ \A R : AllOrdered(ls, R) => AllOrdered(NextList(ls), R)
<1>1. PICK next : /\ \A l \in Tables :
                        next[l] = IF StillFull(l) THEN next[Split(l)] ELSE Split(l)
                  /\ \A l : NextList(l) = next[l]
  BY NextByRecursion
<1>. DEFINE good == {l \in Tables :
                       AllOrdered(l, Distinct) =>
                          /\ next[l] \in Tables
                          /\ SetsOf(next[l]) = NextBucket(SetsOf(l))
                          /\ \A R : AllOrdered(l, R) => AllOrdered(next[l], R)}
<1>2. ASSUME NEW l \in Tables,
             \A m \in Tables : SplitsLeft[m] < SplitsLeft[l] => m \in good
      PROVE  l \in good
  <2>. SUFFICES ASSUME AllOrdered(l, Distinct)
                PROVE  /\ next[l] \in Tables
                       /\ SetsOf(next[l]) = NextBucket(SetsOf(l))
                       /\ \A R : AllOrdered(l, R) => AllOrdered(next[l], R)
    OBVIOUS
  <2>. DEFINE n == Len(l)
              bs == SetsOf(l)
              moves == Moves(l[n], n - 1)
              split == Split(l)
  <2>1. /\ split \in Tables /\ moves \in Seq(Peer)
        /\ Range(moves) = Deeper(bs[n], n - 1)
        /\ SetsOf(split) = SplitSets(bs)
        /\ \A R : AllOrdered(l, R) => AllOrdered(split, R)
        /\ Ordered(moves, Distinct) /\ AllOrdered(split, Distinct)
    BY SplitList
  <2>2. IsTable(bs) /\ Len(bs) = n /\ bs[n] = Range(l[n])
    BY SetsOfTable, TablesType
  <2>3. IsFiniteSet(bs[n])
    <3>1. l[n] \in Seq(Peer) /\ Ordered(l[n], Distinct)
      BY TablesType DEF AllOrdered
    <3>. QED BY <2>2, <3>1, LenOfDistinct
  <2>4. Cardinality(Deeper(bs[n], n - 1)) = Len(moves)
    <3>. HIDE DEF moves, bs
    <3>. QED BY <2>1, LenOfDistinct
  <2>5. StillFull(l) <=> Len(moves) >= BucketSize
    BY DEF StillFull
  <2>. HIDE DEF bs, moves, split, n
  <2>6. NextBucket(bs) = IF StillFull(l) THEN NextBucket(SplitSets(bs)) ELSE SplitSets(bs)
    BY <2>2, <2>3, <2>4, <2>5, UnfoldBySplits
  <2>7. next[l] = IF StillFull(l) THEN next[split] ELSE split
    BY <1>1 DEF split
  <2>8. CASE ~StillFull(l)
    BY <2>1, <2>6, <2>7, <2>8 DEF bs
  <2>9. CASE StillFull(l)
    <3>1. split \in good
      BY <1>2, <2>1, <2>9, SplitsEnd DEF split
    <3>. QED BY <2>1, <2>6, <2>7, <2>9, <3>1 DEF bs
  <2>. QED BY <2>8, <2>9
<1>3. good = Tables
  <2>1. good \in SUBSET Tables
    OBVIOUS
  <2>. HIDE DEF good
  <2>. QED BY <1>2, <2>1, SplitsEnd, MeasureInduction
<1>4. ls \in good
  BY <1>3
<1>. QED BY <1>1, <1>4

-----------------------------------------------------------------------------
(* The loop of removePeer.                                                 *)

\* The deepest bucket with peers in it, and the next deepest one (or 0).
Deepest(bs, last, next) ==
    /\ last \in 1..Len(bs) /\ bs[last] # {}
    /\ \A i \in 1..Len(bs) : i > last => bs[i] = {}
    /\ next \in 0..(last - 1) /\ (next = 0 \/ bs[next] # {})
    /\ \A i \in 1..Len(bs) : next < i /\ i < last => bs[i] = {}

LEMMA CollapseDeepest ==
  ASSUME NEW bs, IsTable(bs), NEW last, NEW next, Deepest(bs, last, next)
  PROVE  Collapse(bs) = [i \in 1..(next + 1) |-> IF i <= next THEN bs[i] ELSE bs[last]]
<1>. DEFINE full == {i \in 1..Len(bs) : bs[i] # {}}
            below == {0} \cup (full \ {last})
<1>1. Len(bs) \in Nat /\ last \in full /\ next \in below
  BY DEF IsTable, Deepest
<1>2. \A i \in full : i \in Int /\ i <= last
  BY <1>1 DEF Deepest
<1>3. \A i \in below : i \in Int /\ i <= next
  BY <1>1, <1>2 DEF Deepest
<1>. HIDE DEF full, below
<1>4. Greatest(full) = last
  <2>1. \E x \in full : \A y \in full : x >= y
    BY <1>1, <1>2
  <2>2. Greatest(full) \in full /\ \A y \in full : Greatest(full) >= y
    BY <2>1 DEF Greatest
  <2>. QED BY <1>1, <1>2, <2>2
<1>5. Greatest(below) = next
  <2>1. \E x \in below : \A y \in below : x >= y
    BY <1>1, <1>3
  <2>2. Greatest(below) \in below /\ \A y \in below : Greatest(below) >= y
    BY <2>1 DEF Greatest
  <2>. QED BY <1>1, <1>3, <2>2
<1>6. Collapse(bs) =
        IF full = {} THEN <<{}>>
        ELSE [i \in 1..(Greatest({0} \cup (full \ {Greatest(full)})) + 1) |->
                IF i <= Greatest({0} \cup (full \ {Greatest(full)})) THEN bs[i]
                ELSE bs[Greatest(full)]]
  BY DEF Collapse, full
<1>7. full # {} /\ {0} \cup (full \ {Greatest(full)}) = below
  BY <1>1, <1>4 DEF below
<1>. QED BY <1>4, <1>5, <1>6, <1>7

LEMMA DeepestExist ==
  ASSUME NEW bs, IsTable(bs), NEW k \in 1..Len(bs), bs[k] # {}
  PROVE  \E last, next : Deepest(bs, last, next)
<1>. DEFINE full == {i \in 1..Len(bs) : bs[i] # {}}
            last == Greatest(full)
            below == {0} \cup (full \ {last})
            next == Greatest(below)
<1>1. Len(bs) \in Nat /\ k \in full
  BY DEF IsTable
<1>2. IsFiniteSet(full) /\ full \in SUBSET Int
  <2>1. IsFiniteSet(1..Len(bs))
    BY <1>1, FS_Interval
  <2>. QED BY <1>1, <2>1, FS_Subset
<1>3. last \in full /\ \A i \in full : i <= last
  <2>. HIDE DEF full
  <2>. QED BY <1>1, <1>2, GreatestInSet
<1>. HIDE DEF last
<1>4. IsFiniteSet(below) /\ below \in SUBSET Int /\ 0 \in below
  <2>. DEFINE rest == full \ {last}
  <2>1. rest \subseteq full /\ below = {0} \cup rest
    OBVIOUS
  <2>. HIDE DEF full, rest, below
  <2>2. IsFiniteSet(rest)
    BY <1>2, <2>1, FS_Subset
  <2>3. IsFiniteSet({0})
    BY FS_Singleton
  <2>4. IsFiniteSet({0} \cup rest)
    BY <2>2, <2>3, FS_Union
  <2>. QED BY <1>2, <2>1, <2>4
<1>5. next \in below /\ \A i \in below : i <= next
  <2>. HIDE DEF below
  <2>. QED BY <1>4, GreatestInSet
<1>. HIDE DEF next
<1>6. next \in 0..(last - 1) /\ (next = 0 \/ bs[next] # {})
  BY <1>1, <1>3, <1>5
<1>7. \A i \in 1..Len(bs) : next < i /\ i < last => bs[i] = {}
  BY <1>1, <1>3, <1>5
<1>8. \A i \in 1..Len(bs) : i > last => bs[i] = {}
  BY <1>1, <1>3
<1>. QED BY <1>3, <1>6, <1>7, <1>8 DEF Deepest

LEMMA CollapseEmpty ==
  ASSUME NEW bs, IsTable(bs), \A i \in 1..Len(bs) : bs[i] = {}
  PROVE  Collapse(bs) = <<{}>>
BY DEF Collapse

\* The rounds of the loop take away what Collapse leaves out.
LEMMA CollapseRound ==
  ASSUME NEW bs, IsTable(bs), Len(bs) > 1, NEW new, IsTable(new),
         Len(new) = Len(bs) - 1,
         \A i \in 1..(Len(bs) - 2) : new[i] = bs[i],
         \/ bs[Len(bs)] = {} /\ new[Len(bs) - 1] = bs[Len(bs) - 1]
         \/ bs[Len(bs) - 1] = {} /\ new[Len(bs) - 1] = bs[Len(bs)]
  PROVE  Collapse(new) = Collapse(bs)
<1>. DEFINE n == Len(bs)
<1>1. n \in Nat /\ n > 1
  BY DEF IsTable
<1>2. CASE \A i \in 1..n : bs[i] = {}
  <2>1. ASSUME NEW i \in 1..(n - 1) PROVE new[i] = {}
    <3>1. i \in 1..(n - 2) \/ i = n - 1
      BY <1>1
    <3>2. n \in 1..n /\ n - 1 \in 1..n /\ i \in 1..n
      BY <1>1
    <3>. QED BY <1>2, <3>1, <3>2
  <2>. QED BY <1>2, <2>1, CollapseEmpty
<1>3. CASE \E i \in 1..n : bs[i] # {}
  <2>1. PICK last, next : Deepest(bs, last, next)
    BY <1>3, DeepestExist
  <2>2. /\ last \in 1..n /\ bs[last] # {}
        /\ \A i \in 1..n : i > last => bs[i] = {}
        /\ next \in 0..(last - 1) /\ (next = 0 \/ bs[next] # {})
        /\ \A i \in 1..n : next < i /\ i < last => bs[i] = {}
    BY <2>1 DEF Deepest
  <2>. DEFINE last2 == IF last = n THEN n - 1 ELSE last
  <2>3. bs[n] # {} => next <= n - 2
    BY <1>1, <2>2
  <2>4. CASE bs[n] = {} /\ new[n - 1] = bs[n - 1]
    <3>1. last <= n - 1 /\ \A i \in 1..(n - 1) : new[i] = bs[i]
      BY <1>1, <2>2, <2>4
    <3>2. Deepest(new, last, next)
      BY <1>1, <2>2, <3>1 DEF Deepest
    <3>3. last \in 1..(n - 1) /\ \A i \in 1..(next + 1) : i <= next => new[i] = bs[i]
      BY <1>1, <2>2, <3>1
    <3>. HIDE DEF n
    <3>4. Collapse(new) = [i \in 1..(next + 1) |-> IF i <= next THEN new[i] ELSE new[last]]
      BY <3>2, CollapseDeepest
    <3>5. Collapse(bs) = [i \in 1..(next + 1) |-> IF i <= next THEN bs[i] ELSE bs[last]]
      BY <2>1, CollapseDeepest
    <3>. QED BY <3>1, <3>3, <3>4, <3>5
  <2>5. CASE bs[n - 1] = {} /\ new[n - 1] = bs[n] /\ bs[n] # {}
    <3>1. last = n /\ next <= n - 2
      BY <1>1, <2>2, <2>3, <2>5
    <3>2. next # n - 1 /\ \A i \in 1..(n - 2) : new[i] = bs[i]
      BY <1>1, <3>1
    <3>3. Deepest(new, n - 1, next)
      BY <1>1, <2>2, <2>5, <3>1, <3>2 DEF Deepest
    <3>4. \A i \in 1..(next + 1) : i <= next => new[i] = bs[i]
      BY <1>1, <2>2, <3>1, <3>2
    <3>5. Collapse(new) = [i \in 1..(next + 1) |-> IF i <= next THEN new[i] ELSE new[n - 1]]
      <4>. HIDE DEF n
      <4>. QED BY <3>3, CollapseDeepest
    <3>6. Collapse(bs) = [i \in 1..(next + 1) |-> IF i <= next THEN bs[i] ELSE bs[last]]
      BY <2>1, CollapseDeepest
    <3>7. new[n - 1] = bs[last]
      BY <2>5, <3>1
    <3>. HIDE DEF n
    <3>. QED BY <3>4, <3>5, <3>6, <3>7
  <2>6. CASE bs[n - 1] = {} /\ new[n - 1] = bs[n] /\ bs[n] = {}
    BY <2>4, <2>6
  <2>. QED BY <2>4, <2>5, <2>6
<1>. QED BY <1>2, <1>3

LEMMA CollapseDone ==
  ASSUME NEW bs, IsTable(bs),
         Len(bs) > 1 => bs[Len(bs)] # {} /\ bs[Len(bs) - 1] # {}
  PROVE  Collapse(bs) = bs
<1>. DEFINE n == Len(bs)
<1>1. n \in Nat /\ n >= 1 /\ bs = [i \in 1..n |-> bs[i]]
  BY DEF IsTable
<1>2. CASE bs[n] = {}
  <2>1. n = 1 /\ \A i \in 1..n : bs[i] = {}
    BY <1>1, <1>2
  <2>2. Collapse(bs) = <<{}>>
    BY <2>1, CollapseEmpty
  <2>3. bs = <<{}>>
    BY <1>1, <2>1
  <2>. QED BY <2>2, <2>3
<1>3. CASE bs[n] # {}
  <2>1. Deepest(bs, n, n - 1)
    BY <1>1, <1>3 DEF Deepest
  <2>2. Collapse(bs) = [i \in 1..(n - 1 + 1) |-> IF i <= n - 1 THEN bs[i] ELSE bs[n]]
    <3>. HIDE DEF n
    <3>. QED BY <2>1, CollapseDeepest
  <2>3. ASSUME NEW i \in 1..n PROVE (IF i <= n - 1 THEN bs[i] ELSE bs[n]) = bs[i]
    <3>1. ~(i <= n - 1) => i = n
      BY <1>1
    <3>. QED BY <3>1
  <2>4. n - 1 + 1 = n
    BY <1>1
  <2>. HIDE DEF n
  <2>. QED BY <1>1, <2>2, <2>3, <2>4
<1>. QED BY <1>2, <1>3

LEMMA WithoutLastTable ==
  ASSUME NEW l \in Tables, Len(l) > 1
  PROVE  /\ WithoutLast(l) \in Tables
         /\ Len(WithoutLast(l)) = Len(l) - 1
         /\ \A i \in 1..(Len(l) - 1) : WithoutLast(l)[i] = l[i]
<1>. DEFINE n == Len(l)
            new == SubSeq(l, 1, n - 1)
<1>1. n \in Nat /\ n > 1 /\ \A i \in 1..n : l[i] \in Seq(Peer)
  BY TablesType
<1>2. \A i \in 1..(n - 1) : l[i] \in Seq(Peer)
  BY <1>1
<1>3. /\ new \in Seq(Seq(Peer)) /\ Len(new) = n - 1
      /\ \A i \in 1..(n - 1) : new[i] = l[i]
  <2>1. /\ new \in Seq(Seq(Peer))
        /\ Len(new) = IF 1 <= n - 1 THEN n - 1 - 1 + 1 ELSE 0
        /\ \A i \in 1..(n - 1 - 1 + 1) : new[i] = l[1 + i - 1]
    <3>1. 1 \in Int /\ n - 1 \in Int
      BY <1>1
    <3>. HIDE DEF n
    <3>. QED BY <1>2, <3>1, SubSeqProperties
  <2>. HIDE DEF new
  <2>. QED BY <1>1, <2>1
<1>4. new # <<>>
  <2>. HIDE DEF new
  <2>. QED BY <1>1, <1>3
<1>. QED BY <1>3, <1>4 DEF WithoutLast, Tables

LEMMA WithoutSecondLastTable ==
  ASSUME NEW l \in Tables, Len(l) > 1
  PROVE  /\ WithoutSecondLast(l) \in Tables
         /\ Len(WithoutSecondLast(l)) = Len(l) - 1
         /\ \A i \in 1..(Len(l) - 2) : WithoutSecondLast(l)[i] = l[i]
         /\ WithoutSecondLast(l)[Len(l) - 1] = l[Len(l)]
<1>. DEFINE n == Len(l)
            front == SubSeq(l, 1, n - 2)
            new == Append(front, l[n])
<1>1. n \in Nat /\ n > 1 /\ (\A i \in 1..n : l[i] \in Seq(Peer)) /\ n \in 1..n
  BY TablesType
<1>2. \A i \in 1..(n - 2) : l[i] \in Seq(Peer)
  BY <1>1
<1>3. /\ front \in Seq(Seq(Peer)) /\ Len(front) = n - 2
      /\ \A i \in 1..(n - 2) : front[i] = l[i]
  <2>1. /\ front \in Seq(Seq(Peer))
        /\ Len(front) = IF 1 <= n - 2 THEN n - 2 - 1 + 1 ELSE 0
        /\ \A i \in 1..(n - 2 - 1 + 1) : front[i] = l[1 + i - 1]
    <3>1. 1 \in Int /\ n - 2 \in Int
      BY <1>1
    <3>. HIDE DEF n
    <3>. QED BY <1>2, <3>1, SubSeqProperties
  <2>. HIDE DEF front
  <2>2. Len(front) = n - 2
    <3>. HIDE DEF n
    <3>1. CASE 1 <= n - 2
      BY <1>1, <2>1, <3>1
    <3>2. CASE n = 2
      BY <2>1, <3>2
    <3>. QED BY <1>1, <3>1, <3>2
  <2>3. ASSUME NEW i \in 1..(n - 2) PROVE front[i] = l[i]
    <3>1. i \in 1..(n - 2 - 1 + 1) /\ 1 + i - 1 = i
      BY <1>1
    <3>. QED BY <2>1, <3>1
  <2>. QED BY <2>1, <2>2, <2>3
<1>. HIDE DEF front
<1>4. /\ new \in Seq(Seq(Peer)) /\ new # <<>> /\ Len(new) = n - 2 + 1
      /\ \A i \in 1..(n - 2) : new[i] = front[i]
      /\ new[n - 2 + 1] = l[n]
  <2>1. l[n] \in Seq(Peer)
    BY <1>1
  <2>. HIDE DEF n
  <2>. QED BY <1>3, <2>1, AppendProperties
<1>5. n - 2 + 1 = n - 1
  BY <1>1
<1>6. new = WithoutSecondLast(l)
  BY DEF WithoutSecondLast, front
<1>. HIDE DEF new
<1>. QED BY <1>3, <1>4, <1>5, <1>6 DEF Tables

\* One round of the loop.
MoreToDrop(l) == LastIsEmpty(l) \/ SecondLastIsEmpty(l)

AfterRound(l) ==
    IF LastIsEmpty(l) THEN WithoutLast(l)
    ELSE IF SecondLastIsEmpty(l) THEN WithoutSecondLast(l) ELSE l

Length == [l \in Tables |-> Len(l)]

LEMMA RangeEmpty ==
  ASSUME NEW b \in Seq(Peer)
  PROVE  Range(b) = {} <=> b = <<>>
<1>1. Len(b) \in Nat /\ DOMAIN b = 1..Len(b)
  OBVIOUS
<1>2. CASE b = <<>>
  BY <1>2 DEF Range
<1>3. CASE b # <<>>
  <2>1. b[1] \in Range(b)
    BY <1>1, <1>3 DEF Range
  <2>. QED BY <1>3, <2>1
<1>. QED BY <1>2, <1>3

LEMMA RoundOfLoop ==
  ASSUME NEW l \in Tables
  PROVE  /\ AfterRound(l) \in Tables
         /\ MoreToDrop(l) => Len(AfterRound(l)) < Len(l)
         /\ MoreToDrop(l) => Collapse(SetsOf(AfterRound(l))) = Collapse(SetsOf(l))
         /\ ~MoreToDrop(l) => Collapse(SetsOf(l)) = SetsOf(l)
         /\ \A R : AllOrdered(l, R) => AllOrdered(AfterRound(l), R)
<1>. DEFINE n == Len(l)
            new == AfterRound(l)
            bs == SetsOf(l)
            ns == SetsOf(new)
<1>1. /\ n \in Nat \ {0} /\ IsTable(bs) /\ Len(bs) = n
      /\ \A i \in 1..n : l[i] \in Seq(Peer) /\ bs[i] = Range(l[i])
      /\ \A i \in 1..n : bs[i] = {} <=> l[i] = <<>>
  BY TablesType, SetsOfTable, RangeEmpty
<1>2. CASE ~MoreToDrop(l)
  <2>1. new = l
    BY <1>2 DEF MoreToDrop, AfterRound
  <2>2. n > 1 => bs[n] # {} /\ bs[n - 1] # {}
    <3>1. n > 1 => l[n] # <<>> /\ l[n - 1] # <<>>
      BY <1>2 DEF MoreToDrop, LastIsEmpty, SecondLastIsEmpty
    <3>2. n > 1 => n \in 1..n /\ n - 1 \in 1..n
      BY <1>1
    <3>. HIDE DEF n, bs
    <3>. QED BY <1>1, <3>1, <3>2
  <2>3. Collapse(bs) = bs
    <3>. HIDE DEF bs
    <3>. QED BY <1>1, <2>2, CollapseDone
  <2>. QED BY <1>2, <2>1, <2>3
<1>3. CASE MoreToDrop(l)
  <2>1. n > 1
    BY <1>3 DEF MoreToDrop, LastIsEmpty, SecondLastIsEmpty
  <2>2. /\ new \in Tables /\ Len(new) = n - 1
        /\ \A i \in 1..(n - 2) : new[i] = l[i]
        /\ \/ l[n] = <<>> /\ new[n - 1] = l[n - 1]
           \/ l[n - 1] = <<>> /\ new[n - 1] = l[n]
    <3>1. CASE LastIsEmpty(l)
      <4>1. new = WithoutLast(l) /\ l[n] = <<>>
        BY <3>1 DEF AfterRound, LastIsEmpty
      <4>2. /\ WithoutLast(l) \in Tables /\ Len(WithoutLast(l)) = n - 1
            /\ \A i \in 1..(n - 1) : WithoutLast(l)[i] = l[i]
        BY <2>1, WithoutLastTable
      <4>3. n - 1 \in 1..(n - 1) /\ \A i \in 1..(n - 2) : i \in 1..(n - 1)
        BY <1>1, <2>1
      <4>. HIDE DEF new, n
      <4>. QED BY <4>1, <4>2, <4>3
    <3>2. CASE ~LastIsEmpty(l)
      <4>1. new = WithoutSecondLast(l) /\ l[n - 1] = <<>>
        BY <1>3, <3>2 DEF AfterRound, MoreToDrop, SecondLastIsEmpty
      <4>2. /\ WithoutSecondLast(l) \in Tables /\ Len(WithoutSecondLast(l)) = n - 1
            /\ \A i \in 1..(n - 2) : WithoutSecondLast(l)[i] = l[i]
            /\ WithoutSecondLast(l)[n - 1] = l[n]
        BY <2>1, WithoutSecondLastTable
      <4>. HIDE DEF new, n
      <4>. QED BY <4>1, <4>2
    <3>. QED BY <3>1, <3>2
  <2>. HIDE DEF new
  <2>3. /\ IsTable(ns) /\ Len(ns) = n - 1
        /\ \A i \in 1..(n - 1) : ns[i] = Range(new[i])
    BY <2>2, SetsOfTable
  <2>4. \A R : AllOrdered(l, R) => AllOrdered(new, R)
    <3>. SUFFICES ASSUME NEW R, AllOrdered(l, R), NEW i \in 1..(n - 1)
                  PROVE  Ordered(new[i], R)
      BY <2>2 DEF AllOrdered
    <3>1. /\ i \in 1..(n - 2) \/ i = n - 1
          /\ i \in 1..n /\ n \in 1..n
      BY <1>1
    <3>2. new[i] = l[i] \/ new[i] = l[n]
      BY <2>2, <3>1
    <3>. QED BY <3>1, <3>2 DEF AllOrdered
  <2>5. /\ \A i \in 1..(n - 2) : ns[i] = bs[i]
        /\ \/ bs[n] = {} /\ ns[n - 1] = bs[n - 1]
           \/ bs[n - 1] = {} /\ ns[n - 1] = bs[n]
    <3>1. n \in 1..n /\ n - 1 \in 1..n /\ n - 1 \in 1..(n - 1)
      BY <1>1, <2>1
    <3>2. \A i \in 1..(n - 2) : i \in 1..n /\ i \in 1..(n - 1)
      BY <1>1
    <3>. HIDE DEF bs, ns, n
    <3>. QED BY <1>1, <2>2, <2>3, <3>1, <3>2
  <2>6. Collapse(ns) = Collapse(bs)
    <3>. HIDE DEF bs, ns
    <3>. QED BY <1>1, <2>1, <2>3, <2>5, CollapseRound
  <2>7. n - 1 < n
    BY <1>1
  <2>. QED BY <1>3, <2>2, <2>4, <2>6, <2>7 DEF new
<1>. QED BY <1>2, <1>3

LEMMA DropByRecursion ==
  \E drop : /\ \A l \in Tables :
                  drop[l] = IF MoreToDrop(l) THEN drop[AfterRound(l)] ELSE l
            /\ \A ls : DropEmpty(ls) = drop[ls]
<1>. DEFINE Body(f) == [l \in Tables |->
                          IF LastIsEmpty(l) THEN f[WithoutLast(l)]
                          ELSE IF SecondLastIsEmpty(l) THEN f[WithoutSecondLast(l)]
                          ELSE l]
            stop == {l \in Tables : ~MoreToDrop(l)}
            out == [l \in Tables |-> l]
            succ == [l \in Tables |-> AfterRound(l)]
            comb == [x \in Tables \X Tables |-> x[2]]
            f == CHOOSE f : f = Body(f)
<1>1. \A l \in Tables : AfterRound(l) \in Tables
  BY RoundOfLoop
<1>2. Terminates(Tables, Tables, Length, stop, out, succ, comb)
  <2>1. /\ succ \in [Tables -> Tables] /\ comb \in [Tables \X Tables -> Tables]
        /\ out \in [Tables -> Tables]
    BY <1>1
  <2>2. Length \in [Tables -> Nat]
    BY TablesType DEF Length
  <2>3. \A l \in Tables \ stop : Length[succ[l]] < Length[l]
    BY RoundOfLoop DEF Length
  <2>. HIDE DEF out, comb, succ
  <2>. QED BY <2>1, <2>2, <2>3 DEF Terminates
<1>3. \A g : \A l \in Tables :
         Body(g)[l] = IF MoreToDrop(l) THEN g[AfterRound(l)] ELSE l
  BY DEF MoreToDrop, AfterRound
<1>4. \E g : g = Body(g)
  <2>1. PICK g \in [Tables -> Tables] :
           \A l \in Tables : g[l] = Equation(g, l, stop, out, succ, comb)
    <3>. HIDE DEF stop, out, comb, succ
    <3>. QED BY <1>2, Recursion
  <2>2. ASSUME NEW l \in Tables PROVE g[l] = Body(g)[l]
    <3>1. g[l] = Equation(g, l, stop, out, succ, comb)
      BY <2>1
    <3>2. AfterRound(l) \in Tables /\ g[AfterRound(l)] \in Tables
      BY <1>1
    <3>3. comb[<<l, g[AfterRound(l)]>>] = g[AfterRound(l)]
      BY <3>2
    <3>4. g[l] = IF MoreToDrop(l) THEN g[AfterRound(l)] ELSE l
      BY <3>1, <3>3 DEF Equation
    <3>. HIDE DEF Body
    <3>. QED BY <1>3, <3>4
  <2>3. g = Body(g)
    BY <2>2
  <2>. QED BY <2>3
<1>5. f = Body(f)
  <2>. HIDE DEF Body
  <2>. QED BY <1>4
<1>6. \A ls : DropEmpty(ls) = f[ls]
  BY DEF DropEmpty
<1>. HIDE DEF f
<1>7. \A l \in Tables : f[l] = IF MoreToDrop(l) THEN f[AfterRound(l)] ELSE l
  <2>. HIDE DEF Body
  <2>. QED BY <1>3, <1>5
<1>. QED BY <1>6, <1>7

\* The loop leaves what KBuckets says, in lists that keep their order.
LEMMA DropEmptyIsCollapse ==
  ASSUME NEW ls \in Tables
  PROVE  /\ DropEmpty(ls) \in Tables
         /\ SetsOf(DropEmpty(ls)) = Collapse(SetsOf(ls))
         /\ \A R : AllOrdered(ls, R) => AllOrdered(DropEmpty(ls), R)
<1>1. PICK drop : /\ \A l \in Tables :
                        drop[l] = IF MoreToDrop(l) THEN drop[AfterRound(l)] ELSE l
                  /\ \A l : DropEmpty(l) = drop[l]
  BY DropByRecursion
<1>. DEFINE good == {l \in Tables :
                       /\ drop[l] \in Tables
                       /\ SetsOf(drop[l]) = Collapse(SetsOf(l))
                       /\ \A R : AllOrdered(l, R) => AllOrdered(drop[l], R)}
<1>2. Length \in [Tables -> Nat] /\ \A l \in Tables : Length[l] = Len(l)
  BY TablesType DEF Length
<1>3. ASSUME NEW l \in Tables,
             \A m \in Tables : Length[m] < Length[l] => m \in good
      PROVE  l \in good
  <2>1. CASE ~MoreToDrop(l)
    BY <1>1, <2>1, RoundOfLoop
  <2>2. CASE MoreToDrop(l)
    <3>1. AfterRound(l) \in Tables /\ Len(AfterRound(l)) < Len(l)
      BY <2>2, RoundOfLoop
    <3>2. AfterRound(l) \in good
      <4>. HIDE DEF good
      <4>. QED BY <1>2, <1>3, <3>1
    <3>3. drop[l] = drop[AfterRound(l)]
      BY <1>1, <2>2
    <3>. QED BY <2>2, <3>2, <3>3, RoundOfLoop
  <2>. QED BY <2>1, <2>2
<1>4. good = Tables
  <2>1. good \in SUBSET Tables
    OBVIOUS
  <2>. HIDE DEF good
  <2>. QED BY <1>2, <1>3, <2>1, MeasureInduction
<1>5. ls \in good
  BY <1>4
<1>. QED BY <1>1, <1>5

LEMMA UnlinkIsRemove ==
  ASSUME NEW ls \in Tables, NEW p \in Peer
  PROVE  /\ Unlink(ls, p) \in Tables
         /\ SetsOf(Unlink(ls, p)) = RemoveFrom(SetsOf(ls), p)
         /\ \A R : AllOrdered(ls, R) => AllOrdered(Unlink(ls, p), R)
<1>. DEFINE id == BucketIdForPeer(ls, p)
            b == ls[id]
            rest == Only(b, Peer \ {p})
            mid == [ls EXCEPT ![id] = rest]
<1>1. id \in 1..Len(ls) /\ b \in Seq(Peer) /\ BucketIdForPeer(SetsOf(ls), p) = id
  BY SameBuckets, TablesType
<1>2. /\ rest \in Seq(Peer) /\ Range(rest) = Range(b) \cap (Peer \ {p})
      /\ \A R : Ordered(b, R) => Ordered(rest, R)
  <2>. HIDE DEF b
  <2>. QED BY <1>1, OnlyKeepsOrder
<1>3. Range(rest) = Range(b) \ {p}
  <2>1. Range(b) \in SUBSET Peer
    <3>. HIDE DEF b
    <3>. QED BY <1>1, RangeOfSeq
  <2>. QED BY <1>2, <2>1
<1>4. Unlink(ls, p) = DropEmpty(mid)
  BY DEF Unlink
<1>5. RemoveFrom(SetsOf(ls), p) = Collapse([SetsOf(ls) EXCEPT ![id] = Range(b) \ {p}])
  <2>1. SetsOf(ls)[id] = Range(b)
    BY <1>1, SetsOfTable
  <2>. HIDE DEF id, b
  <2>. QED BY <1>1, <2>1 DEF RemoveFrom
<1>6. \A R : AllOrdered(ls, R) => Ordered(b, R)
  BY <1>1 DEF AllOrdered
<1>7. mid = [ls EXCEPT ![id] = rest]
  OBVIOUS
<1>. HIDE DEF id, b, rest, mid
<1>8. /\ mid \in Tables
      /\ SetsOf(mid) = [SetsOf(ls) EXCEPT ![id] = Range(rest)]
      /\ \A R : AllOrdered(ls, R) /\ Ordered(rest, R) => AllOrdered(mid, R)
  BY <1>1, <1>2, <1>7, ReplacedList
<1>. QED BY <1>2, <1>3, <1>4, <1>5, <1>6, <1>8, DropEmptyIsCollapse

-----------------------------------------------------------------------------
(* bucket.min with addPeer's comparator.                                   *)

IsReplaceable(p) == info[p].replaceable

LEMMA ScanByRecursion ==
  ASSUME NEW b \in Seq(Peer), Len(b) > 0
  PROVE  \E minVal :
            /\ \A i \in 1..Len(b) :
                  minVal[i] = IF i = 1 \/ IsReplaceable(b[i]) THEN b[i] ELSE minVal[i - 1]
            /\ ReplaceablePeer(b) = minVal[Len(b)]
<1>. DEFINE n == Len(b)
            D == 1..n
            Body(f) == [i \in D |->
                          IF i = 1 \/ info[b[i]].replaceable THEN b[i] ELSE f[i - 1]]
            measure == [i \in D |-> i]
            stop == {i \in D : i = 1 \/ IsReplaceable(b[i])}
            out == [i \in D |-> b[i]]
            succ == [i \in D |-> IF i = 1 THEN 1 ELSE i - 1]
            comb == [x \in D \X Peer |-> x[2]]
            f == CHOOSE f : f = Body(f)
<1>1. n \in Nat /\ n > 0 /\ \A i \in D : b[i] \in Peer
  OBVIOUS
<1>2. Terminates(D, Peer, measure, stop, out, succ, comb)
  <2>1. measure \in [D -> Nat] /\ out \in [D -> Peer] /\ succ \in [D -> D]
    BY <1>1
  <2>2. comb \in [D \X Peer -> Peer]
    OBVIOUS
  <2>3. \A i \in D \ stop : measure[succ[i]] < measure[i]
    <3>. SUFFICES ASSUME NEW i \in D, i # 1 PROVE measure[succ[i]] < measure[i]
      OBVIOUS
    <3>1. succ[i] = i - 1 /\ i - 1 \in D /\ i \in Int
      BY <1>1
    <3>2. measure[i - 1] = i - 1 /\ measure[i] = i
      BY <3>1
    <3>. HIDE DEF measure, succ
    <3>. QED BY <3>1, <3>2
  <2>. HIDE DEF measure, out, succ, comb, D
  <2>. QED BY <2>1, <2>2, <2>3 DEF Terminates
<1>3. \E g : g = Body(g)
  <2>1. PICK g \in [D -> Peer] :
           \A i \in D : g[i] = Equation(g, i, stop, out, succ, comb)
    <3>. HIDE DEF D, measure, stop, out, comb, succ
    <3>. QED BY <1>2, Recursion
  <2>2. ASSUME NEW i \in D PROVE g[i] = Body(g)[i]
    <3>1. g[i] = Equation(g, i, stop, out, succ, comb)
      BY <2>1
    <3>2. CASE i = 1 \/ IsReplaceable(b[i])
      <4>1. i \in stop /\ out[i] = b[i]
        BY <3>2
      <4>2. g[i] = b[i]
        <5>. HIDE DEF stop, out, succ, comb
        <5>. QED BY <3>1, <4>1 DEF Equation
      <4>. QED BY <3>2, <4>2 DEF IsReplaceable
    <3>3. CASE ~(i = 1 \/ IsReplaceable(b[i]))
      <4>1. i \notin stop /\ succ[i] = i - 1 /\ i - 1 \in D
        BY <3>3, <1>1
      <4>2. g[i - 1] \in Peer
        BY <4>1
      <4>3. comb[<<i, g[i - 1]>>] = g[i - 1]
        BY <4>2
      <4>4. g[i] = g[i - 1]
        <5>. HIDE DEF stop, out, succ, comb
        <5>. QED BY <3>1, <4>1, <4>3 DEF Equation
      <4>. QED BY <3>3, <4>4 DEF IsReplaceable
    <3>. QED BY <3>2, <3>3
  <2>3. g = Body(g)
    <3>1. g = [i \in D |-> g[i]]
      OBVIOUS
    <3>. QED BY <2>2, <3>1
  <2>. QED BY <2>3
<1>4. f = Body(f)
  <2>. HIDE DEF Body
  <2>. QED BY <1>3
<1>5. ReplaceablePeer(b) = f[n]
  BY DEF ReplaceablePeer
<1>. HIDE DEF f
<1>6. ASSUME NEW i \in D
      PROVE  f[i] = IF i = 1 \/ IsReplaceable(b[i]) THEN b[i] ELSE f[i - 1]
  <2>1. f[i] = Body(f)[i]
    BY <1>4
  <2>. QED BY <2>1 DEF IsReplaceable
<1>. QED BY <1>5, <1>6

\* The scan ends on the last replaceable peer of the list, or, if there is
\* none, on a peer that is not replaceable.
LEMMA ScanFindsLast ==
  ASSUME NEW b \in Seq(Peer), Len(b) > 0
  PROVE  \E j \in 1..Len(b) :
            /\ ReplaceablePeer(b) = b[j]
            /\ \A k \in 1..Len(b) : IsReplaceable(b[k]) => IsReplaceable(b[j]) /\ k <= j
<1>. DEFINE n == Len(b)
            D == 1..n
            measure == [i \in D |-> i]
<1>1. PICK minVal :
            /\ \A i \in D :
                  minVal[i] = IF i = 1 \/ IsReplaceable(b[i]) THEN b[i] ELSE minVal[i - 1]
            /\ ReplaceablePeer(b) = minVal[n]
  BY ScanByRecursion
<1>2. n \in Nat /\ n > 0
  OBVIOUS
<1>. HIDE DEF n
<1>. DEFINE Found(i, j) == /\ minVal[i] = b[j]
                           /\ j = 1 \/ IsReplaceable(b[j])
                           /\ \A k \in D : j < k /\ k <= i => ~IsReplaceable(b[k])
            good == {i \in D : \E j \in 1..i : Found(i, j)}
<1>3. ASSUME NEW i \in D, \A m \in D : measure[m] < measure[i] => m \in good
      PROVE  i \in good
  <2>1. CASE i = 1 \/ IsReplaceable(b[i])
    <3>1. Found(i, i) /\ i \in 1..i
      BY <1>1, <1>2, <2>1
    <3>. QED BY <3>1
  <2>2. CASE ~(i = 1 \/ IsReplaceable(b[i]))
    <3>1. i - 1 \in D /\ measure[i - 1] < measure[i] /\ minVal[i] = minVal[i - 1]
      BY <1>1, <1>2, <2>2
    <3>2. PICK j \in 1..(i - 1) : Found(i - 1, j)
      BY <1>3, <3>1
    <3>3. Found(i, j) /\ j \in 1..i
      <4>1. \A k \in D : j < k /\ k <= i => k <= i - 1 \/ k = i
        BY <1>2
      <4>. QED BY <1>2, <2>2, <3>1, <3>2, <4>1
    <3>. QED BY <3>3
  <2>. QED BY <2>1, <2>2
<1>4. good = D
  <2>1. good \in SUBSET D /\ measure \in [D -> Nat]
    BY <1>2
  <2>. HIDE DEF good, D, measure
  <2>. QED BY <1>3, <2>1, MeasureInduction
<1>5. PICK j \in 1..n : Found(n, j)
  <2>1. n \in good
    <3>1. n \in D
      BY <1>2
    <3>. HIDE DEF good, D
    <3>. QED BY <1>4, <3>1
  <2>. QED BY <2>1
<1>6. ASSUME NEW k \in D, IsReplaceable(b[k]) PROVE IsReplaceable(b[j]) /\ k <= j
  <2>1. k <= j
    BY <1>2, <1>5, <1>6
  <2>2. j = 1 => k = j
    BY <1>2, <2>1
  <2>. QED BY <1>5, <1>6, <2>1, <2>2
<1>. QED BY <1>1, <1>5, <1>6 DEF n

-----------------------------------------------------------------------------
(* The inductive invariant.                                                *)

\* The pairs of peers of which the first was not added before the second.
Ages(inf) == {x \in Peer \X Peer : inf[x[1]].addedAt >= inf[x[2]].addedAt}

\* The order of the lists is kept by a new peer in front of one only because
\* nobody was added later than now; a peer is taken out of the right list
\* only because the table is well placed and no list has a peer twice.
ListIInv ==
    /\ lists \in Tables
    /\ AllOrdered(lists, Distinct)
    /\ AllOrdered(lists, Ages(info))
    /\ GoodTable(ListSets)
    /\ now \in Table!Times
    /\ info \in [Peers(ListSets) -> Table!PeerInfo]
    /\ \A p \in DOMAIN info : info[p].addedAt <= now

\* The operators of the instance are those of KBuckets.
LEMMA SameOperators ==
  \A bs, p : /\ Table!BucketIdForPeer(bs, p) = BucketIdForPeer(bs, p)
             /\ Table!BucketForPeer(bs, p) = BucketForPeer(bs, p)
             /\ Table!InLastBucket(bs, p) <=> InLastBucket(bs, p)
             /\ Table!HasRoom(bs, p) <=> HasRoom(bs, p)
             /\ Table!Push(bs, p) = Push(bs, p)
             /\ Table!RemoveFrom(bs, p) = RemoveFrom(bs, p)
             /\ Table!NextBucket(bs) = NextBucket(bs)
             /\ Table!Peers(bs) = Peers(bs)
<1>0. ASSUME NEW S PROVE Table!Cardinality(S) = Cardinality(S)
  BY DEF Table!Cardinality, Cardinality
<1>1. ASSUME NEW bs, NEW p
      PROVE  /\ Table!BucketIdForPeer(bs, p) = BucketIdForPeer(bs, p)
             /\ Table!BucketForPeer(bs, p) = BucketForPeer(bs, p)
             /\ Table!InLastBucket(bs, p) <=> InLastBucket(bs, p)
             /\ Table!HasRoom(bs, p) <=> HasRoom(bs, p)
             /\ Table!Push(bs, p) = Push(bs, p)
             /\ Table!Peers(bs) = Peers(bs)
  BY <1>0 DEF Table!BucketIdForPeer, BucketIdForPeer, Table!BucketForPeer, BucketForPeer,
         Table!InLastBucket, InLastBucket, Table!HasRoom, HasRoom,
         Table!Push, Push, Table!Peers, Peers, Table!Buckets, Buckets
<1>2. /\ \A S : Table!Least(S) = Least(S)
      /\ \A S : Table!Greatest(S) = Greatest(S)
  BY DEF Table!Least, Least, Table!Greatest, Greatest
<1>3. \A b, c : Table!Deeper(b, c) = Deeper(b, c)
  BY DEF Table!Deeper, Deeper
<1>4. ASSUME NEW bs PROVE Table!UnfoldTo(bs) = UnfoldTo(bs)
  <2>. DEFINE Ends(c) == Cardinality(Deeper(bs[Len(bs)], c)) < BucketSize
              Splits == {c \in (Len(bs) - 1)..(Len(bs) + MaxCpl) : Ends(c)}
  <2>1. \A c : Table!Cardinality(Table!Deeper(bs[Len(bs)], c)) < BucketSize <=> Ends(c)
    BY <1>0, <1>3
  <2>2. Table!UnfoldTo(bs) = Table!Least(Splits)
    BY <2>1 DEF Table!UnfoldTo
  <2>3. UnfoldTo(bs) = Least(Splits)
    BY DEF UnfoldTo
  <2>. QED BY <1>2, <2>2, <2>3
<1>5. ASSUME NEW bs PROVE Table!NextBucket(bs) = NextBucket(bs)
  BY <1>3, <1>4 DEF Table!NextBucket, NextBucket
<1>6. ASSUME NEW bs PROVE Table!Collapse(bs) = Collapse(bs)
  BY <1>2 DEF Table!Collapse, Collapse
<1>7. ASSUME NEW bs, NEW p PROVE Table!RemoveFrom(bs, p) = RemoveFrom(bs, p)
  BY <1>1, <1>6 DEF Table!RemoveFrom, RemoveFrom
<1>. QED BY <1>1, <1>5, <1>7

LEMMA SetsOfPeers ==
  ASSUME NEW ls \in Tables
  PROVE  /\ Peers(SetsOf(ls)) \in SUBSET Peer
         /\ \A i \in 1..Len(ls) : \A j \in 1..Len(ls[i]) :
               ls[i][j] \in Peers(SetsOf(ls)) /\ ls[i][j] \in Range(ls[i])
<1>1. \A i \in 1..Len(ls) : ls[i] \in Seq(Peer) /\ SetsOf(ls)[i] = Range(ls[i])
  BY TablesType, SetsOfTable
<1>2. Peers(SetsOf(ls)) \in SUBSET Peer
  BY SetsOfTable DEF IsTable, Peers, Buckets
<1>3. ASSUME NEW i \in 1..Len(ls), NEW j \in 1..Len(ls[i])
      PROVE  ls[i][j] \in Peers(SetsOf(ls)) /\ ls[i][j] \in Range(ls[i])
  <2>1. ls[i][j] \in Range(ls[i])
    BY <1>1 DEF Range
  <2>2. ls[i][j] \in SetsOf(ls)[i] /\ i \in 1..Len(SetsOf(ls))
    BY <1>1, <2>1, SetsOfTable
  <2>. QED BY <2>1, <2>2 DEF Peers, Buckets
<1>. QED BY <1>2, <1>3

\* An order that gives way to another one on the peers of the table.
LEMMA AllOrderedBy ==
  ASSUME NEW ls \in Tables, NEW Q, NEW R, AllOrdered(ls, Q),
         \A p, q \in Peers(SetsOf(ls)) : <<p, q>> \in Q => <<p, q>> \in R
  PROVE  AllOrdered(ls, R)
<1>. SUFFICES ASSUME NEW i \in 1..Len(ls), NEW j \in 1..Len(ls[i]),
                     NEW k \in 1..Len(ls[i]), j < k
              PROVE  <<ls[i][j], ls[i][k]>> \in R
  BY DEF AllOrdered, Ordered
<1>1. <<ls[i][j], ls[i][k]>> \in Q
  BY DEF AllOrdered, Ordered
<1>. QED BY <1>1, SetsOfPeers

\* The lists addPeer looks into.
LEMMA CandidateList ==
  ASSUME ListIInv, NEW p \in Peer
  PROVE  LET ls == Candidate(p)
         IN  /\ ls \in Tables
             /\ SetsOf(ls) = Unfolded(ListSets, p)
             /\ SetsOf(ls) = Table!Candidate(p)
             /\ AllOrdered(ls, Distinct) /\ AllOrdered(ls, Ages(info))
             /\ GoodTable(SetsOf(ls))
             /\ Peers(SetsOf(ls)) = Peers(ListSets)
             /\ FitsIn(ls, p) <=> HasRoom(SetsOf(ls), p)
<1>. DEFINE ls == Candidate(p)
<1>1. lists \in Tables /\ AllOrdered(lists, Distinct) /\ AllOrdered(lists, Ages(info))
  BY DEF ListIInv
<1>2. /\ FitsIn(lists, p) <=> HasRoom(ListSets, p)
      /\ InLastBucket(lists, p) <=> InLastBucket(ListSets, p)
  BY <1>1, SameRoom, SameBuckets DEF ListSets
<1>3. /\ ls \in Tables /\ SetsOf(ls) = Unfolded(ListSets, p)
      /\ AllOrdered(ls, Distinct) /\ AllOrdered(ls, Ages(info))
  BY <1>1, <1>2, NextListIsNextBucket DEF Candidate, Unfolded, ListSets
<1>4. Table!Candidate(p) = Unfolded(ListSets, p)
  BY SameOperators DEF Table!Candidate, Unfolded
<1>5. /\ GoodTable(Unfolded(ListSets, p))
      /\ Peers(Unfolded(ListSets, p)) = Peers(ListSets)
  BY UnfoldedTable DEF ListIInv
<1>. HIDE DEF ls
<1>6. FitsIn(ls, p) <=> HasRoom(SetsOf(ls), p)
  BY <1>3, SameRoom
<1>. QED BY <1>3, <1>4, <1>5, <1>6 DEF ls

\* The peer is not in the table, and its record is a new one.
LEMMA NotInTable ==
  ASSUME ListIInv, NEW p \in Peer
  PROVE  /\ GetPeer(lists, p) <=> p \in Peers(ListSets)
         /\ Table!InTable(p) <=> p \in Peers(ListSets)
         /\ DOMAIN info = Peers(ListSets)
         /\ Table!TablePeers = Peers(ListSets)
<1>1. lists \in Tables /\ GoodTable(ListSets) /\ DOMAIN info = Peers(ListSets)
  BY DEF ListIInv
<1>2. p \in BucketForPeer(ListSets, p) <=> p \in Peers(ListSets)
  BY <1>1, LookupFindsPeer DEF GoodTable
<1>3. GetPeer(lists, p) <=> p \in BucketForPeer(ListSets, p)
  BY <1>1, SameBuckets DEF ListSets
<1>. QED BY <1>1, <1>2, <1>3, SameOperators DEF Table!InTable, Table!TablePeers

LEMMA NewPeerInfoType ==
  ASSUME ListIInv, NEW queryPeer \in BOOLEAN, NEW isReplaceable \in BOOLEAN
  PROVE  LET pi == Table!NewPeerInfo(queryPeer, isReplaceable)
         IN  pi \in Table!PeerInfo /\ pi.addedAt = now
BY DEF ListIInv, Table!NewPeerInfo, Table!PeerInfo, Table!Times, Table!TimesOrNever

\* pushFront, with the record of the new peer among the others.
LEMMA PushedList ==
  ASSUME ListIInv, NEW p \in Peer, p \notin Peers(ListSets),
         NEW pi \in Table!PeerInfo, pi.addedAt = now,
         NEW inf, inf = [q \in DOMAIN info \cup {p} |-> IF q = p THEN pi ELSE info[q]]
  PROVE  LET ls == Candidate(p)  new == PushFront(ls, p)
         IN  /\ new \in Tables
             /\ SetsOf(new) = Push(Table!Candidate(p), p)
             /\ AllOrdered(new, Distinct) /\ AllOrdered(new, Ages(inf))
             /\ inf \in [Peers(ListSets) \cup {p} -> Table!PeerInfo]
             /\ \A q \in DOMAIN inf : inf[q].addedAt <= now
<1>. DEFINE ls == Candidate(p)
            new == PushFront(ls, p)
<1>1. /\ ls \in Tables /\ AllOrdered(ls, Distinct) /\ AllOrdered(ls, Ages(info))
      /\ SetsOf(ls) = Table!Candidate(p)
      /\ GoodTable(SetsOf(ls)) /\ Peers(SetsOf(ls)) = Peers(ListSets)
  BY CandidateList
<1>2. /\ info \in [Peers(ListSets) -> Table!PeerInfo] /\ now \in Nat
      /\ \A q \in DOMAIN info : info[q].addedAt <= now
  BY DEF ListIInv, Table!Times
<1>. HIDE DEF ls, new
<1>3. /\ new \in Tables /\ SetsOf(new) = Push(SetsOf(ls), p)
      /\ \A R : AllOrdered(ls, R)
                /\ (\A q \in Range(BucketForPeer(ls, p)) : <<p, q>> \in R)
                   => AllOrdered(new, R)
  BY <1>1, PushFrontIsPush DEF new
<1>4. \A q \in Range(BucketForPeer(ls, p)) : q \in Peers(ListSets) /\ q # p /\ q \in Peer
  <2>1. BucketForPeer(SetsOf(ls), p) = Range(BucketForPeer(ls, p))
    BY <1>1, SameBuckets
  <2>2. BucketForPeer(SetsOf(ls), p) \subseteq Peers(SetsOf(ls))
    BY <1>1, GroupInBucket DEF GoodTable
  <2>. QED BY <1>1, <2>1, <2>2, SetsOfPeers
<1>5. /\ inf \in [Peers(ListSets) \cup {p} -> Table!PeerInfo]
      /\ \A q \in Peers(ListSets) : inf[q] = info[q]
      /\ inf[p] = pi
  BY <1>2
<1>6. AllOrdered(new, Distinct)
  BY <1>1, <1>3, <1>4 DEF Distinct
<1>7. AllOrdered(new, Ages(inf))
  <2>1. AllOrdered(ls, Ages(inf))
    <3>1. \A q, r \in Peers(SetsOf(ls)) : <<q, r>> \in Ages(info) => <<q, r>> \in Ages(inf)
      BY <1>1, <1>5 DEF Ages
    <3>. HIDE DEF ls
    <3>. QED BY <1>1, <3>1, AllOrderedBy
  <2>2. \A q \in Range(BucketForPeer(ls, p)) : <<p, q>> \in Ages(inf)
    BY <1>2, <1>4, <1>5 DEF Ages
  <2>. QED BY <1>3, <2>1, <2>2
<1>8. \A q \in DOMAIN inf : inf[q].addedAt <= now
  BY <1>2, <1>5
<1>. QED BY <1>1, <1>3, <1>5, <1>6, <1>7, <1>8 DEF ls, new

LEMMA AddNewList ==
  ASSUME ListIInv, NEW p \in Peer, NEW queryPeer \in BOOLEAN,
         NEW isReplaceable \in BOOLEAN, AddNew(p, queryPeer, isReplaceable)
  PROVE  ListIInv' /\ Table!AddNew(p, queryPeer, isReplaceable)
<1>. DEFINE pi == Table!NewPeerInfo(queryPeer, isReplaceable)
            bs == Table!Candidate(p)
<1>1. /\ p \notin Peers(ListSets) /\ ~Table!InTable(p)
      /\ lists' = PushFront(Candidate(p), p)
      /\ info' = [q \in DOMAIN info \cup {p} |-> IF q = p THEN pi ELSE info[q]]
      /\ notified' = notified \cup {p} /\ reply' = "added" /\ now' = now
  BY NotInTable DEF AddNew, InfoAfter
<1>2. pi \in Table!PeerInfo /\ pi.addedAt = now
  BY NewPeerInfoType
<1>3. GoodTable(bs) /\ Peers(bs) = Peers(ListSets) /\ HasRoom(bs, p)
  BY CandidateList DEF AddNew
<1>4. Table!AddNew(p, queryPeer, isReplaceable) <=> ListSets' = Push(bs, p)
  BY <1>1, <1>3, SameOperators DEF Table!AddNew
<1>. HIDE DEF pi, bs
<1>5. /\ lists' \in Tables /\ ListSets' = Push(bs, p)
      /\ AllOrdered(lists', Distinct) /\ AllOrdered(lists', Ages(info'))
      /\ info' \in [Peers(ListSets) \cup {p} -> Table!PeerInfo]
      /\ \A q \in DOMAIN info' : info'[q].addedAt <= now
  BY <1>1, <1>2, PushedList DEF bs, ListSets
<1>6. GoodTable(ListSets') /\ Peers(ListSets') = Peers(ListSets) \cup {p}
  BY <1>3, <1>5, PushedTable
<1>7. ListIInv'
  BY <1>1, <1>5, <1>6 DEF ListIInv, Table!Times, Table!TimesOrNever, Table!PeerInfo
<1>. QED BY <1>4, <1>5, <1>7

\* What the scan for a replaceable peer finds in the bucket of a peer for
\* whom there is no room.
LEMMA VictimList ==
  ASSUME ListIInv, NEW p \in Peer, ~FitsIn(Candidate(p), p)
  PROVE  LET b == BucketForPeer(Candidate(p), p)
         IN  /\ b \in Seq(Peer) /\ Len(b) > 0
             /\ Range(b) = Table!BucketForPeer(Table!Candidate(p), p)
             /\ ReplaceablePeer(b) \in Range(b)
             /\ IsReplaceable(ReplaceablePeer(b)) <=> Table!Victims(p) # {}
             /\ Range(b) \subseteq Peers(ListSets)
<1>. DEFINE ls == Candidate(p)
            b == BucketForPeer(ls, p)
<1>1. ls \in Tables /\ SetsOf(ls) = Table!Candidate(p)
      /\ GoodTable(SetsOf(ls)) /\ Peers(SetsOf(ls)) = Peers(ListSets)
  BY CandidateList
<1>. HIDE DEF ls
<1>2. b \in Seq(Peer) /\ Range(b) = BucketForPeer(SetsOf(ls), p)
  BY <1>1, SameBuckets
<1>3. Range(b) \subseteq Peers(ListSets)
  BY <1>1, <1>2, GroupInBucket DEF GoodTable
<1>4. Len(b) \in Nat /\ Len(b) >= BucketSize
  BY <1>2, BucketSizeAssumption DEF FitsIn, ls
<1>. HIDE DEF b
<1>5. Len(b) > 0
  BY <1>4, BucketSizeAssumption
<1>6. PICK j \in 1..Len(b) :
         /\ ReplaceablePeer(b) = b[j]
         /\ \A k \in 1..Len(b) : IsReplaceable(b[k]) => IsReplaceable(b[j]) /\ k <= j
  BY <1>2, <1>5, ScanFindsLast
<1>7. Range(b) = {b[k] : k \in 1..Len(b)}
  BY <1>2 DEF Range
<1>8. Table!Victims(p) = {v \in Range(b) : IsReplaceable(v)}
  BY <1>1, <1>2, SameOperators DEF Table!Victims, IsReplaceable
<1>. QED BY <1>1, <1>2, <1>3, <1>5, <1>6, <1>7, <1>8, SameOperators DEF b, ls

LEMMA AddReplacingList ==
  ASSUME ListIInv, NEW p \in Peer, NEW queryPeer \in BOOLEAN,
         NEW isReplaceable \in BOOLEAN, AddReplacing(p, queryPeer, isReplaceable)
  PROVE  LET v == ReplaceablePeer(BucketForPeer(Candidate(p), p))
         IN  /\ ListIInv'
             /\ Table!AddReplacing(p, v, queryPeer, isReplaceable)
             /\ v \in Table!TablePeers
<1>. DEFINE pi == Table!NewPeerInfo(queryPeer, isReplaceable)
            bs == Table!Candidate(p)
            b == BucketForPeer(Candidate(p), p)
            v == ReplaceablePeer(b)
            inf == [q \in DOMAIN info \cup {p} |-> IF q = p THEN pi ELSE info[q]]
            mid == PushFront(Candidate(p), p)
<1>1. /\ p \notin Peers(ListSets) /\ ~Table!InTable(p)
      /\ lists' = Unlink(mid, v)
      /\ info' = [q \in (DOMAIN info \cup {p}) \ {v} |-> IF q = p THEN pi ELSE info[q]]
      /\ notified' = (notified \cup {p}) \ {v} /\ reply' = "added" /\ now' = now
      /\ IsReplaceable(v) /\ ~FitsIn(Candidate(p), p)
  BY NotInTable DEF AddReplacing, InfoAfter, IsReplaceable
<1>2. pi \in Table!PeerInfo /\ pi.addedAt = now
  BY NewPeerInfoType
<1>3. GoodTable(bs) /\ Peers(bs) = Peers(ListSets) /\ ~HasRoom(bs, p)
  BY <1>1, CandidateList
<1>4. v \in BucketForPeer(bs, p) /\ v \in Table!Victims(p) /\ v \in Table!TablePeers
  BY <1>1, VictimList, NotInTable, SameOperators DEF Table!Victims, IsReplaceable
<1>5. Table!AddReplacing(p, v, queryPeer, isReplaceable)
         <=> ListSets' = RemoveFrom(Push(bs, p), v)
  BY <1>1, <1>3, <1>4, SameOperators DEF Table!AddReplacing
<1>. HIDE DEF pi, bs, b, v, mid
<1>6. /\ mid \in Tables /\ SetsOf(mid) = Push(bs, p)
      /\ AllOrdered(mid, Distinct) /\ AllOrdered(mid, Ages(inf))
      /\ inf \in [Peers(ListSets) \cup {p} -> Table!PeerInfo]
      /\ \A q \in DOMAIN inf : inf[q].addedAt <= now
  <2>. HIDE DEF inf
  <2>. QED BY <1>1, <1>2, PushedList DEF bs, mid, inf
<1>7. /\ GoodTable(RemoveFrom(Push(bs, p), v))
      /\ Peers(RemoveFrom(Push(bs, p), v)) = (Peers(bs) \cup {p}) \ {v}
      /\ v \in Peers(bs) /\ v # p
  BY <1>1, <1>3, <1>4, ReplacedTable
<1>8. v \in Peer
  BY <1>3, <1>7 DEF GoodTable, IsTable, Peers, Buckets
<1>9. /\ lists' \in Tables /\ SetsOf(lists') = RemoveFrom(Push(bs, p), v)
      /\ AllOrdered(lists', Distinct) /\ AllOrdered(lists', Ages(inf))
  BY <1>1, <1>6, <1>8, UnlinkIsRemove
<1>10. ListSets' = SetsOf(lists')
  BY DEF ListSets
<1>11. /\ info' \in [(Peers(ListSets) \cup {p}) \ {v} -> Table!PeerInfo]
       /\ \A q \in (Peers(ListSets) \cup {p}) \ {v} : info'[q] = inf[q]
  BY <1>1, <1>6
<1>12. AllOrdered(lists', Ages(info'))
  <2>1. \A q, r \in Peers(SetsOf(lists')) : <<q, r>> \in Ages(inf) => <<q, r>> \in Ages(info')
    BY <1>3, <1>7, <1>9, <1>11 DEF Ages
  <2>. HIDE DEF inf
  <2>. QED BY <1>9, <2>1, AllOrderedBy
<1>13. \A q \in DOMAIN info' : info'[q].addedAt <= now
  BY <1>6, <1>11
<1>14. ListIInv'
  BY <1>1, <1>3, <1>7, <1>9, <1>10, <1>11, <1>12, <1>13
     DEF ListIInv, Table!Times, Table!TimesOrNever, Table!PeerInfo
<1>. QED BY <1>4, <1>5, <1>9, <1>10, <1>14 DEF v, b

LEMMA RejectNoCapacityList ==
  ASSUME ListIInv, NEW p \in Peer, RejectNoCapacity(p)
  PROVE  ListIInv' /\ Table!RejectNoCapacity(p)
<1>. DEFINE ls == Candidate(p)
<1>1. /\ p \notin Peers(ListSets) /\ ~Table!InTable(p) /\ ~FitsIn(ls, p)
      /\ lists' = ls /\ reply' = "capacity"
      /\ info' = info /\ notified' = notified /\ now' = now
  BY NotInTable DEF RejectNoCapacity
<1>2. Table!Victims(p) = {}
  BY <1>1, VictimList DEF RejectNoCapacity, IsReplaceable
<1>3. /\ ls \in Tables /\ AllOrdered(ls, Distinct) /\ AllOrdered(ls, Ages(info))
      /\ SetsOf(ls) = Table!Candidate(p)
      /\ GoodTable(SetsOf(ls)) /\ Peers(SetsOf(ls)) = Peers(ListSets)
      /\ ~HasRoom(SetsOf(ls), p)
  BY <1>1, CandidateList
<1>4. ListSets' = SetsOf(ls)
  BY <1>1 DEF ListSets
<1>. HIDE DEF ls
<1>5. Table!RejectNoCapacity(p)
  BY <1>1, <1>2, <1>3, <1>4, SameOperators DEF Table!RejectNoCapacity
<1>6. ListIInv'
  BY <1>1, <1>3, <1>4 DEF ListIInv, Table!Times, Table!TimesOrNever, Table!PeerInfo
<1>. QED BY <1>5, <1>6

LEMMA RemovePeerList ==
  ASSUME ListIInv, NEW p \in Peer, RemovePeer(p)
  PROVE  ListIInv' /\ Table!RemovePeer(p)
<1>1. /\ p \in Peers(ListSets) /\ Table!InTable(p)
      /\ lists' = Unlink(lists, p)
      /\ info' = [q \in DOMAIN info \ {p} |-> info[q]]
      /\ notified' = notified \ {p} /\ reply' = reply /\ now' = now
  BY NotInTable DEF RemovePeer
<1>2. /\ lists \in Tables /\ GoodTable(ListSets)
      /\ AllOrdered(lists, Distinct) /\ AllOrdered(lists, Ages(info))
      /\ info \in [Peers(ListSets) -> Table!PeerInfo]
      /\ \A q \in DOMAIN info : info[q].addedAt <= now
  BY DEF ListIInv
<1>3. p \in BucketForPeer(ListSets, p)
  BY <1>1, <1>2, LookupFindsPeer DEF GoodTable
<1>4. /\ GoodTable(RemoveFrom(ListSets, p))
      /\ Peers(RemoveFrom(ListSets, p)) = Peers(ListSets) \ {p}
  BY <1>2, <1>3, RemovedTable
<1>5. /\ lists' \in Tables /\ SetsOf(lists') = RemoveFrom(ListSets, p)
      /\ AllOrdered(lists', Distinct) /\ AllOrdered(lists', Ages(info))
  BY <1>1, <1>2, UnlinkIsRemove DEF ListSets
<1>6. ListSets' = SetsOf(lists')
  BY DEF ListSets
<1>7. /\ info' \in [Peers(ListSets) \ {p} -> Table!PeerInfo]
      /\ \A q \in Peers(ListSets) \ {p} : info'[q] = info[q]
  BY <1>1, <1>2
<1>8. AllOrdered(lists', Ages(info'))
  <2>1. \A q, r \in Peers(SetsOf(lists')) : <<q, r>> \in Ages(info) => <<q, r>> \in Ages(info')
    BY <1>4, <1>5, <1>7 DEF Ages
  <2>. QED BY <1>5, <2>1, AllOrderedBy
<1>9. \A q \in DOMAIN info' : info'[q].addedAt <= now
  BY <1>2, <1>7
<1>10. ListIInv'
  BY <1>1, <1>2, <1>4, <1>5, <1>6, <1>7, <1>8, <1>9
     DEF ListIInv, Table!Times, Table!TimesOrNever, Table!PeerInfo
<1>11. Table!RemovePeer(p)
  BY <1>1, <1>5, <1>6, SameOperators DEF Table!RemovePeer
<1>. QED BY <1>10, <1>11

\* A step that leaves the lists alone must only keep the times of adding.
LEMMA ListIInvFromInfo ==
  ASSUME ListIInv, lists' = lists, info' \in [Peers(ListSets) -> Table!PeerInfo],
         \A q \in Peers(ListSets) : info'[q].addedAt = info[q].addedAt,
         now' \in Table!Times, now' >= now
  PROVE  ListIInv'
<1>1. /\ lists \in Tables /\ GoodTable(ListSets)
      /\ AllOrdered(lists, Distinct) /\ AllOrdered(lists, Ages(info))
      /\ info \in [Peers(ListSets) -> Table!PeerInfo] /\ now \in Nat /\ now' \in Nat
      /\ \A q \in DOMAIN info : info[q].addedAt <= now
  BY DEF ListIInv, Table!Times
<1>2. ListSets' = ListSets /\ ListSets = SetsOf(lists)
  BY DEF ListSets
<1>3. AllOrdered(lists, Ages(info'))
  <2>1. \A q, r \in Peers(SetsOf(lists)) : <<q, r>> \in Ages(info) => <<q, r>> \in Ages(info')
    BY <1>2 DEF Ages
  <2>. QED BY <1>1, <2>1, AllOrderedBy
<1>4. \A q \in DOMAIN info' : info'[q].addedAt <= now'
  <2>1. \A q \in Peers(ListSets) : info[q].addedAt \in Nat
    BY <1>1 DEF Table!PeerInfo, Table!Times, Table!TimesOrNever
  <2>. QED BY <1>1, <2>1
<1>. QED BY <1>1, <1>2, <1>3, <1>4 DEF ListIInv, Table!Times, Table!TimesOrNever, Table!PeerInfo

LEMMA KeepsListsKeepsListIInv ==
  ASSUME ListIInv, KeepsLists
  PROVE  ListIInv'
<1>1. /\ info \in [Peers(ListSets) -> Table!PeerInfo]
      /\ now \in Table!Times /\ now \in Nat /\ lists' = lists
      /\ \A q \in Peers(ListSets) : info[q] \in Table!PeerInfo
  BY DEF ListIInv, Table!Times, KeepsLists
<1>2. ASSUME NEW p \in Peer, NEW queryPeer \in QueryPeerArg,
             Table!AddExisting(p, queryPeer, FALSE)
      PROVE  ListIInv'
  <2>1. p \in Peers(ListSets)
    BY <1>2, NotInTable DEF Table!AddExisting
  <2>2. [info[p] EXCEPT !.lastUsefulAt = now] \in Table!PeerInfo
    BY <1>1, <2>1 DEF Table!PeerInfo, Table!TimesOrNever
  <2>3. info' \in [Peers(ListSets) -> Table!PeerInfo]
    BY <1>1, <1>2, <2>1, <2>2 DEF Table!AddExisting
  <2>4. ASSUME NEW q \in Peers(ListSets) PROVE info'[q].addedAt = info[q].addedAt
    <3>1. info'[q] = info[q] \/ info'[q] = [info[q] EXCEPT !.lastUsefulAt = now]
      BY <1>1, <1>2 DEF Table!AddExisting
    <3>. QED BY <1>1, <3>1 DEF Table!PeerInfo
  <2>5. now' = now
    BY <1>2 DEF Table!AddExisting
  <2>. QED BY <1>1, <2>3, <2>4, <2>5, ListIInvFromInfo
<1>3. ASSUME NEW p \in Peer, NEW err, Table!TurnAway(p, err) PROVE ListIInv'
  <2>1. info' = info /\ now' = now
    BY <1>3 DEF Table!TurnAway
  <2>. QED BY <1>1, <2>1, ListIInvFromInfo
<1>4. ASSUME NEW p \in Peer, NEW t \in Table!TimesOrNever, Table!UpdateLastUsefulAt(p, t)
      PROVE  ListIInv'
  <2>1. p \in Peers(ListSets)
    BY <1>4, NotInTable DEF Table!UpdateLastUsefulAt
  <2>2. [info[p] EXCEPT !.lastUsefulAt = t] \in Table!PeerInfo
    BY <1>1, <2>1 DEF Table!PeerInfo
  <2>3. info' \in [Peers(ListSets) -> Table!PeerInfo]
    BY <1>1, <1>4, <2>1, <2>2 DEF Table!UpdateLastUsefulAt
  <2>4. ASSUME NEW q \in Peers(ListSets) PROVE info'[q].addedAt = info[q].addedAt
    <3>1. info'[q] = info[q] \/ info'[q] = [info[q] EXCEPT !.lastUsefulAt = t]
      BY <1>1, <1>4 DEF Table!UpdateLastUsefulAt
    <3>. QED BY <1>1, <3>1 DEF Table!PeerInfo
  <2>5. now' = now
    BY <1>4 DEF Table!UpdateLastUsefulAt
  <2>. QED BY <1>1, <2>3, <2>4, <2>5, ListIInvFromInfo
<1>5. ASSUME NEW p \in Peer, NEW t \in Table!TimesOrNever,
             Table!UpdateLastSuccessfulOutboundQueryAt(p, t)
      PROVE  ListIInv'
  <2>1. p \in Peers(ListSets)
    BY <1>5, NotInTable DEF Table!UpdateLastSuccessfulOutboundQueryAt
  <2>2. [info[p] EXCEPT !.lastSuccessfulOutboundQueryAt = t] \in Table!PeerInfo
    BY <1>1, <2>1 DEF Table!PeerInfo
  <2>3. info' \in [Peers(ListSets) -> Table!PeerInfo]
    BY <1>1, <1>5, <2>1, <2>2 DEF Table!UpdateLastSuccessfulOutboundQueryAt
  <2>4. ASSUME NEW q \in Peers(ListSets) PROVE info'[q].addedAt = info[q].addedAt
    <3>1. \/ info'[q] = info[q]
          \/ info'[q] = [info[q] EXCEPT !.lastSuccessfulOutboundQueryAt = t]
      BY <1>1, <1>5 DEF Table!UpdateLastSuccessfulOutboundQueryAt
    <3>. QED BY <1>1, <3>1 DEF Table!PeerInfo
  <2>5. now' = now
    BY <1>5 DEF Table!UpdateLastSuccessfulOutboundQueryAt
  <2>. QED BY <1>1, <2>3, <2>4, <2>5, ListIInvFromInfo
<1>6. CASE Table!MarkAllPeersIrreplaceable
  <2>1. \A q \in Peers(ListSets) : [info[q] EXCEPT !.replaceable = FALSE] \in Table!PeerInfo
    BY <1>1 DEF Table!PeerInfo
  <2>2. info' \in [Peers(ListSets) -> Table!PeerInfo]
    BY <1>1, <1>6, <2>1 DEF Table!MarkAllPeersIrreplaceable
  <2>3. ASSUME NEW q \in Peers(ListSets) PROVE info'[q].addedAt = info[q].addedAt
    <3>1. info'[q] = [info[q] EXCEPT !.replaceable = FALSE]
      BY <1>1, <1>6 DEF Table!MarkAllPeersIrreplaceable
    <3>. QED BY <1>1, <3>1 DEF Table!PeerInfo
  <2>4. now' = now
    BY <1>6 DEF Table!MarkAllPeersIrreplaceable
  <2>. QED BY <1>1, <2>2, <2>3, <2>4, ListIInvFromInfo
<1>7. CASE Table!Tick
  <2>1. info' = info /\ now' = now + 1 /\ now' \in Table!Times
    BY <1>1, <1>7, ListTableAssumption DEF Table!Tick, Table!Times
  <2>. QED BY <1>1, <2>1, ListIInvFromInfo
<1>. QED BY <1>2, <1>3, <1>4, <1>5, <1>6, <1>7 DEF KeepsLists

LEMMA ListIInvInit == Init => ListIInv
<1>. SUFFICES ASSUME Init PROVE ListIInv
  OBVIOUS
<1>1. /\ lists = << <<>> >> /\ info = [p \in {} |-> {}] /\ now = 1
  BY DEF Init
<1>2. lists \in Tables /\ Len(lists) = 1 /\ lists[1] = <<>>
  BY <1>1 DEF Tables
<1>3. Range(lists[1]) = {}
  <2>1. lists[1] \in Seq(Peer)
    BY <1>2
  <2>. QED BY <1>2, <2>1, RangeEmpty
<1>4. /\ IsTable(ListSets) /\ Len(ListSets) = 1 /\ ListSets[1] = {}
  BY <1>2, <1>3, SetsOfTable DEF ListSets
<1>5. Peers(ListSets) = {}
  BY <1>4 DEF Peers, Buckets
<1>6. GoodTable(ListSets)
  BY <1>4, FS_EmptySet, BucketSizeAssumption, CplAssumption
     DEF GoodTable, WellPlaced, WithinCapacity
<1>7. \A R : AllOrdered(lists, R)
  BY <1>2 DEF AllOrdered, Ordered
<1>. QED BY <1>1, <1>2, <1>5, <1>6, <1>7, ListTableAssumption DEF ListIInv, Table!Times

\* Every step keeps the invariant, and is a step of RoutingTable.
LEMMA ListIInvStep ==
  ListIInv /\ [Next]_vars => ListIInv' /\ [Table!Next]_(Table!vars)
<1>. SUFFICES ASSUME ListIInv, [Next]_vars PROVE ListIInv' /\ [Table!Next]_(Table!vars)
  OBVIOUS
<1>1. ASSUME NEW p \in Peer, NEW queryPeer \in QueryPeerArg, NEW isReplaceable \in BOOLEAN,
             AddNew(p, queryPeer, isReplaceable) \/ AddReplacing(p, queryPeer, isReplaceable)
      PROVE  ListIInv' /\ Table!TryAddPeer(p, queryPeer, isReplaceable)
  <2>1. queryPeer \in BOOLEAN
    BY ListTableAssumption
  <2>2. CASE AddNew(p, queryPeer, isReplaceable)
    BY <2>1, <2>2, AddNewList DEF Table!TryAddPeer
  <2>3. CASE AddReplacing(p, queryPeer, isReplaceable)
    BY <2>1, <2>3, AddReplacingList DEF Table!TryAddPeer
  <2>. QED BY <1>1, <2>2, <2>3
<1>2. ASSUME NEW p \in Peer, RejectNoCapacity(p)
      PROVE  ListIInv' /\ \A q, r : Table!TryAddPeer(p, q, r)
  BY <1>2, RejectNoCapacityList DEF Table!TryAddPeer
<1>3. ASSUME NEW p \in Peer, RemovePeer(p)
      PROVE  ListIInv' /\ Table!RemovePeer(p)
  BY <1>3, RemovePeerList
<1>4. CASE KeepsLists
  <2>1. ListIInv'
    BY <1>4, KeepsListsKeepsListIInv
  <2>2. ASSUME NEW p \in Peer, NEW queryPeer \in QueryPeerArg,
               Table!AddExisting(p, queryPeer, FALSE)
        PROVE  Table!TryAddPeer(p, queryPeer, FALSE)
    BY <2>2 DEF Table!TryAddPeer
  <2>3. ASSUME NEW p \in Peer, NEW err \in {"latency", "diversity"}, Table!TurnAway(p, err)
        PROVE  \A q, r : Table!TryAddPeer(p, q, r)
    BY <2>3 DEF Table!TryAddPeer
  <2>4. \E queryPeer \in QueryPeerArg, isReplaceable \in BOOLEAN : TRUE
    BY ListTableAssumption
  <2>5. Table!Next
    <3>1. CASE \E p \in Peer, queryPeer \in QueryPeerArg : Table!AddExisting(p, queryPeer, FALSE)
      BY <2>2, <3>1 DEF Table!Next
    <3>2. CASE \E p \in Peer, err \in {"latency", "diversity"} : Table!TurnAway(p, err)
      BY <2>3, <2>4, <3>2 DEF Table!Next
    <3>3. CASE \E p \in Peer, t \in Table!TimesOrNever :
                 \/ Table!UpdateLastUsefulAt(p, t)
                 \/ Table!UpdateLastSuccessfulOutboundQueryAt(p, t)
      BY <3>3 DEF Table!Next
    <3>4. CASE Table!MarkAllPeersIrreplaceable \/ Table!Tick
      BY <3>4 DEF Table!Next
    <3>. QED BY <1>4, <3>1, <3>2, <3>3, <3>4 DEF KeepsLists
  <2>. QED BY <2>1, <2>5
<1>5. CASE UNCHANGED vars
  BY <1>5 DEF vars, Table!vars, ListIInv, ListSets, Table!Times, Table!TimesOrNever, Table!PeerInfo
<1>6. \E queryPeer \in QueryPeerArg, isReplaceable \in BOOLEAN : TRUE
  BY ListTableAssumption
<1>. QED BY <1>1, <1>2, <1>3, <1>4, <1>5, <1>6 DEF Next, Table!Next

-----------------------------------------------------------------------------
(* The methods that walk the lists.                                        *)

LEMMA SizeByRecursion ==
  ASSUME lists \in Tables
  PROVE  \E f \in [0..Len(lists) -> Nat] :
            /\ f[0] = 0
            /\ \A i \in 1..Len(lists) : f[i] = f[i - 1] + Len(lists[i])
            /\ Size = f[Len(lists)]
<1>. DEFINE n == Len(lists)
            T == Nat
            Body(f) == [i \in 0..n |-> IF i = 0 THEN 0 ELSE f[i - 1] + Len(lists[i])]
            comb == [x \in (1..n) \X T |-> x[2] + Len(lists[x[1]])]
            f == CHOOSE f : f = Body(f)
<1>1. n \in Nat /\ \A i \in 1..n : Len(lists[i]) \in Nat
  BY TablesType
<1>2. comb \in [(1..n) \X T -> T] /\ 0 \in T
  <2>1. \A x \in (1..n) \X T : x[1] \in 1..n /\ x[2] \in T
    OBVIOUS
  <2>. QED BY <1>1, <2>1
<1>3. \E g : g = Body(g)
  <2>1. PICK g \in [0..n -> T] :
              g[0] = 0 /\ \A i \in 1..n : g[i] = comb[<<i, g[i - 1]>>]
    <3>. HIDE DEF comb, n, T
    <3>1. Steps(n, T, 0, comb)
      BY <1>1, <1>2 DEF Steps
    <3>. QED BY <3>1, IndexRecursion
  <2>2. ASSUME NEW i \in 0..n PROVE g[i] = Body(g)[i]
    <3>1. CASE i = 0
      BY <2>1, <3>1
    <3>2. CASE i # 0
      <4>1. i \in 1..n /\ g[i - 1] \in T /\ <<i, g[i - 1]>> \in (1..n) \X T
        BY <3>2
      <4>2. g[i] = g[i - 1] + Len(lists[i])
        BY <2>1, <4>1
      <4>. QED BY <4>1, <4>2, <3>2
    <3>. QED BY <3>1, <3>2
  <2>3. g = Body(g)
    BY <2>2
  <2>. QED BY <2>3
<1>4. f = Body(f)
  <2>. HIDE DEF Body
  <2>. QED BY <1>3
<1>. HIDE DEF f
<1>5. /\ DOMAIN f = 0..n /\ f[0] = 0
      /\ \A i \in 1..n : f[i] = f[i - 1] + Len(lists[i])
      /\ f = [i \in 0..n |-> f[i]]
  <2>1. DOMAIN f = 0..n /\ \A i \in 0..n : f[i] = Body(f)[i]
    BY <1>4
  <2>2. ASSUME NEW i \in 1..n PROVE f[i] = f[i - 1] + Len(lists[i])
    <3>1. i \in 0..n /\ i # 0
      BY <1>1
    <3>. QED BY <2>1, <3>1
  <2>3. f[0] = 0
    BY <1>1, <2>1
  <2>4. f = [i \in 0..n |-> f[i]]
    <3>. HIDE DEF n
    <3>. QED BY <1>4
  <2>. QED BY <2>1, <2>2, <2>3, <2>4
<1>6. f \in [0..n -> T]
  <2>1. f[0] \in T
    BY <1>2, <1>5
  <2>2. ASSUME NEW i \in 1..n, f[i - 1] \in T PROVE f[i] \in T
    <3>1. f[i] = f[i - 1] + Len(lists[i])
      BY <1>5
    <3>. QED BY <1>1, <2>2, <3>1
  <2>. HIDE DEF T
  <2>. QED BY <1>1, <1>5, <2>1, <2>2, IndexType
<1>7. Size = f[n]
  BY DEF Size, f
<1>. QED BY <1>5, <1>6, <1>7

LEMMA ListPeersByRecursion ==
  ASSUME lists \in Tables
  PROVE  \E f \in [0..Len(lists) -> Seq(Peer)] :
            /\ f[0] = <<>>
            /\ \A i \in 1..Len(lists) : f[i] = f[i - 1] \o lists[i]
            /\ ListPeers = f[Len(lists)]
<1>. DEFINE n == Len(lists)
            T == Seq(Peer)
            Body(f) == [i \in 0..n |-> IF i = 0 THEN <<>> ELSE f[i - 1] \o lists[i]]
            comb == [x \in (1..n) \X T |-> x[2] \o lists[x[1]]]
            f == CHOOSE f : f = Body(f)
<1>1. n \in Nat /\ \A i \in 1..n : lists[i] \in Seq(Peer)
  BY TablesType
<1>2. comb \in [(1..n) \X T -> T] /\ <<>> \in T
  <2>1. \A x \in (1..n) \X T : x[1] \in 1..n /\ x[2] \in T
    OBVIOUS
  <2>. QED BY <1>1, <2>1
<1>3. \E g : g = Body(g)
  <2>1. PICK g \in [0..n -> T] :
              g[0] = <<>> /\ \A i \in 1..n : g[i] = comb[<<i, g[i - 1]>>]
    <3>. HIDE DEF comb, n, T
    <3>1. Steps(n, T, <<>>, comb)
      BY <1>1, <1>2 DEF Steps
    <3>. QED BY <3>1, IndexRecursion
  <2>2. ASSUME NEW i \in 0..n PROVE g[i] = Body(g)[i]
    <3>1. CASE i = 0
      BY <2>1, <3>1
    <3>2. CASE i # 0
      <4>1. i \in 1..n /\ g[i - 1] \in T /\ <<i, g[i - 1]>> \in (1..n) \X T
        BY <3>2
      <4>2. g[i] = g[i - 1] \o lists[i]
        BY <2>1, <4>1
      <4>. QED BY <4>1, <4>2, <3>2
    <3>. QED BY <3>1, <3>2
  <2>3. g = Body(g)
    BY <2>2
  <2>. QED BY <2>3
<1>4. f = Body(f)
  <2>. HIDE DEF Body
  <2>. QED BY <1>3
<1>. HIDE DEF f
<1>5. /\ DOMAIN f = 0..n /\ f[0] = <<>>
      /\ \A i \in 1..n : f[i] = f[i - 1] \o lists[i]
      /\ f = [i \in 0..n |-> f[i]]
  <2>1. DOMAIN f = 0..n /\ \A i \in 0..n : f[i] = Body(f)[i]
    BY <1>4
  <2>2. ASSUME NEW i \in 1..n PROVE f[i] = f[i - 1] \o lists[i]
    <3>1. i \in 0..n /\ i # 0
      BY <1>1
    <3>. QED BY <2>1, <3>1
  <2>3. f[0] = <<>>
    BY <1>1, <2>1
  <2>4. f = [i \in 0..n |-> f[i]]
    <3>. HIDE DEF n
    <3>. QED BY <1>4
  <2>. QED BY <2>1, <2>2, <2>3, <2>4
<1>6. f \in [0..n -> T]
  <2>1. f[0] \in T
    BY <1>2, <1>5
  <2>2. ASSUME NEW i \in 1..n, f[i - 1] \in T PROVE f[i] \in T
    <3>1. f[i] = f[i - 1] \o lists[i]
      BY <1>5
    <3>. QED BY <1>1, <2>2, <3>1
  <2>. HIDE DEF T
  <2>. QED BY <1>1, <1>5, <2>1, <2>2, IndexType
<1>7. ListPeers = f[n]
  BY DEF ListPeers, f
<1>. QED BY <1>5, <1>6, <1>7

LEMMA MaxByRecursion ==
  ASSUME NEW b \in Seq(Peer)
  PROVE  \E f \in [0..Len(b) -> Nat] :
            /\ f[0] = 0
            /\ \A i \in 1..Len(b) : f[i] = IF Cpl[b[i]] > f[i - 1] THEN Cpl[b[i]] ELSE f[i - 1]
            /\ BucketMaxCommonPrefix(b) = f[Len(b)]
<1>. DEFINE n == Len(b)
            T == Nat
            Body(f) == [i \in 0..n |-> IF i = 0 THEN 0 ELSE IF Cpl[b[i]] > f[i - 1] THEN Cpl[b[i]] ELSE f[i - 1]]
            comb == [x \in (1..n) \X T |-> IF Cpl[b[x[1]]] > x[2] THEN Cpl[b[x[1]]] ELSE x[2]]
            f == CHOOSE f : f = Body(f)
<1>1. n \in Nat /\ \A i \in 1..n : Cpl[b[i]] \in Nat
  BY CplType
<1>2. comb \in [(1..n) \X T -> T] /\ 0 \in T
  <2>1. \A x \in (1..n) \X T : x[1] \in 1..n /\ x[2] \in T
    OBVIOUS
  <2>. QED BY <1>1, <2>1
<1>3. \E g : g = Body(g)
  <2>1. PICK g \in [0..n -> T] :
              g[0] = 0 /\ \A i \in 1..n : g[i] = comb[<<i, g[i - 1]>>]
    <3>. HIDE DEF comb, n, T
    <3>1. Steps(n, T, 0, comb)
      BY <1>1, <1>2 DEF Steps
    <3>. QED BY <3>1, IndexRecursion
  <2>2. ASSUME NEW i \in 0..n PROVE g[i] = Body(g)[i]
    <3>1. CASE i = 0
      BY <2>1, <3>1
    <3>2. CASE i # 0
      <4>1. i \in 1..n /\ g[i - 1] \in T /\ <<i, g[i - 1]>> \in (1..n) \X T
        BY <3>2
      <4>2. g[i] = IF Cpl[b[i]] > g[i - 1] THEN Cpl[b[i]] ELSE g[i - 1]
        BY <2>1, <4>1
      <4>. QED BY <4>1, <4>2, <3>2
    <3>. QED BY <3>1, <3>2
  <2>3. g = Body(g)
    BY <2>2
  <2>. QED BY <2>3
<1>4. f = Body(f)
  <2>. HIDE DEF Body
  <2>. QED BY <1>3
<1>. HIDE DEF f
<1>5. /\ DOMAIN f = 0..n /\ f[0] = 0
      /\ \A i \in 1..n : f[i] = IF Cpl[b[i]] > f[i - 1] THEN Cpl[b[i]] ELSE f[i - 1]
      /\ f = [i \in 0..n |-> f[i]]
  <2>1. DOMAIN f = 0..n /\ \A i \in 0..n : f[i] = Body(f)[i]
    BY <1>4
  <2>2. ASSUME NEW i \in 1..n PROVE f[i] = IF Cpl[b[i]] > f[i - 1] THEN Cpl[b[i]] ELSE f[i - 1]
    <3>1. i \in 0..n /\ i # 0
      BY <1>1
    <3>. QED BY <2>1, <3>1
  <2>3. f[0] = 0
    BY <1>1, <2>1
  <2>4. f = [i \in 0..n |-> f[i]]
    <3>. HIDE DEF n
    <3>. QED BY <1>4
  <2>. QED BY <2>1, <2>2, <2>3, <2>4
<1>6. f \in [0..n -> T]
  <2>1. f[0] \in T
    BY <1>2, <1>5
  <2>2. ASSUME NEW i \in 1..n, f[i - 1] \in T PROVE f[i] \in T
    <3>1. f[i] = IF Cpl[b[i]] > f[i - 1] THEN Cpl[b[i]] ELSE f[i - 1]
      BY <1>5
    <3>. QED BY <1>1, <2>2, <3>1
  <2>. HIDE DEF T
  <2>. QED BY <1>1, <1>5, <2>1, <2>2, IndexType
<1>7. BucketMaxCommonPrefix(b) = f[n]
  BY DEF BucketMaxCommonPrefix, f
<1>. QED BY <1>5, <1>6, <1>7

\* The peers of the first i buckets.
Upto(i) == {p \in Peers(ListSets) : BucketIdForPeer(ListSets, p) <= i}

LEMMA UptoNext ==
  ASSUME ListIInv
  PROVE  /\ Len(lists) \in Nat /\ Upto(0) = {} /\ Upto(Len(lists)) = Peers(ListSets)
         /\ \A i \in 1..Len(lists) :
               /\ Upto(i) = Upto(i - 1) \cup Range(lists[i])
               /\ Upto(i - 1) \cap Range(lists[i]) = {}
               /\ IsFiniteSet(Range(lists[i]))
               /\ Cardinality(Range(lists[i])) = Len(lists[i])
               /\ lists[i] \in Seq(Peer)
<1>1. /\ lists \in Tables /\ AllOrdered(lists, Distinct)
      /\ IsTable(ListSets) /\ WellPlaced(ListSets)
  BY DEF ListIInv, GoodTable
<1>2. /\ Len(ListSets) = Len(lists) /\ Len(lists) \in Nat
      /\ \A i \in 1..Len(lists) : ListSets[i] = Range(lists[i]) /\ lists[i] \in Seq(Peer)
  BY <1>1, SetsOfTable, TablesType DEF ListSets
<1>3. \A p \in Peers(ListSets) :
         /\ BucketIdForPeer(ListSets, p) \in 1..Len(lists)
         /\ p \in Range(lists[BucketIdForPeer(ListSets, p)])
  <2>. SUFFICES ASSUME NEW p \in Peers(ListSets)
                PROVE  /\ BucketIdForPeer(ListSets, p) \in 1..Len(lists)
                       /\ p \in Range(lists[BucketIdForPeer(ListSets, p)])
    OBVIOUS
  <2>1. p \in Peer
    BY <1>1 DEF IsTable, Peers, Buckets
  <2>2. BucketIdForPeer(ListSets, p) \in 1..Len(lists)
    BY <1>1, <1>2, <2>1, BucketIdInTable
  <2>3. p \in BucketForPeer(ListSets, p)
    BY <1>1, <2>1, LookupFindsPeer
  <2>. QED BY <1>2, <2>2, <2>3 DEF BucketForPeer
<1>4. ASSUME NEW i \in 1..Len(lists), NEW p \in Range(lists[i])
      PROVE  p \in Peers(ListSets) /\ BucketIdForPeer(ListSets, p) = i
  <2>1. i \in 1..Len(ListSets) /\ p \in ListSets[i]
    BY <1>2
  <2>2. BucketIdForPeer(ListSets, p) = i
    BY <1>1, <2>1, PlacedById
  <2>. QED BY <2>1, <2>2 DEF Peers, Buckets
<1>5. Upto(0) = {} /\ Upto(Len(lists)) = Peers(ListSets)
  BY <1>2, <1>3 DEF Upto
<1>6. ASSUME NEW i \in 1..Len(lists)
      PROVE  /\ Upto(i) = Upto(i - 1) \cup Range(lists[i])
             /\ Upto(i - 1) \cap Range(lists[i]) = {}
  <2>1. \A p \in Peers(ListSets) :
           BucketIdForPeer(ListSets, p) <= i
              <=> \/ BucketIdForPeer(ListSets, p) <= i - 1
                  \/ p \in Range(lists[i])
    BY <1>2, <1>3, <1>4
  <2>2. \A p \in Range(lists[i]) :
           p \in Peers(ListSets) /\ ~(BucketIdForPeer(ListSets, p) <= i - 1)
    BY <1>2, <1>4
  <2>. QED BY <2>1, <2>2 DEF Upto
<1>7. ASSUME NEW i \in 1..Len(lists)
      PROVE  /\ IsFiniteSet(Range(lists[i])) /\ Cardinality(Range(lists[i])) = Len(lists[i])
  BY <1>1, <1>2, LenOfDistinct DEF AllOrdered
<1>. QED BY <1>2, <1>5, <1>6, <1>7

LEMMA SizeCounts ==
  ASSUME ListIInv
  PROVE  /\ IsFiniteSet(Peers(ListSets)) /\ Size = Cardinality(Peers(ListSets))
         /\ Len(ListPeers) = Size /\ Range(ListPeers) = Peers(ListSets)
<1>. DEFINE n == Len(lists)
<1>1. PICK tot \in [0..n -> Nat] :
         /\ tot[0] = 0
         /\ \A i \in 1..n : tot[i] = tot[i - 1] + Len(lists[i])
         /\ Size = tot[n]
  BY SizeByRecursion DEF ListIInv
<1>2. PICK peers \in [0..n -> Seq(Peer)] :
         /\ peers[0] = <<>>
         /\ \A i \in 1..n : peers[i] = peers[i - 1] \o lists[i]
         /\ ListPeers = peers[n]
  BY ListPeersByRecursion DEF ListIInv
<1>. HIDE DEF n
<1>3. /\ n \in Nat /\ Upto(0) = {} /\ Upto(n) = Peers(ListSets)
      /\ \A i \in 1..n :
            /\ Upto(i) = Upto(i - 1) \cup Range(lists[i])
            /\ Upto(i - 1) \cap Range(lists[i]) = {}
            /\ IsFiniteSet(Range(lists[i]))
            /\ Cardinality(Range(lists[i])) = Len(lists[i])
            /\ lists[i] \in Seq(Peer)
  BY UptoNext DEF n
<1>. DEFINE Right(i) == /\ IsFiniteSet(Upto(i)) /\ tot[i] = Cardinality(Upto(i))
                        /\ Len(peers[i]) = tot[i] /\ Range(peers[i]) = Upto(i)
            good == {i \in 0..n : Right(i)}
<1>4. Right(0)
  <2>1. IsFiniteSet({}) /\ Cardinality({}) = 0
    BY FS_EmptySet
  <2>2. Range(<<>>) = {}
    <3>1. <<>> \in Seq(Peer)
      OBVIOUS
    <3>. QED BY <3>1, RangeEmpty
  <2>. QED BY <1>1, <1>2, <1>3, <2>1, <2>2
<1>5. ASSUME NEW i \in 1..n, Right(i - 1) PROVE Right(i)
  <2>0. i - 1 \in 0..n
    BY <1>3
  <2>1. peers[i - 1] \in Seq(Peer) /\ tot[i - 1] \in Nat
    BY <2>0
  <2>. DEFINE up == Upto(i - 1)  more == Range(lists[i])
  <2>6. /\ Upto(i) = up \cup more /\ up \cap more = {} /\ IsFiniteSet(more)
        /\ Cardinality(more) = Len(lists[i]) /\ lists[i] \in Seq(Peer)
    BY <1>3
  <2>7. /\ IsFiniteSet(up) /\ tot[i - 1] = Cardinality(up)
        /\ Len(peers[i - 1]) = tot[i - 1] /\ Range(peers[i - 1]) = up
    BY <1>5
  <2>8. /\ tot[i] = tot[i - 1] + Len(lists[i])
        /\ peers[i] = peers[i - 1] \o lists[i]
    BY <1>1, <1>2
  <2>. HIDE DEF up, more
  <2>2. IsFiniteSet(Upto(i)) /\ Cardinality(Upto(i)) = Cardinality(Upto(i - 1)) + Len(lists[i])
    <3>1. /\ IsFiniteSet(up \cup more)
          /\ Cardinality(up \cup more)
                = Cardinality(up) + Cardinality(more) - Cardinality(up \cap more)
      BY <2>6, <2>7, FS_Union
    <3>2. Cardinality(up \cap more) = 0
      <4>1. up \cap more = {} /\ Cardinality({}) = 0
        BY <2>6, FS_EmptySet
      <4>. QED BY <4>1
    <3>3. Cardinality(up) \in Nat
      BY <2>1, <2>7
    <3>4. Upto(i) = up \cup more /\ Cardinality(more) = Len(lists[i])
      BY <2>6
    <3>5. Cardinality(up \cup more) = Cardinality(up) + Cardinality(more)
      <4>1. Cardinality(more) \in Nat
        BY <2>6, FS_CardinalityType
      <4>. QED BY <3>1, <3>2, <3>3, <4>1
    <3>. QED BY <3>1, <3>4, <3>5 DEF up
  <2>3. tot[i] = Cardinality(Upto(i))
    BY <2>2, <2>7, <2>8 DEF up
  <2>4. Len(peers[i]) = tot[i]
    <3>1. \A s, t \in Seq(Peer) : Len(s \o t) = Len(s) + Len(t)
      OBVIOUS
    <3>2. Len(peers[i]) = Len(peers[i - 1]) + Len(lists[i])
      BY <2>1, <2>6, <2>8, <3>1
    <3>. QED BY <2>7, <2>8, <3>2
  <2>5. Range(peers[i]) = Upto(i)
    <3>1. \A s, t \in Seq(Peer) : Range(s \o t) = Range(s) \cup Range(t)
      <4>. SUFFICES ASSUME NEW s \in Seq(Peer), NEW t \in Seq(Peer)
                    PROVE  Range(s \o t) = Range(s) \cup Range(t)
        OBVIOUS
      <4>1. /\ s \o t \in Seq(Peer) /\ Len(s \o t) = Len(s) + Len(t)
            /\ Len(s) \in Nat /\ Len(t) \in Nat
            /\ \A k \in 1..Len(s) : (s \o t)[k] = s[k]
            /\ \A k \in 1..Len(t) : (s \o t)[Len(s) + k] = t[k]
        OBVIOUS
      <4>2. \A u \in Seq(Peer) : Range(u) = {u[k] : k \in 1..Len(u)}
        BY DEF Range
      <4>3. ASSUME NEW x \in Range(s \o t) PROVE x \in Range(s) \cup Range(t)
        <5>1. PICK k \in 1..Len(s \o t) : x = (s \o t)[k]
          BY <4>1, <4>2
        <5>2. CASE k <= Len(s)
          BY <4>1, <4>2, <5>1, <5>2
        <5>3. CASE ~(k <= Len(s))
          <6>1. k - Len(s) \in 1..Len(t) /\ k = Len(s) + (k - Len(s))
            BY <4>1, <5>3
          <6>2. x = t[k - Len(s)]
            BY <4>1, <5>1, <6>1
          <6>. QED BY <4>2, <6>1, <6>2
        <5>. QED BY <5>2, <5>3
      <4>4. ASSUME NEW x \in Range(s) PROVE x \in Range(s \o t)
        <5>1. PICK k \in 1..Len(s) : x = s[k]
          BY <4>2
        <5>2. k \in 1..Len(s \o t) /\ x = (s \o t)[k]
          BY <4>1, <5>1
        <5>. QED BY <4>1, <4>2, <5>2
      <4>5. ASSUME NEW x \in Range(t) PROVE x \in Range(s \o t)
        <5>1. PICK k \in 1..Len(t) : x = t[k]
          BY <4>2
        <5>2. Len(s) + k \in 1..Len(s \o t) /\ x = (s \o t)[Len(s) + k]
          BY <4>1, <5>1
        <5>. QED BY <4>1, <4>2, <5>2
      <4>. QED BY <4>3, <4>4, <4>5
    <3>. QED BY <2>1, <2>6, <2>7, <2>8, <3>1 DEF more
  <2>. QED BY <2>2, <2>3, <2>4, <2>5
<1>6. good = 0..n
  <2>1. good \in SUBSET (0..n) /\ 0 \in good
    BY <1>3, <1>4
  <2>2. ASSUME NEW i \in 1..n, i - 1 \in good PROVE i \in good
    BY <1>3, <1>5, <2>2
  <2>. HIDE DEF good
  <2>. QED BY <1>3, <2>1, <2>2, IndexInduction
<1>7. Right(n)
  <2>1. n \in good
    <3>1. n \in 0..n
      BY <1>3
    <3>. HIDE DEF good
    <3>. QED BY <1>6, <3>1
  <2>. QED BY <2>1
<1>. QED BY <1>1, <1>2, <1>3, <1>7

\* The fold of a bucket finds its greatest prefix.
LEMMA MaxOfBucket ==
  ASSUME NEW b \in Seq(Peer), Len(b) > 0
  PROVE  /\ BucketMaxCommonPrefix(b) \in Nat
         /\ \A p \in Range(b) : Cpl[p] <= BucketMaxCommonPrefix(b)
         /\ BucketMaxCommonPrefix(b) > 0
               => \E p \in Range(b) : Cpl[p] = BucketMaxCommonPrefix(b)
<1>. DEFINE n == Len(b)
<1>1. PICK maxCpl \in [0..n -> Nat] :
         /\ maxCpl[0] = 0
         /\ \A i \in 1..n :
               maxCpl[i] = IF Cpl[b[i]] > maxCpl[i - 1] THEN Cpl[b[i]] ELSE maxCpl[i - 1]
         /\ BucketMaxCommonPrefix(b) = maxCpl[n]
  BY MaxByRecursion
<1>2. n \in Nat /\ \A k \in 1..n : Cpl[b[k]] \in Nat
  BY CplType
<1>3. Range(b) = {b[k] : k \in 1..n}
  BY DEF Range
<1>. HIDE DEF n
<1>. DEFINE Max(i) == /\ \A k \in 1..n : k <= i => Cpl[b[k]] <= maxCpl[i]
                      /\ maxCpl[i] > 0 => \E k \in 1..n : Cpl[b[k]] = maxCpl[i]
            good == {i \in 0..n : Max(i)}
<1>4. Max(0)
  BY <1>1, <1>2
<1>5. ASSUME NEW i \in 1..n, Max(i - 1) PROVE Max(i)
  <2>1. /\ i - 1 \in 0..n /\ maxCpl[i - 1] \in Nat /\ maxCpl[i] \in Nat
        /\ maxCpl[i] = IF Cpl[b[i]] > maxCpl[i - 1] THEN Cpl[b[i]] ELSE maxCpl[i - 1]
    BY <1>1, <1>2
  <2>2. ASSUME NEW k \in 1..n, k <= i PROVE Cpl[b[k]] <= maxCpl[i]
    <3>1. k = i \/ k <= i - 1
      BY <1>2, <2>2
    <3>2. CASE k = i
      BY <1>2, <2>1, <3>2
    <3>3. CASE k <= i - 1
      <4>1. Cpl[b[k]] <= maxCpl[i - 1]
        BY <1>5, <3>3
      <4>. QED BY <1>2, <2>1, <4>1
    <3>. QED BY <3>1, <3>2, <3>3
  <2>3. ASSUME maxCpl[i] > 0 PROVE \E k \in 1..n : Cpl[b[k]] = maxCpl[i]
    <3>1. CASE Cpl[b[i]] > maxCpl[i - 1]
      BY <2>1, <3>1
    <3>2. CASE ~(Cpl[b[i]] > maxCpl[i - 1])
      BY <1>5, <2>1, <2>3, <3>2
    <3>. QED BY <3>1, <3>2
  <2>. QED BY <2>2, <2>3
<1>6. good = 0..n
  <2>1. good \in SUBSET (0..n) /\ 0 \in good
    BY <1>2, <1>4
  <2>2. ASSUME NEW i \in 1..n, i - 1 \in good PROVE i \in good
    BY <1>2, <1>5, <2>2
  <2>. HIDE DEF good
  <2>. QED BY <1>2, <2>1, <2>2, IndexInduction
<1>7. Max(n)
  <2>1. n \in good
    <3>1. n \in 0..n
      BY <1>2
    <3>. HIDE DEF good
    <3>. QED BY <1>6, <3>1
  <2>. QED BY <2>1
<1>8. maxCpl[n] \in Nat
  <2>1. n \in 0..n
    BY <1>2
  <2>. QED BY <1>1, <2>1
<1>9. \A k \in 1..n : Cpl[b[k]] <= maxCpl[n]
  BY <1>2, <1>7
<1>10. maxCpl[n] > 0 => \E k \in 1..n : Cpl[b[k]] = maxCpl[n]
  BY <1>7
<1>. QED BY <1>1, <1>3, <1>8, <1>9, <1>10

LEMMA MaxOfTable ==
  ASSUME ListIInv
  PROVE  /\ \A p \in Peers(ListSets) : Cpl[p] <= MaxCommonPrefix
         /\ MaxCommonPrefix > 0 => \E p \in Peers(ListSets) : Cpl[p] = MaxCommonPrefix
<1>. DEFINE full == {i \in 1..Len(lists) : Len(lists[i]) > 0}
            g == Greatest(full)
<1>1. /\ lists \in Tables /\ Len(lists) \in Nat
      /\ IsTable(ListSets) /\ WellPlaced(ListSets) /\ Len(ListSets) = Len(lists)
      /\ \A i \in 1..Len(lists) : lists[i] \in Seq(Peer) /\ ListSets[i] = Range(lists[i])
  BY SetsOfTable, TablesType DEF ListIInv, GoodTable, ListSets
<1>2. ASSUME NEW p \in Peers(ListSets)
      PROVE  \E i \in full : p \in Range(lists[i]) /\ p \in Peer
  <2>1. PICK i \in 1..Len(lists) : p \in Range(lists[i])
    BY <1>1 DEF Peers, Buckets
  <2>2. Len(lists[i]) > 0 /\ p \in Peer
    BY <1>1, <2>1 DEF Range
  <2>. QED BY <2>1, <2>2
<1>3. CASE full = {}
  BY <1>2, <1>3 DEF MaxCommonPrefix
<1>4. CASE full # {}
  <2>1. g \in full /\ \A i \in full : g >= i
    <3>1. full \in SUBSET (1..Len(lists))
      OBVIOUS
    <3>2. IsFiniteSet(full)
      <4>1. IsFiniteSet(1..Len(lists))
        BY <1>1, FS_Interval
      <4>. HIDE DEF full
      <4>. QED BY <3>1, <4>1, FS_Subset
    <3>. HIDE DEF full
    <3>. QED BY <1>1, <1>4, <3>1, <3>2, GreatestInSet DEF g
  <2>2. MaxCommonPrefix = BucketMaxCommonPrefix(lists[g])
    BY <1>4 DEF MaxCommonPrefix
  <2>. HIDE DEF g
  <2>3. /\ g \in 1..Len(lists) /\ lists[g] \in Seq(Peer) /\ Len(lists[g]) > 0
        /\ ListSets[g] = Range(lists[g])
    BY <1>1, <2>1
  <2>4. /\ MaxCommonPrefix \in Nat
        /\ \A p \in Range(lists[g]) : Cpl[p] <= MaxCommonPrefix
        /\ MaxCommonPrefix > 0 => \E p \in Range(lists[g]) : Cpl[p] = MaxCommonPrefix
    BY <2>2, <2>3, MaxOfBucket
  <2>5. \A p \in Range(lists[g]) : p \in Peers(ListSets)
    BY <1>1, <2>3 DEF Peers, Buckets
  \* The peers of the buckets before it have smaller prefixes.
  <2>6. ASSUME NEW p \in Peers(ListSets) PROVE Cpl[p] <= MaxCommonPrefix
    <3>1. PICK i \in full : p \in Range(lists[i]) /\ p \in Peer
      BY <1>2
    <3>2. CASE i = g
      BY <2>4, <3>1, <3>2
    <3>3. CASE i # g
      <4>1. i < g /\ i \in 1..Len(lists) /\ i < Len(ListSets)
        BY <1>1, <2>1, <2>3, <3>3
      <4>2. Cpl[p] = i - 1
        BY <1>1, <3>1, <4>1 DEF WellPlaced
      <4>3. lists[g][1] \in Range(lists[g]) /\ lists[g][1] \in Peer
        BY <2>3 DEF Range
      <4>4. Cpl[lists[g][1]] >= g - 1
        BY <1>1, <2>3, <4>3, CplType DEF WellPlaced
      <4>5. Cpl[lists[g][1]] \in Nat /\ Cpl[lists[g][1]] <= MaxCommonPrefix
        BY <2>4, <4>3, CplType
      <4>. QED BY <1>1, <2>3, <2>4, <4>1, <4>2, <4>4, <4>5
    <3>. QED BY <3>2, <3>3
  <2>. QED BY <2>4, <2>5, <2>6
<1>. QED BY <1>3, <1>4

-----------------------------------------------------------------------------
(* The theorems.                                                           *)

LEMMA ListIInvIsInvariant == Spec => []ListIInv
<1>1. ListIInv /\ [Next]_vars => ListIInv'
  BY ListIInvStep
<1>. QED BY <1>1, ListIInvInit, PTL DEF Spec

(***************************************************************************)
(* The linked lists of bucket.go, nextBucket's recursion, removePeer's     *)
(* loop and bucket.min implement the sets of RoutingTable.tla: every step  *)
(* is a step of it, or none.                                               *)
(***************************************************************************)
THEOREM ImplementsTable == Spec => ImplementsRoutingTable
<1>1. Init => Table!Init
  <2>. SUFFICES ASSUME Init PROVE Table!Init
    OBVIOUS
  <2>1. lists = << <<>> >>
    BY DEF Init
  <2>2. Range(<<>>) = {}
    <3>1. <<>> \in Seq(Peer)
      OBVIOUS
    <3>. QED BY <3>1, RangeEmpty
  <2>3. ListSets = <<{}>>
    BY <2>1, <2>2 DEF ListSets, SetsOf
  <2>. QED BY <2>3 DEF Init, Table!Init
<1>2. ListIInv /\ [Next]_vars => [Table!Next]_(Table!vars)
  BY ListIInvStep
<1>. QED BY <1>1, <1>2, ListIInvIsInvariant, PTL DEF Spec, ImplementsRoutingTable, Table!Spec

(***************************************************************************)
(* Splitting, merging and unlinking keep every list in the order in which  *)
(* its peers were added, the newest in front.                              *)
(***************************************************************************)
THEOREM ListsStayOrdered == Spec => []NewestFirst
<1>1. ASSUME ListIInv PROVE NewestFirst
  <2>. SUFFICES ASSUME NEW i \in DOMAIN lists, NEW j \in DOMAIN lists[i],
                       NEW k \in DOMAIN lists[i], j < k
                PROVE  info[lists[i][j]].addedAt >= info[lists[i][k]].addedAt
    BY DEF NewestFirst
  <2>1. /\ i \in 1..Len(lists) /\ j \in 1..Len(lists[i]) /\ k \in 1..Len(lists[i])
    <3>1. lists \in Tables
      BY <1>1 DEF ListIInv
    <3>2. DOMAIN lists = 1..Len(lists) /\ lists[i] \in Seq(Peer)
      BY <3>1, TablesType
    <3>. QED BY <3>2
  <2>2. <<lists[i][j], lists[i][k]>> \in Ages(info)
    BY <1>1, <2>1 DEF ListIInv, AllOrdered, Ordered
  <2>. QED BY <2>2 DEF Ages
<1>. QED BY <1>1, ListIInvIsInvariant, PTL

(***************************************************************************)
(* Although addPeer's comparator is no order, of the replaceable peers     *)
(* that share the evicted one's prefix none was added before it, and what  *)
(* is evicted for a new peer is replaceable.                               *)
(***************************************************************************)
THEOREM EvictionRule == Spec => EvictsOldestReplaceable
<1>. DEFINE Rule == \A v \in DOMAIN info \ DOMAIN info' :
                       DOMAIN info' \ DOMAIN info # {}
                       => /\ info[v].replaceable
                          /\ \A q \in DOMAIN info :
                                Cpl[q] = Cpl[v] /\ info[q].replaceable
                                   => info[v].addedAt <= info[q].addedAt
<1>1. ListIInv /\ [Next]_vars => [Rule]_vars
  <2>. SUFFICES ASSUME ListIInv, Next,
                       NEW v \in DOMAIN info \ DOMAIN info',
                       DOMAIN info' \ DOMAIN info # {}
                PROVE  /\ info[v].replaceable
                       /\ \A q \in DOMAIN info :
                             Cpl[q] = Cpl[v] /\ info[q].replaceable
                                => info[v].addedAt <= info[q].addedAt
    OBVIOUS
  <2>1. PICK p \in Peer, queryPeer \in QueryPeerArg, isReplaceable \in BOOLEAN :
           AddReplacing(p, queryPeer, isReplaceable)
    <3>1. ASSUME NEW p \in Peer, NEW queryPeer, NEW isReplaceable,
                 AddNew(p, queryPeer, isReplaceable)
          PROVE  FALSE
      BY <3>1 DEF AddNew, InfoAfter
    <3>2. ASSUME NEW p \in Peer, RejectNoCapacity(p) PROVE FALSE
      BY <3>2 DEF RejectNoCapacity
    <3>3. ASSUME NEW p \in Peer, RemovePeer(p) PROVE FALSE
      BY <3>3 DEF RemovePeer
    <3>4. ASSUME KeepsLists PROVE FALSE
      <4>1. DOMAIN info' = DOMAIN info
        BY <3>4 DEF KeepsLists, Table!AddExisting, Table!TurnAway, Table!UpdateLastUsefulAt,
                    Table!UpdateLastSuccessfulOutboundQueryAt,
                    Table!MarkAllPeersIrreplaceable, Table!Tick
      <4>. QED BY <4>1
    <3>. QED BY <3>1, <3>2, <3>3, <3>4 DEF Next
  <2>. DEFINE ls == Candidate(p)
              b == BucketForPeer(ls, p)
  <2>2. v = ReplaceablePeer(b) /\ info[v].replaceable /\ ~FitsIn(ls, p)
    BY <2>1 DEF AddReplacing, InfoAfter
  <2>3. /\ b \in Seq(Peer) /\ Len(b) > 0 /\ v \in Range(b)
        /\ Range(b) = BucketForPeer(SetsOf(ls), p)
    BY <2>2, VictimList, CandidateList, SameOperators
  <2>4. /\ ls \in Tables /\ GoodTable(SetsOf(ls)) /\ AllOrdered(ls, Ages(info))
        /\ Peers(SetsOf(ls)) = Peers(ListSets)
    BY CandidateList
  <2>. HIDE DEF ls
  <2>5. v \in Peer /\ BucketIdForPeer(SetsOf(ls), v) = BucketIdForPeer(SetsOf(ls), p)
    <3>1. BucketIdForPeer(SetsOf(ls), p) \in 1..Len(SetsOf(ls))
      BY <2>4, BucketIdInTable DEF GoodTable
    <3>2. v \in SetsOf(ls)[BucketIdForPeer(SetsOf(ls), p)]
      BY <2>3 DEF BucketForPeer
    <3>. QED BY <2>4, <3>1, <3>2, PlacedById DEF GoodTable
  <2>6. Ordered(b, Ages(info))
    <3>1. BucketIdForPeer(ls, p) \in 1..Len(ls)
      BY <2>4, SameBuckets
    <3>. QED BY <2>4, <3>1 DEF AllOrdered, BucketForPeer
  <2>7. info[v].addedAt \in Nat
    BY DEF ListIInv, Table!PeerInfo, Table!Times, Table!TimesOrNever
  <2>. HIDE DEF b
  <2>8. PICK j \in 1..Len(b) :
           /\ v = b[j]
           /\ \A k \in 1..Len(b) : IsReplaceable(b[k]) => IsReplaceable(b[j]) /\ k <= j
    BY <2>2, <2>3, ScanFindsLast
  <2>9. ASSUME NEW q \in DOMAIN info, Cpl[q] = Cpl[v], info[q].replaceable
        PROVE  info[v].addedAt <= info[q].addedAt
    <3>1. q \in Peers(SetsOf(ls)) /\ q \in Peer
      BY <2>4, NotInTable, SetsOfPeers DEF ListIInv
    \* Both are in the bucket of the new peer: the prefix decides which it is.
    <3>2. q \in Range(b)
      <4>1. q \in BucketForPeer(SetsOf(ls), q)
        BY <2>4, <3>1, LookupFindsPeer DEF GoodTable
      <4>2. BucketForPeer(SetsOf(ls), q) = BucketForPeer(SetsOf(ls), p)
        BY <2>5, <2>9 DEF BucketForPeer, BucketIdForPeer
      <4>. QED BY <2>3, <4>1, <4>2
    <3>3. PICK k \in 1..Len(b) : q = b[k]
      BY <2>3, <3>2 DEF Range
    <3>4. k = j \/ k < j
      BY <2>8, <2>9, <3>3 DEF IsReplaceable
    <3>5. CASE k = j
      BY <2>7, <2>8, <3>3, <3>5
    <3>6. CASE k < j
      BY <2>6, <2>8, <3>3, <3>6 DEF Ordered, Ages
    <3>. QED BY <3>4, <3>5, <3>6
  <2>. QED BY <2>2, <2>9
<1>. QED BY <1>1, ListIInvIsInvariant, PTL DEF Spec, EvictsOldestReplaceable

(***************************************************************************)
(* Size, ListPeers and the greatest common prefix, each a walk over the    *)
(* lists, agree with the set of peers whatever was split and merged.       *)
(***************************************************************************)
THEOREM ListsAgreeWithTable == Spec => []ListsShowTable
<1>1. ASSUME ListIInv PROVE ListsShowTable
  <2>1. DOMAIN info = Peers(ListSets)
    BY <1>1 DEF ListIInv
  <2>. QED BY <1>1, <2>1, SizeCounts, MaxOfTable DEF ListsShowTable
<1>. QED BY <1>1, ListIInvIsInvariant, PTL

-----------------------------------------------------------------------------
(* From the lists to the ideal table.  What is proved of RoutingTable.tla  *)
(* is taken over for the sets of the lists; the refresh times, which       *)
(* RoutingTable_proofs.tla is about as well, play no part.                 *)

Sets == INSTANCE RoutingTable_proofs WITH
           buckets <- ListSets,
           MaxCplForRefresh <- 0, cplRefreshedAt <- <<>>, getting <- {}, tracked <- <<>>,
           round <- <<>>

\* Table and Sets are instances of the same definitions.
LEMMA SameBucketOperators ==
  /\ \A bs, p : /\ Sets!BucketIdForPeer(bs, p) = Table!BucketIdForPeer(bs, p)
                /\ Sets!BucketForPeer(bs, p) = Table!BucketForPeer(bs, p)
                /\ Sets!InLastBucket(bs, p) <=> Table!InLastBucket(bs, p)
                /\ Sets!HasRoom(bs, p) <=> Table!HasRoom(bs, p)
                /\ Sets!Push(bs, p) = Table!Push(bs, p)
                /\ Sets!RemoveFrom(bs, p) = Table!RemoveFrom(bs, p)
  /\ \A bs : /\ Sets!Peers(bs) = Table!Peers(bs)
             /\ Sets!NextBucket(bs) = Table!NextBucket(bs)
<1>0. \A S : Sets!Cardinality(S) = Table!Cardinality(S)
  BY DEF Sets!Cardinality, Table!Cardinality
<1>1. \A bs, p : /\ Sets!BucketIdForPeer(bs, p) = Table!BucketIdForPeer(bs, p)
                 /\ Sets!BucketForPeer(bs, p) = Table!BucketForPeer(bs, p)
  BY DEF Sets!BucketIdForPeer, Table!BucketIdForPeer,
         Sets!BucketForPeer, Table!BucketForPeer
<1>2. \A bs, p : /\ Sets!InLastBucket(bs, p) <=> Table!InLastBucket(bs, p)
                 /\ Sets!HasRoom(bs, p) <=> Table!HasRoom(bs, p)
                 /\ Sets!Push(bs, p) = Table!Push(bs, p)
  BY <1>0, <1>1
  DEF Sets!InLastBucket, Table!InLastBucket, Sets!HasRoom, Table!HasRoom,
      Sets!Push, Table!Push
<1>3. \A bs : Sets!Peers(bs) = Table!Peers(bs)
  BY DEF Sets!Peers, Table!Peers, Sets!Buckets, Table!Buckets
<1>4. \A bs : Sets!Collapse(bs) = Table!Collapse(bs)
  BY DEF Sets!Collapse, Table!Collapse, Sets!Greatest, Table!Greatest
<1>5. \A bs, p : Sets!RemoveFrom(bs, p) = Table!RemoveFrom(bs, p)
  BY <1>1, <1>4 DEF Sets!RemoveFrom, Table!RemoveFrom
<1>6. \A bs : Sets!UnfoldTo(bs) = Table!UnfoldTo(bs)
  BY <1>0
  DEF Sets!UnfoldTo, Table!UnfoldTo, Sets!Least, Table!Least,
      Sets!Deeper, Table!Deeper
<1>7. \A bs : Sets!NextBucket(bs) = Table!NextBucket(bs)
  BY <1>6 DEF Sets!NextBucket, Table!NextBucket, Sets!Deeper, Table!Deeper
<1>. QED BY <1>1, <1>2, <1>3, <1>5, <1>7

LEMMA SameAddPeer ==
  \A p, queryPeer, isReplaceable :
     Table!TryAddPeer(p, queryPeer, isReplaceable)
        => Sets!TryAddPeer(p, queryPeer, isReplaceable)
<1>. USE SameBucketOperators
<1>1. /\ Sets!TablePeers = Table!TablePeers
      /\ \A p : Sets!InTable(p) <=> Table!InTable(p)
  BY DEF Sets!TablePeers, Table!TablePeers, Sets!InTable, Table!InTable
<1>2. \A p : Sets!Candidate(p) = Table!Candidate(p)
  BY DEF Sets!Candidate, Table!Candidate
<1>3. \A p : Sets!Victims(p) = Table!Victims(p)
  BY <1>2 DEF Sets!Victims, Table!Victims
<1>4. \A q, r : Sets!NewPeerInfo(q, r) = Table!NewPeerInfo(q, r)
  BY DEF Sets!NewPeerInfo, Table!NewPeerInfo, Sets!Never, Table!Never
<1>5. \A p, q, r : Table!AddExisting(p, q, r) => Sets!AddExisting(p, q, r)
  BY <1>1 DEF Sets!AddExisting, Table!AddExisting, Sets!Never, Table!Never
<1>6. \A p, err : Table!TurnAway(p, err) => Sets!TurnAway(p, err)
  BY <1>1 DEF Sets!TurnAway, Table!TurnAway
<1>7. \A p, q, r : Table!AddNew(p, q, r) => Sets!AddNew(p, q, r)
  BY <1>1, <1>2, <1>4 DEF Sets!AddNew, Table!AddNew
<1>8. \A p, v, q, r : Table!AddReplacing(p, v, q, r) => Sets!AddReplacing(p, v, q, r)
  BY <1>1, <1>2, <1>3, <1>4 DEF Sets!AddReplacing, Table!AddReplacing
<1>9. \A p : Table!RejectNoCapacity(p) => Sets!RejectNoCapacity(p)
  BY <1>1, <1>2, <1>3 DEF Sets!RejectNoCapacity, Table!RejectNoCapacity
<1>. QED
  BY <1>1, <1>5, <1>6, <1>7, <1>8, <1>9 DEF Sets!TryAddPeer, Table!TryAddPeer

LEMMA SameSteps == [Table!Next]_(Table!vars) => [Sets!Next]_(Sets!vars)
<1>. USE SameBucketOperators
<1>1. \A p : Sets!InTable(p) <=> Table!InTable(p)
  BY DEF Sets!InTable, Table!InTable
<1>2. \A p : Table!RemovePeer(p) => Sets!RemovePeer(p)
  BY <1>1 DEF Sets!RemovePeer, Table!RemovePeer
<1>3. \A p, t :
        /\ Table!UpdateLastUsefulAt(p, t) => Sets!UpdateLastUsefulAt(p, t)
        /\ Table!UpdateLastSuccessfulOutboundQueryAt(p, t)
              => Sets!UpdateLastSuccessfulOutboundQueryAt(p, t)
  BY <1>1
  DEF Sets!UpdateLastUsefulAt, Table!UpdateLastUsefulAt,
      Sets!UpdateLastSuccessfulOutboundQueryAt,
      Table!UpdateLastSuccessfulOutboundQueryAt
<1>4. /\ Table!MarkAllPeersIrreplaceable => Sets!MarkAllPeersIrreplaceable
      /\ Table!Tick => Sets!Tick
  BY DEF Sets!MarkAllPeersIrreplaceable, Table!MarkAllPeersIrreplaceable,
         Sets!Tick, Table!Tick
<1>5. Sets!TimesOrNever = Table!TimesOrNever
  BY DEF Sets!Times, Table!Times, Sets!TimesOrNever, Table!TimesOrNever,
         Sets!Never, Table!Never
<1>6. Table!Next => Sets!Next
  BY <1>2, <1>3, <1>4, <1>5, SameAddPeer DEF Sets!Next, Table!Next
<1>. QED BY <1>6 DEF Sets!vars, Table!vars

LEMMA ListsAreSets == Spec => Sets!Spec
<1>1. Table!Init => Sets!Init
  BY DEF Sets!Init, Table!Init
<1>. QED
  BY <1>1, SameSteps, ImplementsTable, PTL
  DEF ImplementsRoutingTable, Table!Spec, Sets!Spec

LEMMA SetsIInvHolds == Spec => []Sets!IInv
<1>. USE CplAssumption, BucketSizeAssumption, ListTableAssumption
<1>1. Sets!Init => Sets!IInv
  BY Sets!IInvInit
<1>2. Sets!IInv /\ [Sets!Next]_(Sets!vars) => Sets!IInv'
  BY Sets!IInvStep
<1>. QED BY <1>1, <1>2, ListsAreSets, PTL DEF Sets!Spec

(***************************************************************************)
(* The two refinements are one: the linked lists of bucket.go, with all    *)
(* their recursion, implement the ideal table of fixed k-buckets.          *)
(***************************************************************************)
THEOREM ListsImplementIdealTable == Spec => Sets!ImplementsIdealTable
<1>1. Sets!Init => Sets!Ideal!Init
  BY Sets!IdealInit, CplAssumption, BucketSizeAssumption, ListTableAssumption
<1>2. Sets!IInv /\ [Sets!Next]_(Sets!vars) => [Sets!Ideal!Next]_(Sets!Ideal!vars)
  BY Sets!IdealStep, CplAssumption, BucketSizeAssumption, ListTableAssumption
<1>. QED
  BY <1>1, <1>2, ListsAreSets, SetsIInvHolds, PTL
  DEF Sets!Spec, Sets!ImplementsIdealTable, Sets!Ideal!Spec

(***************************************************************************)
(* And what holds of the sets holds of the lists: every peer is in the     *)
(* list its Cpl leads to, no list is longer than bucketsize, the callbacks *)
(* have told of every change, and the lookups by Cpl are exact.            *)
(***************************************************************************)
THEOREM ListsKeepInvariants ==
  Spec => [](/\ Sets!Placement /\ Sets!Capacity /\ Sets!CallbacksMirrorTable
             /\ Sets!UnfoldingBounded
             /\ Sets!UsefulNewPeerExact /\ Sets!NPeersForCplExact)
<1>1. Sets!IInv => /\ Sets!Placement /\ Sets!Capacity
                   /\ Sets!CallbacksMirrorTable /\ Sets!UnfoldingBounded
  BY DEF Sets!IInv
<1>2. Sets!IInv => Sets!UsefulNewPeerExact /\ Sets!NPeersForCplExact
  BY Sets!UsefulNewPeerIsExact, Sets!NPeersForCplIsExact,
     CplAssumption, BucketSizeAssumption, ListTableAssumption
<1>. QED BY <1>1, <1>2, SetsIInvHolds, PTL

(***************************************************************************)
(* The record of a peer stays what it is when the peer is added again, and *)
(* when its list is split, or another unlinked from it, for a new peer.    *)
(***************************************************************************)
THEOREM ListsKeepRecordsHolds == Spec => ListsKeepRecords
<1>1. Sets!IInv /\ [Sets!Next]_(Sets!vars) => [Sets!KeepsRecord]_(Sets!vars)
  BY Sets!KeepsRecordStep, CplAssumption, BucketSizeAssumption, ListTableAssumption
<1>2. Sets!TablePeers = Table!TablePeers /\ Sets!TablePeers' = Table!TablePeers'
  BY SameBucketOperators DEF Sets!TablePeers, Table!TablePeers
<1>3. Sets!KeepsRecord => Table!KeepsRecord
  BY <1>2, SameAddPeer DEF Sets!KeepsRecord, Table!KeepsRecord, Sets!Never, Table!Never
<1>4. UNCHANGED Sets!vars => Table!KeepsRecord
  BY DEF Sets!vars, Table!KeepsRecord
<1>5. [Sets!KeepsRecord]_(Sets!vars) => [Table!KeepsRecord]_vars
  BY <1>3, <1>4
<1>. QED
  BY <1>1, <1>5, ListsAreSets, SetsIInvHolds, PTL DEF Sets!Spec, ListsKeepRecords
=============================================================================
