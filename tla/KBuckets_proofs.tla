--------------------------- MODULE KBuckets_proofs ---------------------------
(***************************************************************************)
(* What the operations of KBuckets.tla do to a well-placed table, for any  *)
(* set of peers, any bucket size and any length of ID.                     *)
(***************************************************************************)
EXTENDS KBuckets, FiniteSetTheorems, SequenceTheorems, TLAPS

-----------------------------------------------------------------------------
(* Induction on naturals, on a measure and along 0..n, with sets in place  *)
(* of predicates, and the existence of functions defined by recursion: the *)
(* provers cannot instantiate the library's theorems about those.          *)

LEMMA LeastNat ==
  ASSUME NEW S \in SUBSET Nat, S # {}
  PROVE  \E n \in S : \A m \in S : n <= m
<1>1. PICK n \in S : \A m \in S : <<m, n>> \notin OpToRel(<, Nat)
  BY NatLessThanWellFounded, WFMin
<1>2. \A m \in S : ~(m < n)
  BY <1>1 DEF OpToRel
<1>. QED BY <1>2

LEMMA NatInductionOnSets ==
  ASSUME NEW S \in SUBSET Nat,
         \A n \in Nat : (\A m \in Nat : m < n => m \in S) => n \in S
  PROVE  S = Nat
<1>1. ASSUME S # Nat PROVE FALSE
  <2>1. PICK n \in Nat \ S : \A m \in Nat \ S : n <= m
    <3>1. Nat \ S # {} /\ Nat \ S \in SUBSET Nat
      BY <1>1
    <3>. QED BY <3>1, LeastNat
  <2>2. \A m \in Nat : m < n => m \in S
    BY <2>1
  <2>. QED BY <2>1, <2>2
<1>. QED BY <1>1

LEMMA MeasureInduction ==
  ASSUME NEW D, NEW measure \in [D -> Nat], NEW good \in SUBSET D,
         \A x \in D :
            (\A y \in D : measure[y] < measure[x] => y \in good) => x \in good
  PROVE  good = D
<1>. SUFFICES ASSUME good # D PROVE FALSE
  OBVIOUS
<1>. DEFINE bad == {n \in Nat : \E x \in D : x \notin good /\ measure[x] = n}
<1>1. bad # {}
  OBVIOUS
<1>2. PICK n \in bad : \A m \in bad : n <= m
  <2>. HIDE DEF bad
  <2>1. bad \in SUBSET Nat
    BY DEF bad
  <2>. QED BY <1>1, <2>1, LeastNat
<1>3. PICK x \in D : x \notin good /\ measure[x] = n
  BY <1>2
<1>4. \A y \in D : measure[y] < measure[x] => y \in good
  BY <1>2, <1>3
<1>. QED BY <1>3, <1>4

Equation(f, x, stop, out, succ, comb) ==
    IF x \in stop THEN out[x] ELSE comb[<<x, f[succ[x]]>>]

\* Solutions on the arguments of a measure below n.
Solutions(n, D, T, measure, stop, out, succ, comb) ==
    {f \in [{x \in D : measure[x] < n} -> T] :
        \A x \in D : measure[x] < n =>
            f[x] = Equation(f, x, stop, out, succ, comb)}

\* A recursion over D that comes to an end.
Terminates(D, T, measure, stop, out, succ, comb) ==
    /\ measure \in [D -> Nat] /\ stop \in SUBSET D
    /\ out \in [D -> T] /\ succ \in [D -> D] /\ comb \in [D \X T -> T]
    /\ \A x \in D \ stop : measure[succ[x]] < measure[x]

LEMMA Recursion ==
  ASSUME NEW D, NEW T, NEW measure, NEW stop, NEW out, NEW succ, NEW comb,
         Terminates(D, T, measure, stop, out, succ, comb)
  PROVE  \E f \in [D -> T] :
            \A x \in D : f[x] = Equation(f, x, stop, out, succ, comb)
<1>. DEFINE Below(n) == {x \in D : measure[x] < n}
            Rhs(f, x) == Equation(f, x, stop, out, succ, comb)
            Sol(n) == Solutions(n, D, T, measure, stop, out, succ, comb)
<1>0. /\ measure \in [D -> Nat] /\ stop \in SUBSET D
      /\ out \in [D -> T] /\ succ \in [D -> D] /\ comb \in [D \X T -> T]
      /\ \A x \in D \ stop : measure[succ[x]] < measure[x]
  BY DEF Terminates
<1>. USE <1>0
<1>1. \A n \in Nat : \A f \in Sol(n) :
         f \in [Below(n) -> T] /\ \A x \in Below(n) : f[x] = Rhs(f, x)
  BY DEF Solutions
<1>2. ASSUME NEW n \in Nat, NEW f, f \in [Below(n) -> T], \A x \in Below(n) : f[x] = Rhs(f, x)
      PROVE  f \in Sol(n)
  BY <1>2 DEF Solutions
<1>3. ASSUME NEW n \in Nat, NEW f, f \in [Below(n) -> T], NEW x \in D, x \in Below(n + 1)
      PROVE  Rhs(f, x) \in T
  <2>1. CASE x \in stop
    BY <2>1 DEF Equation
  <2>2. CASE x \notin stop
    <3>1. succ[x] \in Below(n)
      BY <1>3, <2>2
    <3>2. <<x, f[succ[x]]>> \in D \X T
      BY <1>3, <3>1
    <3>. QED BY <2>2, <3>2 DEF Equation
  <2>. QED BY <2>1, <2>2
<1>4. ASSUME NEW n \in Nat, NEW f, f \in [Below(n) -> T], NEW g, NEW x \in D,
             \A y \in Below(n) : g[y] = f[y], x \in Below(n + 1)
      PROVE  Rhs(g, x) = Rhs(f, x)
  <2>1. x \notin stop => succ[x] \in Below(n)
    BY <1>4
  <2>. QED BY <1>4, <2>1 DEF Equation
<1>. HIDE DEF Sol, Rhs
<1>5. \A n \in Nat : Sol(n) # {}
  <2>. DEFINE solved == {n \in Nat : Sol(n) # {}}
  <2>1. ASSUME NEW n \in Nat, \A m \in Nat : m < n => m \in solved
        PROVE  n \in solved
    <3>1. CASE n = 0
      <4>. DEFINE f == [x \in Below(0) |-> CHOOSE t \in T : TRUE]
      <4>1. Below(0) = {}
        OBVIOUS
      <4>2. f \in [Below(0) -> T] /\ \A x \in Below(0) : f[x] = Rhs(f, x)
        BY <4>1
      <4>3. f \in Sol(0)
        <5>. HIDE DEF f
        <5>. QED BY <1>2, <4>2
      <4>. QED BY <3>1, <4>3
    <3>2. CASE n # 0
      <4>1. n - 1 \in Nat /\ n - 1 < n
        BY <3>2
      <4>2. PICK f : f \in Sol(n - 1)
        BY <2>1, <4>1
      <4>3. f \in [Below(n - 1) -> T] /\ \A x \in Below(n - 1) : f[x] = Rhs(f, x)
        BY <1>1, <4>1, <4>2
      <4>. DEFINE g == [x \in Below(n) |-> Rhs(f, x)]
      <4>4. \A x \in Below(n) : Rhs(f, x) \in T
        BY <1>3, <4>1, <4>3
      <4>5. g \in [Below(n) -> T]
        BY <4>4
      <4>6. \A y \in Below(n - 1) : g[y] = f[y]
        BY <4>3
      <4>7. ASSUME NEW x \in D, x \in Below(n) PROVE g[x] = Rhs(g, x)
        <5>1. g[x] = Rhs(f, x) /\ x \in Below((n - 1) + 1) /\ x \in D
          BY <4>7
        <5>. HIDE DEF g, Below
        <5>2. Rhs(g, x) = Rhs(f, x)
          BY <1>4, <4>1, <4>3, <4>6, <5>1
        <5>. QED BY <5>1, <5>2
      <4>8. g \in Sol(n)
        <5>. HIDE DEF g
        <5>. QED BY <1>2, <4>5, <4>7
      <4>. QED BY <4>8
    <3>. QED BY <3>1, <3>2
  <2>2. solved = Nat
    <3>1. solved \in SUBSET Nat
      OBVIOUS
    <3>. HIDE DEF solved
    <3>. QED BY <2>1, <3>1, NatInductionOnSets
  <2>. QED BY <2>2
<1>. DEFINE F(n) == CHOOSE f : f \in Sol(n)
            fixed == [x \in D |-> F(measure[x] + 1)[x]]
<1>6. ASSUME NEW n \in Nat
      PROVE  F(n) \in [Below(n) -> T] /\ \A x \in Below(n) : F(n)[x] = Rhs(F(n), x)
  <2>1. F(n) \in Sol(n)
    BY <1>5
  <2>. HIDE DEF F
  <2>. QED BY <1>1, <2>1
<1>. HIDE DEF F
<1>7. \A x \in D : \A m, n \in Nat : x \in Below(m) /\ x \in Below(n) => F(m)[x] = F(n)[x]
  <2>. DEFINE agreed == {x \in D : \A m, n \in Nat :
                            x \in Below(m) /\ x \in Below(n) => F(m)[x] = F(n)[x]}
  <2>1. ASSUME NEW x \in D, \A y \in D : measure[y] < measure[x] => y \in agreed
        PROVE  x \in agreed
    <3>. SUFFICES ASSUME NEW m \in Nat, NEW n \in Nat, x \in Below(m), x \in Below(n)
                  PROVE  F(m)[x] = F(n)[x]
      OBVIOUS
    <3>1. F(m)[x] = Rhs(F(m), x) /\ F(n)[x] = Rhs(F(n), x)
      BY <1>6
    <3>2. x \notin stop => F(m)[succ[x]] = F(n)[succ[x]]
      <4>. HAVE x \notin stop
      <4>1. succ[x] \in D /\ measure[succ[x]] < measure[x]
        OBVIOUS
      <4>2. succ[x] \in agreed
        BY <2>1, <4>1
      <4>3. succ[x] \in Below(m) /\ succ[x] \in Below(n)
        BY <4>1
      <4>. QED BY <4>2, <4>3
    <3>. QED BY <3>1, <3>2 DEF Rhs, Equation
  <2>2. agreed = D
    <3>1. agreed \in SUBSET D
      OBVIOUS
    <3>. HIDE DEF agreed
    <3>. QED BY <2>1, <3>1, MeasureInduction
  <2>. QED BY <2>2
<1>8. ASSUME NEW x \in D
      PROVE  fixed[x] \in T /\ fixed[x] = Rhs(fixed, x)
  <2>. DEFINE n == measure[x] + 1
  <2>1. n \in Nat /\ x \in Below(n) /\ fixed[x] = F(n)[x]
    OBVIOUS
  <2>2. fixed[x] \in T /\ fixed[x] = Rhs(F(n), x)
    BY <1>6, <2>1
  <2>3. x \notin stop => fixed[succ[x]] = F(n)[succ[x]]
    <3>. HAVE x \notin stop
    <3>1. succ[x] \in D /\ succ[x] \in Below(measure[succ[x]] + 1) /\ succ[x] \in Below(n)
          /\ measure[succ[x]] + 1 \in Nat
      OBVIOUS
    <3>2. fixed[succ[x]] = F(measure[succ[x]] + 1)[succ[x]]
      BY <3>1
    <3>. QED BY <1>7, <2>1, <3>1, <3>2
  <2>. HIDE DEF fixed, n
  <2>. QED BY <2>2, <2>3 DEF Rhs, Equation
<1>9. fixed \in [D -> T]
  BY <1>8
<1>. QED BY <1>8, <1>9 DEF Rhs

\* The same for functions defined along 0..n.
LEMMA IndexInduction ==
  ASSUME NEW n \in Nat, NEW good \in SUBSET (0..n),
         0 \in good, \A i \in 1..n : i - 1 \in good => i \in good
  PROVE  good = 0..n
<1>1. ASSUME good # 0..n PROVE FALSE
  <2>1. (0..n) \ good # {}
    BY <1>1
  <2>2. (0..n) \ good \in SUBSET Nat
    OBVIOUS
  <2>3. PICK k \in (0..n) \ good : \A m \in (0..n) \ good : k <= m
    BY <2>1, <2>2, LeastNat
  <2>4. k \in 1..n /\ k - 1 \in 0..n
    BY <2>3
  <2>5. k - 1 \in good
    BY <2>3, <2>4
  <2>. QED BY <2>3, <2>4, <2>5
<1>. QED BY <1>1

Steps(n, T, first, comb) ==
    n \in Nat /\ first \in T /\ comb \in [(1..n) \X T -> T]

LEMMA IndexRecursion ==
  ASSUME NEW n, NEW T, NEW first, NEW comb, Steps(n, T, first, comb)
  PROVE  \E f \in [0..n -> T] :
            /\ f[0] = first
            /\ \A i \in 1..n : f[i] = comb[<<i, f[i - 1]>>]
<1>. DEFINE D == 0..n
            measure == [i \in D |-> i]
            stop == {0}
            out == [i \in D |-> first]
            succ == [i \in D |-> IF i = 0 THEN 0 ELSE i - 1]
            step == [x \in D \X T |->
                        IF x[1] = 0 THEN first ELSE comb[<<x[1], x[2]>>]]
<1>0. n \in Nat /\ first \in T /\ comb \in [(1..n) \X T -> T]
  BY DEF Steps
<1>. USE <1>0
<1>1. /\ measure \in [D -> Nat] /\ stop \in SUBSET D
      /\ out \in [D -> T] /\ succ \in [D -> D]
  OBVIOUS
<1>2. step \in [D \X T -> T]
  <2>. SUFFICES ASSUME NEW x \in D \X T
                PROVE  (IF x[1] = 0 THEN first ELSE comb[<<x[1], x[2]>>]) \in T
    OBVIOUS
  <2>1. x[1] \in D /\ x[2] \in T
    OBVIOUS
  <2>. QED BY <2>1
<1>3. \A i \in D \ stop : measure[succ[i]] < measure[i]
  OBVIOUS
<1>4. \E f \in [D -> T] : \A i \in D : f[i] = Equation(f, i, stop, out, succ, step)
  <2>. HIDE DEF D, measure, stop, out, succ, step
  <2>1. Terminates(D, T, measure, stop, out, succ, step)
    BY <1>1, <1>2, <1>3 DEF Terminates
  <2>. QED BY <2>1, Recursion
<1>5. PICK f \in [D -> T] : \A i \in D : f[i] = Equation(f, i, stop, out, succ, step)
  BY <1>4
<1>6. f[0] = first
  <2>1. f[0] = Equation(f, 0, stop, out, succ, step)
    <3>. HIDE DEF Equation, step, succ, out, stop
    <3>. QED BY <1>5
  <2>. QED BY <2>1 DEF Equation
<1>7. ASSUME NEW i \in 1..n PROVE f[i] = comb[<<i, f[i - 1]>>]
  <2>1. i \in D /\ i \notin stop /\ succ[i] = i - 1 /\ f[i - 1] \in T
    OBVIOUS
  <2>2. f[i] = step[<<i, f[i - 1]>>]
    <3>. HIDE DEF step, succ, stop
    <3>. QED BY <1>5, <2>1 DEF Equation
  <2>. QED BY <2>1, <2>2
<1>. QED BY <1>6, <1>7

LEMMA IndexType ==
  ASSUME NEW n \in Nat, NEW T, NEW f, DOMAIN f = 0..n, f = [i \in 0..n |-> f[i]],
         f[0] \in T, \A i \in 1..n : f[i - 1] \in T => f[i] \in T
  PROVE  f \in [0..n -> T]
<1>. DEFINE good == {i \in 0..n : f[i] \in T}
<1>1. /\ good \in SUBSET (0..n) /\ 0 \in good
      /\ \A i \in 1..n : i - 1 \in good => i \in good
  OBVIOUS
<1>2. good = 0..n
  <2>. HIDE DEF good
  <2>. QED BY <1>1, IndexInduction
<1>. QED BY <1>2

-----------------------------------------------------------------------------
(* The least and the greatest element of a finite set of integers.         *)

LEMMA FiniteHasLeast ==
  ASSUME NEW S \in SUBSET Int, IsFiniteSet(S), S # {}
  PROVE  \E x \in S : \A y \in S : x <= y
<1>. DEFINE NoLeast(T) == T # {} /\ ~ \E x \in T : \A y \in T : x <= y
            Bad == {T \in SUBSET S : NoLeast(T)}
<1>1. SUFFICES Bad = {}
  OBVIOUS
<1>2. SUFFICES ASSUME Bad # {} PROVE FALSE
  OBVIOUS
<1>3. IsWellFoundedOn(StrictSubsetOrdering(S), SUBSET S)
  BY FS_StrictSubsetOrderingWellFounded, FS_FiniteSubsetsOfFinite
<1>4. PICK T \in Bad : \A U \in Bad : <<U, T>> \notin StrictSubsetOrdering(S)
  BY <1>2, <1>3, WFMin
<1>5. PICK x \in T : TRUE
  OBVIOUS
<1>6. T \ {x} \notin Bad
  BY <1>4, <1>5 DEF StrictSubsetOrdering
<1>7. CASE T \ {x} = {}
  BY <1>5, <1>7
<1>8. CASE T \ {x} # {}
  <2>1. PICK m \in T \ {x} : \A y \in T \ {x} : m <= y
    BY <1>6, <1>8
  <2>2. \A y \in T : (IF x <= m THEN x ELSE m) <= y
    BY <1>5, <2>1
  <2>. QED BY <1>5, <2>1, <2>2
<1>. QED BY <1>7, <1>8

LEMMA LeastInSet ==
  ASSUME NEW S \in SUBSET Int, IsFiniteSet(S), S # {}
  PROVE  /\ Least(S) \in S
         /\ \A y \in S : Least(S) <= y
BY FiniteHasLeast DEF Least

LEMMA GreatestInSet ==
  ASSUME NEW S \in SUBSET Int, IsFiniteSet(S), S # {}
  PROVE  /\ Greatest(S) \in S
         /\ \A y \in S : Greatest(S) >= y
<1>. DEFINE N == {-y : y \in S}
            f == [y \in S |-> -y]
<1>1. IsFiniteSet(N)
  <2>1. f \in Surjection(S, N)
    BY DEF Surjection
  <2>. QED BY ONLY <2>1, IsFiniteSet(S), FS_Surjection
<1>2. PICK m \in N : \A y \in N : m <= y
  <2>1. N \in SUBSET Int
    <3>. SUFFICES ASSUME NEW z \in N
                  PROVE  z \in Int
      OBVIOUS
    <3>1. PICK y \in S : z = -y
      OBVIOUS
    <3>. HIDE DEF N
    <3>. QED BY <3>1
  <2>2. N # {}
    OBVIOUS
  <2>. HIDE DEF N
  <2>. QED BY <1>1, <2>1, <2>2, FiniteHasLeast
<1>3. \A y \in S : -m >= y
  BY <1>2
<1>4. -m \in S
  BY <1>2
<1>. QED BY <1>3, <1>4 DEF Greatest

LEMMA AddElementBound ==
  ASSUME NEW S, IsFiniteSet(S), NEW x
  PROVE  /\ IsFiniteSet(S \cup {x})
         /\ Cardinality(S) \in Nat
         /\ Cardinality(S \cup {x}) \in Nat
         /\ Cardinality(S \cup {x}) <= Cardinality(S) + 1
<1>1. Cardinality(S) \in Nat
  BY FS_CardinalityType
<1>2. IsFiniteSet(S \cup {x})
  BY FS_AddElement
<1>3. Cardinality(S \cup {x}) = IF x \in S THEN Cardinality(S) ELSE Cardinality(S) + 1
  BY FS_AddElement
<1>. QED BY <1>1, <1>2, <1>3

-----------------------------------------------------------------------------
(* Looking a peer up.                                                      *)

\* A table as the code builds it: at least one bucket.
IsTable(bs) == bs \in Seq(SUBSET Peer) /\ Len(bs) > 0

LEMMA CplType ==
  ASSUME NEW p \in Peer
  PROVE  Cpl[p] \in 0..MaxCpl /\ Cpl[p] \in Nat /\ MaxCpl \in Nat
BY CplAssumption

LEMMA BucketIdInTable ==
  ASSUME NEW bs, IsTable(bs), NEW p \in Peer
  PROVE  /\ BucketIdForPeer(bs, p) \in 1..Len(bs)
         /\ BucketForPeer(bs, p) \in SUBSET Peer
         /\ Len(bs) \in Nat
BY CplType DEF IsTable, BucketIdForPeer, BucketForPeer

\* A peer is in no other bucket than the one its Cpl leads to.
LEMMA PlacedById ==
  ASSUME NEW bs, IsTable(bs), WellPlaced(bs),
         NEW i \in 1..Len(bs), NEW p \in bs[i]
  PROVE  p \in Peer /\ i = BucketIdForPeer(bs, p)
<1>1. p \in Peer /\ Len(bs) \in Nat
  BY DEF IsTable
<1>2. IF i < Len(bs) THEN Cpl[p] = i - 1 ELSE Cpl[p] >= i - 1
  BY DEF WellPlaced
<1>. QED BY <1>1, <1>2, CplType DEF BucketIdForPeer

LEMMA LookupFindsPeer ==
  ASSUME NEW bs, IsTable(bs), WellPlaced(bs), NEW p \in Peer
  PROVE  p \in BucketForPeer(bs, p) <=> p \in Peers(bs)
<1>1. ASSUME p \in BucketForPeer(bs, p) PROVE p \in Peers(bs)
  BY <1>1, BucketIdInTable DEF BucketForPeer, Peers, Buckets
<1>2. ASSUME p \in Peers(bs) PROVE p \in BucketForPeer(bs, p)
  <2>1. PICK i \in 1..Len(bs) : p \in bs[i]
    BY <1>2 DEF Peers, Buckets
  <2>. QED BY <2>1, PlacedById DEF BucketForPeer
<1>. QED BY <1>1, <1>2

\* All the peers of p's Cpl are in p's bucket, and they are alone there unless
\* it is the last one.
LEMMA GroupInBucket ==
  ASSUME NEW bs, IsTable(bs), WellPlaced(bs), NEW p \in Peer
  PROVE  LET group == {q \in Peers(bs) : Cpl[q] = Cpl[p]}
         IN  /\ group \subseteq BucketForPeer(bs, p)
             /\ BucketForPeer(bs, p) \subseteq Peers(bs)
             /\ BucketIdForPeer(bs, p) < Len(bs) => group = BucketForPeer(bs, p)
<1>. DEFINE id == BucketIdForPeer(bs, p)
            group == {q \in Peers(bs) : Cpl[q] = Cpl[p]}
<1>1. id \in 1..Len(bs) /\ Len(bs) \in Nat
  BY BucketIdInTable
<1>2. bs[id] \subseteq Peers(bs)
  BY <1>1 DEF Peers, Buckets
<1>3. ASSUME NEW q \in group PROVE q \in bs[id]
  <2>1. PICK i \in 1..Len(bs) : q \in bs[i]
    BY DEF Peers, Buckets
  <2>2. i = BucketIdForPeer(bs, q)
    BY <2>1, PlacedById
  <2>3. Cpl[q] = Cpl[p]
    OBVIOUS
  <2>. QED BY <2>1, <2>2, <2>3 DEF BucketIdForPeer
<1>4. ASSUME id < Len(bs), NEW q \in bs[id] PROVE q \in group
  <2>1. Cpl[q] = id - 1
    BY <1>1, <1>4 DEF WellPlaced
  <2>2. Cpl[p] = id - 1
    BY <1>1, <1>4, CplType DEF BucketIdForPeer
  <2>. QED BY <1>2, <2>1, <2>2
<1>. QED BY <1>2, <1>3, <1>4 DEF BucketForPeer

-----------------------------------------------------------------------------
(* Unfolding.                                                              *)

LEMMA UnfoldToType ==
  ASSUME NEW bs, IsTable(bs), IsFiniteSet(bs[Len(bs)])
  PROVE  LET n == Len(bs)  top == UnfoldTo(bs)
         IN  /\ n \in Nat \ {0}
             /\ top \in (n - 1)..(n + MaxCpl)
             /\ Cardinality(Deeper(bs[n], top)) < BucketSize
             /\ n - 1 <= MaxCpl => top <= MaxCpl
<1>. DEFINE n == Len(bs)
            S == {c \in (n - 1)..(n + MaxCpl) :
                     Cardinality(Deeper(bs[n], c)) < BucketSize}
<1>1. n \in Nat \ {0} /\ MaxCpl \in Nat /\ bs[n] \in SUBSET Peer
  BY CplAssumption DEF IsTable
<1>2. IsFiniteSet(S) /\ S \in SUBSET Int
  <2>1. IsFiniteSet((n - 1)..(n + MaxCpl))
    BY <1>1, FS_Interval
  <2>. QED BY <2>1, <1>1, FS_Subset
<1>3. \A c \in (n - 1)..(n + MaxCpl) : c >= MaxCpl => c \in S
  <2>. SUFFICES ASSUME NEW c \in (n - 1)..(n + MaxCpl), c >= MaxCpl
                PROVE  c \in S
    OBVIOUS
  <2>1. Deeper(bs[n], c) = {}
    BY <1>1, CplType DEF Deeper
  <2>. QED BY <2>1, FS_EmptySet, BucketSizeAssumption
<1>4. n + MaxCpl \in S
  BY <1>1, <1>3
<1>5. UnfoldTo(bs) = Least(S)
  BY DEF UnfoldTo
<1>6. Least(S) \in S /\ \A y \in S : Least(S) <= y
  <2>. HIDE DEF S
  <2>. QED BY <1>2, <1>4, LeastInSet
<1>7. n - 1 <= MaxCpl => MaxCpl \in S
  BY <1>1, <1>3
<1>. QED BY <1>1, <1>5, <1>6, <1>7

\* The buckets of an unfolded table: those before the last are as they were,
\* and the peers of the last one are dealt out by their Cpl.
LEMMA NextBucketAt ==
  ASSUME NEW bs, IsTable(bs), WellPlaced(bs), IsFiniteSet(bs[Len(bs)]),
         NEW i \in 1..(UnfoldTo(bs) + 2)
  PROVE  /\ i < Len(bs) => NextBucket(bs)[i] = bs[i]
         /\ ~(i < Len(bs)) =>
               \A p : p \in NextBucket(bs)[i] <=>
                         /\ p \in bs[Len(bs)]
                         /\ IF i < UnfoldTo(bs) + 2 THEN Cpl[p] = i - 1
                                                    ELSE Cpl[p] >= i - 1
<1>. DEFINE n == Len(bs)
            last == bs[n]
            top == UnfoldTo(bs)
<1>1. /\ n \in Nat \ {0}
      /\ top \in (n - 1)..(n + MaxCpl)
      /\ MaxCpl \in Nat
  BY UnfoldToType, CplAssumption
<1>2. /\ last \in SUBSET Peer
      /\ \A p \in last : Cpl[p] \in Nat /\ Cpl[p] >= n - 1
  BY <1>1, CplType DEF IsTable, WellPlaced
<1>3. NextBucket(bs)[i] =
        IF i < n THEN bs[i]
        ELSE IF i < top + 2
             THEN (IF i = n THEN last ELSE Deeper(last, i - 2)) \ Deeper(last, i - 1)
             ELSE (IF i = n THEN last ELSE Deeper(last, i - 2))
  BY DEF NextBucket
<1>. HIDE DEF n, last, top
<1>4. CASE i < n
  BY <1>1, <1>3, <1>4 DEF n, last, top
<1>5. CASE i = n
  <2>1. i < top + 2
    BY <1>1, <1>5
  <2>2. last \ Deeper(last, i - 1) = {p \in last : Cpl[p] = i - 1}
    BY <1>1, <1>2, <1>5 DEF Deeper
  <2>. QED BY <1>1, <1>3, <1>5, <2>1, <2>2 DEF n, last, top
<1>6. CASE n < i /\ i < top + 2
  <2>1. Deeper(last, i - 2) \ Deeper(last, i - 1) = {p \in last : Cpl[p] = i - 1}
    BY <1>1, <1>2, <1>6 DEF Deeper
  <2>. QED BY <1>1, <1>3, <1>6, <2>1 DEF n, last, top
<1>7. CASE i = top + 2
  <2>1. Deeper(last, i - 2) = {p \in last : Cpl[p] >= i - 1}
    BY <1>1, <1>2, <1>7 DEF Deeper
  <2>. QED BY <1>1, <1>3, <1>7, <2>1 DEF n, last, top
<1>. QED BY <1>1, <1>4, <1>5, <1>6, <1>7 DEF n, top

LEMMA NextBucketLen ==
  ASSUME NEW bs, IsTable(bs), WellPlaced(bs), IsFiniteSet(bs[Len(bs)])
  PROVE  /\ IsTable(NextBucket(bs))
         /\ Len(NextBucket(bs)) = UnfoldTo(bs) + 2
<1>. DEFINE nb == NextBucket(bs)
            top == UnfoldTo(bs)
<1>1. Len(bs) \in Nat \ {0} /\ top + 2 \in Nat
  BY UnfoldToType, CplAssumption
<1>2. \A i \in 1..(top + 2) : nb[i] \in SUBSET Peer
  BY <1>1, NextBucketAt DEF IsTable
<1>3. DOMAIN nb = 1..(top + 2)
  BY DEF NextBucket
<1>4. nb = [i \in 1..(top + 2) |-> nb[i]]
  BY <1>3 DEF NextBucket
<1>5. nb \in [1..(top + 2) -> SUBSET Peer]
  BY <1>2, <1>4
<1>. HIDE DEF nb, top
<1>6. nb \in Seq(SUBSET Peer) /\ Len(nb) = top + 2
  BY <1>1, <1>5, SeqDef, LenProperties
<1>. QED BY <1>1, <1>6, UnfoldToType, CplAssumption DEF IsTable, nb, top

LEMMA NextBucketKeepsPeers ==
  ASSUME NEW bs, IsTable(bs), WellPlaced(bs), IsFiniteSet(bs[Len(bs)])
  PROVE  Peers(NextBucket(bs)) = Peers(bs)
<1>. DEFINE nb == NextBucket(bs)
            n == Len(bs)
            top == UnfoldTo(bs)
<1>1. n \in Nat \ {0} /\ top \in Nat /\ top + 1 >= n /\ Len(nb) = top + 2
  BY UnfoldToType, CplAssumption, NextBucketLen
<1>2. bs[n] \in SUBSET Peer /\ \A p \in bs[n] : Cpl[p] \in Nat /\ Cpl[p] >= n - 1
  BY <1>1, CplType DEF IsTable, WellPlaced
<1>3. ASSUME NEW i \in 1..Len(nb), NEW p \in nb[i]
      PROVE  \E j \in 1..n : p \in bs[j]
  <2>1. i \in 1..(top + 2)
    BY <1>1, <1>3
  <2>2. i < n => p \in bs[i]
    BY <2>1, <1>3, NextBucketAt
  <2>3. ~(i < n) => p \in bs[n]
    BY <2>1, <1>3, NextBucketAt
  <2>. QED BY <1>1, <2>1, <2>2, <2>3
<1>4. ASSUME NEW j \in 1..n, NEW p \in bs[j]
      PROVE  \E i \in 1..Len(nb) : p \in nb[i]
  <2>1. CASE j < n
    <3>1. j \in 1..(top + 2) /\ nb[j] = bs[j]
      BY <1>1, <2>1, NextBucketAt
    <3>. QED BY <1>1, <1>4, <3>1
  <2>2. CASE j = n /\ Cpl[p] < top + 1
    <3>1. Cpl[p] + 1 \in 1..(top + 2) /\ Cpl[p] \in Nat /\ p \in bs[n]
      BY <1>1, <1>2, <1>4, <2>2
    <3>2. p \in nb[Cpl[p] + 1]
      <4>. DEFINE k == Cpl[p] + 1
      <4>1. ~(k < n) /\ k < top + 2 /\ Cpl[p] = k - 1 /\ k \in 1..(top + 2)
        <5>1. Cpl[p] \in Nat /\ Cpl[p] >= n - 1 /\ Cpl[p] < top + 1
          BY <1>2, <1>4, <2>2
        <5>. HIDE DEF n, top
        <5>. QED BY <1>1, <5>1
      <4>. HIDE DEF k
      <4>2. p \in nb[k]
        BY <3>1, <4>1, NextBucketAt
      <4>. QED BY <4>2 DEF k
    <3>. QED BY <1>1, <3>1, <3>2
  <2>3. CASE j = n /\ Cpl[p] >= top + 1
    <3>1. p \in nb[top + 2]
      <4>1. top + 2 \in 1..(top + 2) /\ ~(top + 2 < n) /\ ~(top + 2 < top + 2)
        BY <1>1
      <4>2. p \in bs[n] /\ Cpl[p] >= (top + 2) - 1
        BY <1>1, <1>2, <1>4, <2>3
      <4>. QED BY <4>1, <4>2, NextBucketAt
    <3>. QED BY <1>1, <3>1
  <2>. QED BY <1>1, <1>2, <1>4, <2>1, <2>2, <2>3
<1>. QED BY <1>3, <1>4 DEF Peers, Buckets

\* Unfolding keeps the table well placed and within its capacity, and leaves
\* room in the last bucket.
LEMMA NextBucketWellPlaced ==
  ASSUME NEW bs, IsTable(bs), WellPlaced(bs), WithinCapacity(bs)
  PROVE  LET nb == NextBucket(bs)
         IN  /\ WellPlaced(nb)
             /\ WithinCapacity(nb)
             /\ Cardinality(nb[Len(nb)]) < BucketSize
             /\ Len(bs) - 1 <= MaxCpl => Len(nb) <= MaxCpl + 2
<1>. DEFINE nb == NextBucket(bs)
            n == Len(bs)
            top == UnfoldTo(bs)
<1>0. n \in Nat \ {0} /\ IsFiniteSet(bs[n]) /\ Cardinality(bs[n]) <= BucketSize
  BY DEF IsTable, WithinCapacity
<1>1. /\ top \in Nat /\ top + 1 >= n /\ Len(nb) = top + 2 /\ MaxCpl \in Nat
      /\ Cardinality(Deeper(bs[n], top)) < BucketSize
      /\ n - 1 <= MaxCpl => top <= MaxCpl
  BY <1>0, UnfoldToType, CplAssumption, NextBucketLen
<1>2. bs[n] \in SUBSET Peer /\ \A p \in bs[n] : Cpl[p] \in Nat /\ Cpl[p] >= n - 1
  BY <1>0, CplType DEF IsTable, WellPlaced
<1>3. WellPlaced(nb)
  <2>. SUFFICES ASSUME NEW i \in 1..Len(nb), NEW p \in nb[i]
                PROVE  IF i < Len(nb) THEN Cpl[p] = i - 1 ELSE Cpl[p] >= i - 1
    BY DEF WellPlaced
  <2>1. CASE i < n
    <3>1. p \in bs[i]
      BY <1>0, <1>1, <2>1, NextBucketAt
    <3>. QED BY <1>0, <1>1, <2>1, <3>1 DEF WellPlaced
  <2>2. CASE ~(i < n)
    BY <1>0, <1>1, <2>2, NextBucketAt
  <2>. QED BY <2>1, <2>2
<1>4. nb[Len(nb)] = Deeper(bs[n], top)
  <2>1. nb[top + 2] = {p \in bs[n] : Cpl[p] >= top + 1}
    BY <1>0, <1>1, NextBucketAt
  <2>. QED BY <1>1, <1>2, <2>1 DEF Deeper
<1>5. WithinCapacity(nb)
  <2>. SUFFICES ASSUME NEW i \in 1..Len(nb)
                PROVE  IsFiniteSet(nb[i]) /\ Cardinality(nb[i]) <= BucketSize
    BY DEF WithinCapacity
  <2>1. CASE i < n
    <3>1. nb[i] = bs[i]
      BY <1>0, <1>1, <2>1, NextBucketAt
    <3>. QED BY <1>0, <2>1, <3>1 DEF WithinCapacity
  <2>2. CASE ~(i < n)
    <3>1. nb[i] \in SUBSET bs[n]
      BY <1>0, <1>1, <2>2, NextBucketAt
    <3>. HIDE DEF nb, n
    <3>2. /\ IsFiniteSet(nb[i])
          /\ Cardinality(nb[i]) <= Cardinality(bs[n])
          /\ Cardinality(nb[i]) \in Nat /\ Cardinality(bs[n]) \in Nat
      BY <1>0, <3>1, FS_Subset, FS_CardinalityType
    <3>. QED BY <1>0, <3>2, BucketSizeAssumption
  <2>. QED BY <2>1, <2>2
<1>. QED BY <1>0, <1>1, <1>3, <1>4, <1>5

-----------------------------------------------------------------------------
(* Adding a peer.                                                          *)

LEMMA PushTable ==
  ASSUME NEW bs, IsTable(bs), WellPlaced(bs), NEW p \in Peer
  PROVE  LET new == Push(bs, p)  id == BucketIdForPeer(bs, p)
         IN  /\ IsTable(new)
             /\ Len(new) = Len(bs)
             /\ BucketIdForPeer(new, p) = id
             /\ WellPlaced(new)
             /\ Peers(new) = Peers(bs) \cup {p}
             /\ \A i \in 1..Len(bs) :
                   new[i] = IF i = id THEN bs[i] \cup {p} ELSE bs[i]
<1>. DEFINE new == Push(bs, p)
            id == BucketIdForPeer(bs, p)
<1>1. id \in 1..Len(bs) /\ Len(bs) \in Nat /\ bs[id] \cup {p} \in SUBSET Peer
  BY BucketIdInTable DEF IsTable
<1>2. new = [bs EXCEPT ![id] = bs[id] \cup {p}]
  BY DEF Push
<1>3. /\ new \in Seq(SUBSET Peer)
      /\ Len(new) = Len(bs)
      /\ \A i \in 1..Len(bs) :
            new[i] = IF i = id THEN bs[id] \cup {p} ELSE bs[i]
  <2>. HIDE DEF new, id
  <2>. QED BY <1>1, <1>2, ExceptSeq DEF IsTable
<1>4. BucketIdForPeer(new, p) = id
  BY <1>3 DEF BucketIdForPeer
<1>5. WellPlaced(new)
  <2>. SUFFICES ASSUME NEW i \in 1..Len(bs), NEW q \in new[i]
                PROVE  IF i < Len(bs) THEN Cpl[q] = i - 1 ELSE Cpl[q] >= i - 1
    BY <1>3 DEF WellPlaced
  <2>1. CASE q \in bs[i]
    BY <2>1 DEF WellPlaced
  <2>2. CASE q \notin bs[i]
    <3>1. q = p /\ i = id
      BY <1>3, <2>2
    <3>. QED BY <1>1, <3>1, CplType DEF BucketIdForPeer
  <2>. QED BY <2>1, <2>2
<1>6. Peers(new) = Peers(bs) \cup {p}
  <2>. HIDE DEF new, id
  <2>1. \A q : (\E i \in 1..Len(bs) : q \in new[i])
                   <=> (\E i \in 1..Len(bs) : q \in bs[i]) \/ q = p
    BY <1>1, <1>3
  <2>. QED BY <1>3, <2>1 DEF Peers, Buckets
<1>. QED BY <1>3, <1>4, <1>5, <1>6 DEF IsTable

-----------------------------------------------------------------------------
(* Removing a peer.                                                        *)

\* What Collapse keeps: a prefix of the buckets, and after it the last one
\* with peers in it.
LEMMA CollapseShape ==
  ASSUME NEW bs, IsTable(bs), Peers(bs) # {}
  PROVE  \E last \in 1..Len(bs), next \in 0..Len(bs) :
            /\ next < last
            /\ Collapse(bs) = [i \in 1..(next + 1) |->
                                  IF i <= next THEN bs[i] ELSE bs[last]]
            /\ bs[last] # {}
            /\ \A i \in 1..Len(bs) : bs[i] # {} => i = last \/ i <= next
<1>. DEFINE full == {i \in 1..Len(bs) : bs[i] # {}}
            last == Greatest(full)
            below == {0} \cup (full \ {last})
            next == Greatest(below)
<1>1. Len(bs) \in Nat \ {0}
  BY DEF IsTable
<1>2. full \in SUBSET Int /\ IsFiniteSet(full)
  <2>1. IsFiniteSet(1..Len(bs))
    BY <1>1, FS_Interval
  <2>. QED BY <1>1, <2>1, FS_Subset
<1>3. full # {}
  BY DEF Peers, Buckets
<1>4. last \in full /\ \A i \in full : last >= i
  <2>. HIDE DEF full
  <2>. QED BY <1>2, <1>3, GreatestInSet
<1>5. below \in SUBSET Int /\ IsFiniteSet(below) /\ below # {}
  <2>. HIDE DEF full, last
  <2>1. IsFiniteSet(full \ {last})
    BY <1>2, FS_RemoveElement
  <2>2. IsFiniteSet((full \ {last}) \cup {0})
    BY <2>1, FS_AddElement
  <2>3. below = (full \ {last}) \cup {0}
    OBVIOUS
  <2>4. full \ {last} \in SUBSET Int
    BY <1>2
  <2>5. below \in SUBSET Int /\ below # {}
    BY <2>4
  <2>. HIDE DEF below
  <2>. QED BY <2>2, <2>3, <2>5
<1>6. next \in below /\ \A i \in below : next >= i
  <2>. HIDE DEF below
  <2>. QED BY <1>5, GreatestInSet
<1>7. last \in 1..Len(bs) /\ next \in 0..Len(bs) /\ next < last
  <2>. HIDE DEF last, next
  <2>. QED BY <1>1, <1>4, <1>6
<1>8. \A i \in 1..Len(bs) : bs[i] # {} => i = last \/ i <= next
  <2>. HIDE DEF last, next
  <2>. QED BY <1>6, <1>7
<1>9. Collapse(bs) = [i \in 1..(next + 1) |->
                         IF i <= next THEN bs[i] ELSE bs[last]]
  BY <1>3 DEF Collapse
<1>10. bs[last] # {}
  BY <1>4
<1>. HIDE DEF last, next
<1>. QED BY <1>7, <1>8, <1>9, <1>10

LEMMA EmptyTable ==
  /\ IsTable(<<{}>>) /\ Len(<<{}>>) = 1 /\ (<<{}>>)[1] = {}
  /\ WellPlaced(<<{}>>) /\ WithinCapacity(<<{}>>) /\ Peers(<<{}>>) = {}
<1>1. IsTable(<<{}>>) /\ Len(<<{}>>) = 1 /\ (<<{}>>)[1] = {}
  BY DEF IsTable
<1>2. WellPlaced(<<{}>>) /\ Peers(<<{}>>) = {}
  BY <1>1 DEF WellPlaced, Peers, Buckets
<1>3. WithinCapacity(<<{}>>)
  BY <1>1, FS_EmptySet, BucketSizeAssumption DEF WithinCapacity
<1>. QED BY <1>1, <1>2, <1>3

LEMMA CollapseTable ==
  ASSUME NEW bs, IsTable(bs), WellPlaced(bs)
  PROVE  LET new == Collapse(bs)
         IN  /\ IsTable(new)
             /\ Len(new) <= Len(bs)
             /\ WellPlaced(new)
             /\ Peers(new) = Peers(bs)
             /\ WithinCapacity(bs) => WithinCapacity(new)
<1>. DEFINE new == Collapse(bs)
<1>0. Len(bs) \in Nat \ {0}
  BY DEF IsTable
<1>1. CASE Peers(bs) = {}
  <2>1. new = <<{}>>
    BY <1>1 DEF Collapse, Peers, Buckets
  <2>. HIDE DEF new
  <2>. QED BY <1>0, <1>1, <2>1, EmptyTable DEF new
<1>2. CASE Peers(bs) # {}
  <2>1. PICK last \in 1..Len(bs), next \in 0..Len(bs) :
            /\ next < last
            /\ new = [i \in 1..(next + 1) |->
                         IF i <= next THEN bs[i] ELSE bs[last]]
            /\ bs[last] # {}
            /\ \A i \in 1..Len(bs) : bs[i] # {} => i = last \/ i <= next
    BY <1>2, CollapseShape
  <2>. HIDE DEF new
  <2>2. new \in [1..(next + 1) -> SUBSET Peer]
    BY <1>0, <2>1 DEF IsTable
  <2>3. new \in Seq(SUBSET Peer) /\ Len(new) = next + 1
    BY <1>0, <2>2, SeqDef, LenProperties
  <2>4. /\ \A i \in 1..next : new[i] = bs[i] /\ i < Len(bs)
        /\ new[next + 1] = bs[last]
    BY <1>0, <2>1
  <2>5. WellPlaced(new)
    <3>. SUFFICES ASSUME NEW i \in 1..(next + 1), NEW p \in new[i]
                  PROVE  IF i < next + 1 THEN Cpl[p] = i - 1 ELSE Cpl[p] >= i - 1
      BY <2>3 DEF WellPlaced
    <3>1. CASE i < next + 1
      <4>1. i \in 1..next /\ i \in 1..Len(bs) /\ i < Len(bs) /\ p \in bs[i]
        BY <1>0, <2>4, <3>1
      <4>. QED BY <3>1, <4>1 DEF WellPlaced
    <3>2. CASE i = next + 1
      <4>1. p \in bs[last] /\ p \in Peer
        BY <2>4, <3>2 DEF IsTable
      <4>2. Cpl[p] >= last - 1
        BY <4>1, CplType DEF WellPlaced
      <4>. QED BY <1>0, <2>1, <3>2, <4>1, <4>2, CplType
    <3>. QED BY <3>1, <3>2
  <2>6. Peers(new) = Peers(bs)
    <3>1. \A q : (\E i \in 1..(next + 1) : q \in new[i])
                     <=> (\E i \in 1..Len(bs) : q \in bs[i])
      <4>1. ASSUME NEW q, NEW i \in 1..(next + 1), q \in new[i]
            PROVE  \E j \in 1..Len(bs) : q \in bs[j]
        BY <1>0, <2>1, <4>1
      <4>2. ASSUME NEW q, NEW j \in 1..Len(bs), q \in bs[j]
            PROVE  \E i \in 1..(next + 1) : q \in new[i]
        <5>1. j = last \/ j \in 1..next
          BY <1>0, <2>1, <4>2
        <5>. QED BY <1>0, <2>4, <4>2, <5>1
      <4>. QED BY <4>1, <4>2
    <3>. QED BY <2>3, <3>1 DEF Peers, Buckets
  <2>7. WithinCapacity(bs) => WithinCapacity(new)
    BY <1>0, <2>1, <2>3 DEF WithinCapacity
  <2>. QED BY <1>0, <2>1, <2>3, <2>5, <2>6, <2>7 DEF IsTable, new
<1>. QED BY <1>1, <1>2

\* Taking a peer out keeps the table well placed and changes nothing else.
\* Only p's bucket may have been over the limit, and only by one: that is how
\* addPeer leaves it when it replaces a peer.
LEMMA RemoveFromTable ==
  ASSUME NEW bs, IsTable(bs), WellPlaced(bs),
         NEW p \in Peer, p \in BucketForPeer(bs, p),
         \A i \in 1..Len(bs) :
            /\ IsFiniteSet(bs[i])
            /\ Cardinality(bs[i]) <=
                  IF i = BucketIdForPeer(bs, p) THEN BucketSize + 1 ELSE BucketSize
  PROVE  LET new == RemoveFrom(bs, p)
         IN  /\ IsTable(new)
             /\ Len(new) <= Len(bs)
             /\ WellPlaced(new)
             /\ WithinCapacity(new)
             /\ Peers(new) = Peers(bs) \ {p}
<1>. DEFINE id == BucketIdForPeer(bs, p)
            mid == [bs EXCEPT ![id] = bs[id] \ {p}]
<1>1. id \in 1..Len(bs) /\ Len(bs) \in Nat /\ bs[id] \ {p} \in SUBSET Peer
  BY BucketIdInTable DEF IsTable
<1>2. RemoveFrom(bs, p) = Collapse(mid)
  BY DEF RemoveFrom
<1>3. /\ mid \in Seq(SUBSET Peer)
      /\ Len(mid) = Len(bs)
      /\ \A i \in 1..Len(bs) :
            mid[i] = IF i = id THEN bs[id] \ {p} ELSE bs[i]
  <2>. HIDE DEF id
  <2>. QED BY <1>1, ExceptSeq DEF IsTable
<1>4. IsTable(mid)
  BY <1>3 DEF IsTable
<1>. HIDE DEF mid
<1>5. WellPlaced(mid)
  BY <1>3 DEF WellPlaced
<1>6. WithinCapacity(mid)
  <2>. SUFFICES ASSUME NEW i \in 1..Len(bs)
                PROVE  IsFiniteSet(mid[i]) /\ Cardinality(mid[i]) <= BucketSize
    BY <1>3 DEF WithinCapacity
  <2>1. CASE i # id
    BY <1>3, <2>1
  <2>2. CASE i = id
    <3>1. IsFiniteSet(bs[id]) /\ Cardinality(bs[id]) <= BucketSize + 1 /\ p \in bs[id]
      BY <1>1 DEF BucketForPeer
    <3>2. /\ IsFiniteSet(bs[id] \ {p})
          /\ Cardinality(bs[id] \ {p}) = Cardinality(bs[id]) - 1
          /\ Cardinality(bs[id]) \in Nat
      BY <3>1, FS_RemoveElement, FS_CardinalityType
    <3>3. mid[i] = bs[id] \ {p}
      BY <1>3, <2>2
    <3>. HIDE DEF id
    <3>. QED BY <3>1, <3>2, <3>3, BucketSizeAssumption
  <2>. QED BY <2>1, <2>2
<1>7. Peers(mid) = Peers(bs) \ {p}
  <2>1. \A i \in 1..Len(bs) : p \in bs[i] => i = id
    BY PlacedById
  <2>. HIDE DEF id
  <2>2. \A q : (\E i \in 1..Len(bs) : q \in mid[i])
                   <=> (\E i \in 1..Len(bs) : q \in bs[i]) /\ q # p
    BY <1>1, <1>3, <2>1
  <2>3. \A q : q \in Peers(mid) <=> \E i \in 1..Len(bs) : q \in mid[i]
    BY <1>3 DEF Peers, Buckets
  <2>4. \A q : q \in Peers(bs) <=> \E i \in 1..Len(bs) : q \in bs[i]
    BY DEF Peers, Buckets
  <2>. QED BY <2>2, <2>3, <2>4
<1>. QED BY <1>2, <1>3, <1>4, <1>5, <1>6, <1>7, CollapseTable

-----------------------------------------------------------------------------
(* What addPeer and removePeer make of a table.                            *)

GoodTable(bs) ==
    /\ IsTable(bs) /\ WellPlaced(bs) /\ WithinCapacity(bs)
    /\ Len(bs) <= MaxCpl + 2

\* The buckets addPeer looks into: as good a table as before, with the same
\* peers in it, where a bucket without room is never the last.
Unfolded(bs, p) ==
    IF ~HasRoom(bs, p) /\ InLastBucket(bs, p) THEN NextBucket(bs) ELSE bs

LEMMA UnfoldedTable ==
  ASSUME NEW buckets, GoodTable(buckets), NEW p \in Peer
  PROVE  LET bs == Unfolded(buckets, p)
         IN  /\ GoodTable(bs)
             /\ Peers(bs) = Peers(buckets)
             /\ ~HasRoom(bs, p) => BucketIdForPeer(bs, p) < Len(bs)
<1>. DEFINE n == Len(buckets)
            bs == Unfolded(buckets, p)
<1>1. /\ IsTable(buckets) /\ WellPlaced(buckets) /\ WithinCapacity(buckets)
      /\ Len(buckets) <= MaxCpl + 2
  BY DEF GoodTable
<1>2. /\ n \in Nat \ {0} /\ MaxCpl \in Nat
      /\ IsFiniteSet(buckets[n]) /\ Cardinality(buckets[n]) \in Nat
      /\ buckets[n] \in SUBSET Peer
  BY <1>1, CplAssumption, FS_CardinalityType DEF IsTable, WithinCapacity
<1>3. CASE ~HasRoom(buckets, p) /\ InLastBucket(buckets, p)
  <2>1. bs = NextBucket(buckets)
    BY <1>3 DEF Unfolded
  <2>2. Cardinality(buckets[n]) >= BucketSize
    BY <1>2, <1>3, BucketSizeAssumption
    DEF HasRoom, InLastBucket, BucketForPeer
  <2>3. PICK q \in buckets[n] : TRUE
    <3>1. buckets[n] # {}
      BY <1>2, <2>2, FS_EmptySet, BucketSizeAssumption
    <3>. QED BY <3>1
  <2>4. n - 1 <= MaxCpl
    <3>1. Cpl[q] >= n - 1 /\ q \in Peer
      BY <1>1, <1>2, <2>3 DEF WellPlaced
    <3>. QED BY <1>2, <3>1, CplType
  <2>5. IsTable(bs) /\ Peers(bs) = Peers(buckets)
    BY <1>1, <1>2, <2>1, NextBucketLen, NextBucketKeepsPeers
  <2>6. /\ WellPlaced(bs) /\ WithinCapacity(bs)
        /\ Cardinality(bs[Len(bs)]) < BucketSize
        /\ Len(bs) <= MaxCpl + 2
    BY <1>1, <2>1, <2>4, NextBucketWellPlaced
  <2>. HIDE DEF bs
  <2>7. ~HasRoom(bs, p) => BucketIdForPeer(bs, p) < Len(bs)
    <3>1. BucketIdForPeer(bs, p) \in 1..Len(bs) /\ Len(bs) \in Nat
      BY <2>5, BucketIdInTable
    <3>. QED BY <2>6, <3>1 DEF HasRoom, BucketForPeer
  <2>. QED BY <2>5, <2>6, <2>7 DEF bs, GoodTable
<1>4. CASE ~(~HasRoom(buckets, p) /\ InLastBucket(buckets, p))
  <2>1. bs = buckets
    BY <1>4 DEF Unfolded
  <2>2. BucketIdForPeer(buckets, p) \in 1..Len(buckets)
    BY <1>1, BucketIdInTable
  <2>. QED BY <1>1, <1>2, <1>4, <2>1, <2>2 DEF InLastBucket, GoodTable
<1>. QED BY <1>3, <1>4

\* Where addPeer finds room.
LEMMA PushedTable ==
  ASSUME NEW bs, GoodTable(bs), NEW p \in Peer, HasRoom(bs, p)
  PROVE  GoodTable(Push(bs, p)) /\ Peers(Push(bs, p)) = Peers(bs) \cup {p}
<1>. DEFINE id == BucketIdForPeer(bs, p)
            new == Push(bs, p)
<1>1. /\ IsTable(bs) /\ WellPlaced(bs) /\ WithinCapacity(bs)
      /\ Len(bs) <= MaxCpl + 2
  BY DEF GoodTable
<1>2. id \in 1..Len(bs)
  BY <1>1, BucketIdInTable
<1>. HIDE DEF id, new
<1>3. /\ IsTable(new) /\ WellPlaced(new) /\ Len(new) = Len(bs)
      /\ Peers(new) = Peers(bs) \cup {p}
      /\ \A i \in 1..Len(bs) :
            new[i] = IF i = id THEN bs[i] \cup {p} ELSE bs[i]
  BY <1>1, PushTable DEF id, new
<1>4. WithinCapacity(new)
  <2>. SUFFICES ASSUME NEW i \in 1..Len(bs)
                PROVE  IsFiniteSet(new[i]) /\ Cardinality(new[i]) <= BucketSize
    BY <1>3 DEF WithinCapacity
  <2>1. CASE i # id
    BY <1>1, <1>3, <2>1 DEF WithinCapacity
  <2>2. CASE i = id
    <3>1. IsFiniteSet(bs[id]) /\ Cardinality(bs[id]) < BucketSize
      BY <1>1, <1>2 DEF WithinCapacity, HasRoom, BucketForPeer, id
    <3>2. /\ IsFiniteSet(bs[id] \cup {p})
          /\ Cardinality(bs[id] \cup {p}) <= Cardinality(bs[id]) + 1
          /\ Cardinality(bs[id]) \in Nat
          /\ Cardinality(bs[id] \cup {p}) \in Nat
      BY <3>1, AddElementBound
    <3>3. new[i] = bs[id] \cup {p}
      BY <1>3, <2>2
    <3>. QED BY <3>1, <3>2, <3>3, BucketSizeAssumption
  <2>. QED BY <2>1, <2>2
<1>. QED BY <1>1, <1>3, <1>4 DEF GoodTable, new

\* Where addPeer replaces a peer: the bucket holds one too many in between.
LEMMA ReplacedTable ==
  ASSUME NEW bs, GoodTable(bs), NEW p \in Peer, p \notin Peers(bs),
         NEW v \in BucketForPeer(bs, p)
  PROVE  LET mid == Push(bs, p)  new == RemoveFrom(mid, v)
         IN  /\ GoodTable(new)
             /\ Peers(new) = (Peers(bs) \cup {p}) \ {v}
             /\ v \in Peers(bs) /\ v # p
             /\ IsTable(mid) /\ WellPlaced(mid)
             /\ BucketIdForPeer(mid, v) = BucketIdForPeer(bs, p)
<1>. DEFINE id == BucketIdForPeer(bs, p)
            mid == Push(bs, p)
<1>1. /\ IsTable(bs) /\ WellPlaced(bs) /\ WithinCapacity(bs)
      /\ Len(bs) <= MaxCpl + 2 /\ Len(bs) \in Nat
  BY DEF IsTable, GoodTable
<1>2. v \in bs[id] /\ id \in 1..Len(bs)
  BY <1>1, BucketIdInTable DEF BucketForPeer
<1>3. v \in Peers(bs) /\ v # p /\ v \in Peer
  BY <1>1, <1>2 DEF Peers, Buckets, IsTable
<1>. HIDE DEF id, mid
<1>5. /\ IsTable(mid) /\ WellPlaced(mid) /\ Len(mid) = Len(bs)
      /\ Peers(mid) = Peers(bs) \cup {p}
      /\ \A i \in 1..Len(bs) :
            mid[i] = IF i = id THEN bs[i] \cup {p} ELSE bs[i]
  BY <1>1, PushTable DEF id, mid
<1>6. v \in mid[id] /\ id \in 1..Len(mid)
  BY <1>2, <1>5
<1>7. BucketIdForPeer(mid, v) = id
  BY <1>5, <1>6, PlacedById
<1>8. ASSUME NEW i \in 1..Len(mid)
      PROVE  /\ IsFiniteSet(mid[i])
             /\ Cardinality(mid[i]) <=
                   IF i = BucketIdForPeer(mid, v) THEN BucketSize + 1 ELSE BucketSize
  <2>1. CASE i # id
    BY <1>1, <1>5, <1>7, <2>1 DEF WithinCapacity
  <2>2. CASE i = id
    <3>1. IsFiniteSet(bs[id]) /\ Cardinality(bs[id]) <= BucketSize
      BY <1>1, <1>2 DEF WithinCapacity
    <3>2. /\ IsFiniteSet(bs[id] \cup {p})
          /\ Cardinality(bs[id] \cup {p}) <= Cardinality(bs[id]) + 1
          /\ Cardinality(bs[id]) \in Nat
          /\ Cardinality(bs[id] \cup {p}) \in Nat
      BY <3>1, AddElementBound
    <3>3. mid[i] = bs[id] \cup {p}
      BY <1>2, <1>5, <2>2
    <3>. QED BY <1>7, <2>2, <3>1, <3>2, <3>3, BucketSizeAssumption
  <2>. QED BY <2>1, <2>2
<1>9. v \in BucketForPeer(mid, v)
  BY <1>6, <1>7 DEF BucketForPeer
<1>10. LET new == RemoveFrom(mid, v)
       IN  /\ IsTable(new) /\ WellPlaced(new) /\ WithinCapacity(new)
           /\ Len(new) <= Len(mid) /\ Peers(new) = Peers(mid) \ {v}
  BY <1>3, <1>5, <1>8, <1>9, RemoveFromTable
<1>11. Len(RemoveFrom(mid, v)) \in Nat /\ MaxCpl \in Nat
  BY <1>10, CplAssumption DEF IsTable
<1>. QED BY <1>1, <1>3, <1>5, <1>7, <1>10, <1>11 DEF GoodTable, mid, id

LEMMA RemovedTable ==
  ASSUME NEW bs, GoodTable(bs), NEW p \in Peer, p \in BucketForPeer(bs, p)
  PROVE  /\ GoodTable(RemoveFrom(bs, p))
         /\ Peers(RemoveFrom(bs, p)) = Peers(bs) \ {p}
<1>1. /\ IsTable(bs) /\ WellPlaced(bs) /\ WithinCapacity(bs)
      /\ Len(bs) <= MaxCpl + 2 /\ Len(bs) \in Nat /\ MaxCpl \in Nat
  BY CplAssumption DEF IsTable, GoodTable
<1>2. ASSUME NEW i \in 1..Len(bs)
      PROVE  /\ IsFiniteSet(bs[i])
             /\ Cardinality(bs[i]) <=
                   IF i = BucketIdForPeer(bs, p) THEN BucketSize + 1 ELSE BucketSize
  <2>1. IsFiniteSet(bs[i]) /\ Cardinality(bs[i]) <= BucketSize
    BY <1>1 DEF WithinCapacity
  <2>2. Cardinality(bs[i]) \in Nat
    BY <2>1, FS_CardinalityType
  <2>. QED BY <2>1, <2>2, BucketSizeAssumption
<1>3. LET new == RemoveFrom(bs, p)
      IN  /\ IsTable(new) /\ WellPlaced(new) /\ WithinCapacity(new)
          /\ Len(new) <= Len(bs) /\ Peers(new) = Peers(bs) \ {p}
  BY <1>1, <1>2, RemoveFromTable
<1>4. Len(RemoveFrom(bs, p)) \in Nat
  BY <1>3 DEF IsTable
<1>. QED BY <1>1, <1>3, <1>4 DEF GoodTable
=============================================================================
