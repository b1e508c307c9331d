------------------------------ MODULE KBuckets ------------------------------
(***************************************************************************)
(* The bucket structure of the routing table (table.go, bucket.go) and the *)
(* operations that reshape it.                                             *)
(*                                                                         *)
(* A table is a sequence of buckets, a bucket is a set of peers.  The code *)
(* numbers buckets from 0, the sequence from 1: the code's bucket i is     *)
(* bs[i + 1].                                                              *)
(*                                                                         *)
(* The two loops of the code (the recursion of nextBucket, the for loop of *)
(* removePeer) are given by what they compute.  ListTable.tla has them as  *)
(* the code writes them, over ordered lists, and is checked against this.  *)
(*                                                                         *)
(* A definition whose name has an underscore is not part of the model: it  *)
(* is a faulty version of the definition that follows it, kept to show     *)
(* that the properties can tell the two apart.                             *)
(***************************************************************************)
EXTENDS PeerCpl, Sequences, FiniteSets

CONSTANT BucketSize  \* RoutingTable.bucketsize

\* With a bucket size of 0 nextBucket would never stop unfolding.
ASSUME BucketSizeAssumption == BucketSize \in Nat \ {0}

Least(S) == CHOOSE x \in S : \A y \in S : x <= y

Greatest(S) == CHOOSE x \in S : \A y \in S : x >= y

Buckets(bs) == {bs[i] : i \in 1..Len(bs)}

Peers(bs) == UNION Buckets(bs)

\* Every bucket but the last holds peers of exactly its own Cpl, the last one
\* the peers that are closer than that.
WellPlaced(bs) ==
    \A i \in 1..Len(bs) : \A p \in bs[i] :
        IF i < Len(bs) THEN Cpl[p] = i - 1 ELSE Cpl[p] >= i - 1

WithinCapacity(bs) ==
    \A i \in 1..Len(bs) : /\ IsFiniteSet(bs[i])
                          /\ Cardinality(bs[i]) <= BucketSize

-----------------------------------------------------------------------------
\* A peer whose Cpl has no bucket of its own yet is in the last, shared one.
BucketIdForPeer(bs, p) ==
    IF Cpl[p] < Len(bs) THEN Cpl[p] + 1 ELSE Len(bs)

BucketForPeer(bs, p) == bs[BucketIdForPeer(bs, p)]

InLastBucket(bs, p) == BucketIdForPeer(bs, p) = Len(bs)

HasRoom_OffByOne(bs, p) == Cardinality(BucketForPeer(bs, p)) <= BucketSize

HasRoom(bs, p) == Cardinality(BucketForPeer(bs, p)) < BucketSize

Push(bs, p) ==
    [bs EXCEPT ![BucketIdForPeer(bs, p)] = @ \cup {p}]

-----------------------------------------------------------------------------
\* What bucket.split moves out of bucket b.
Deeper(b, c) == {p \in b : Cpl[p] > c}

\* nextBucket splits the last bucket at its own number, and then the bucket
\* it has just created, until the newest one has room.  UnfoldTo is the number
\* of the last bucket that is split.
UnfoldTo_Once(bs) == Len(bs) - 1

UnfoldTo(bs) ==
    LET n == Len(bs)
    IN  Least({c \in (n - 1)..(n + MaxCpl) :
                  Cardinality(Deeper(bs[n], c)) < BucketSize})

NextBucket(bs) ==
    LET n    == Len(bs)
        last == bs[n]
        top  == UnfoldTo(bs)
        \* the peers that the splits before it move into bucket i
        Reaching(i) == IF i = n THEN last ELSE Deeper(last, i - 2)
    IN  [i \in 1..(top + 2) |->
            IF i < n THEN bs[i]
            ELSE IF i < top + 2 THEN Reaching(i) \ Deeper(last, i - 1)
            ELSE Reaching(i)]

-----------------------------------------------------------------------------
\* The loop of removePeer: drop the last bucket while it is empty, then the
\* one before the last while that is empty.  What is left is the deepest
\* bucket with peers in it, below the next deepest one.
Collapse_OnlyBucketToo(bs) == IF Peers(bs) = {} THEN <<>> ELSE bs

Collapse_HolesToo(bs) ==
    IF Peers(bs) = {} THEN <<{}>> ELSE SelectSeq(bs, LAMBDA b : b # {})

Collapse(bs) ==
    LET full == {i \in 1..Len(bs) : bs[i] # {}}
        last == Greatest(full)
        next == Greatest({0} \cup (full \ {last}))
    IN  IF full = {} THEN <<{}>>
        ELSE [i \in 1..(next + 1) |-> IF i <= next THEN bs[i] ELSE bs[last]]

RemoveFrom(bs, p) ==
    Collapse([bs EXCEPT ![BucketIdForPeer(bs, p)] = @ \ {p}])
=============================================================================
