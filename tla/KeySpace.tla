------------------------------ MODULE KeySpace ------------------------------
(***************************************************************************)
(* The XOR key space (util.go, keyspace/xor.go).  An ID is a byte slice in *)
(* the code.  Here it is the function of its bits, most significant first: *)
(* comparing byte slices byte by byte is comparing them bit by bit, and    *)
(* the zero bytes and leading zero bits that ZeroPrefixLen counts are the  *)
(* bits before the first one.                                              *)
(***************************************************************************)
EXTENDS Integers

CONSTANT IdBits  \* length of an ID in bits

ASSUME IdBitsAssumption == IdBits \in Nat \ {0}

Bit == {0, 1}

ID == [1..IdBits -> Bit]

Xor(a, b) == [i \in 1..IdBits |-> IF a[i] = b[i] THEN 0 ELSE 1]

\* keyspace.ZeroPrefixLen
ZeroPrefixLen(id) ==
    CHOOSE n \in 0..IdBits : /\ \A i \in 1..n : id[i] = 0
                             /\ n < IdBits => id[n + 1] = 1

CommonPrefixLen(a, b) == ZeroPrefixLen(Xor(a, b))

\* ID.less: the first bit in which the two differ decides.
Less(a, b) ==
    \E i \in 1..IdBits : /\ a[i] < b[i]
                         /\ \A j \in 1..(i - 1) : a[j] = b[j]

\* Is a closer to target than b is?  Used for IDs as util.go's Closer is for
\* peers.
CloserTo(target, a, b) == Less(Xor(target, a), Xor(target, b))
=============================================================================
