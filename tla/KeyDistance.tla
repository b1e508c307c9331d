---------------------------- MODULE KeyDistance ----------------------------
(***************************************************************************)
(* The keyspace package on its own (keyspace.go, xor.go): keys sorted by a *)
(* distance that is a number.  The routing table sorts by other means, but *)
(* the callers of both packages rely on one order.  There is one key space *)
(* only, so that the panics of Key's methods are out of reach.             *)
(***************************************************************************)
EXTENDS KeySpace, FiniteSets

Distance_LastByteFirst(k1, k2) ==
    LET dist[i \in 0..IdBits] ==
            IF i = 0 THEN 0 ELSE 2 * dist[i - 1] + Xor(k1, k2)[IdBits + 1 - i]
    IN  dist[IdBits]

\* big.Int.SetBytes: the first byte is the most significant one.
Distance(k1, k2) ==
    LET dist[i \in 0..IdBits] ==
            IF i = 0 THEN 0 ELSE 2 * dist[i - 1] + Xor(k1, k2)[i]
    IN  dist[IdBits]

\* sort.Sort of a copy.  Two keys at one distance are one and the same, so the
\* sorter, which is not stable, has no choice.
SortByDistance(center, toSort) ==
    [r \in 1..Cardinality(toSort) |->
        CHOOSE k \in toSort :
            Cardinality({l \in toSort : Distance(center, l) < Distance(center, k)}) = r - 1]
=============================================================================
