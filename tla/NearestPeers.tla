---------------------------- MODULE NearestPeers ----------------------------
(***************************************************************************)
(* The lookups of the routing table: NearestPeers, NearestPeer and Find of *)
(* table.go, and the sorter they use (sorting.go).  A peer now has an ID,  *)
(* and Cpl is no longer any function but the prefix it shares with Local.  *)
(*                                                                         *)
(* NearestPeers does not look at the whole table.  It gathers buckets      *)
(* around the one the target leads to until it has enough peers, and what  *)
(* it leaves out must be farther away than everything it took: that is so  *)
(* only in a table whose peers are where their Cpl says.                   *)
(***************************************************************************)
EXTENDS RoutingTable, KeyDistance

CONSTANTS
    Local,   \* rt.local
    DhtId,   \* ConvertPeerID(p), for each peer p
    Count,   \* the numbers of peers that callers ask for
    NoPeer   \* the empty peer.ID

\* IDs are SHA-256 hashes: two peers do not have the same one.
ASSUME DhtIdAssumption ==
    /\ IdBits = MaxCpl
    /\ Local \in ID
    /\ DhtId \in [Peer -> ID]
    /\ \A p, q \in Peer : DhtId[p] = DhtId[q] => p = q
    /\ \A p \in Peer : Cpl[p] = CommonPrefixLen(DhtId[p], Local)

ASSUME LookupAssumption == Count \subseteq Nat /\ NoPeer \notin Peer

Nearer(target, p, q) == CloserTo(target, DhtId[p], DhtId[q])

-----------------------------------------------------------------------------
\* peerDistanceSorter.sort, SortClosestPeers: a peer's place is given by the
\* number of peers that are nearer than it.
ByDistance(S, target) ==
    [r \in 1..Cardinality(S) |->
        CHOOSE p \in S : Cardinality({q \in S : Nearer(target, q, p)}) = r - 1]

TargetBucket(target) ==
    LET cpl == CommonPrefixLen(target, Local)
    IN  IF cpl < Len(buckets) THEN cpl + 1 ELSE Len(buckets)

From(i) == UNION {buckets[j] : j \in i..Len(buckets)}

\* The target's bucket; if it is short, all the buckets to its right; if that
\* is still short, the buckets to its left, one by one, until there are count.
Gathered_LeftFirst(target, count) ==
    LET m     == TargetBucket(target)
        left  == {i \in 1..(m - 1) :
                     Cardinality(UNION {buckets[j] : j \in (i + 1)..m}) < count}
    IN  UNION {buckets[i] : i \in {m} \cup left}

Gathered(target, count) ==
    LET m     == TargetBucket(target)
        right == IF Cardinality(buckets[m]) < count
                 THEN (m + 1)..Len(buckets) ELSE {}
        left  == {i \in 1..(m - 1) : Cardinality(From(i + 1)) < count}
    IN  UNION {buckets[i] : i \in {m} \cup right \cup left}

NearestPeers(target, count) ==
    LET sorted == ByDistance(Gathered(target, count), target)
    IN  IF count < Len(sorted) THEN SubSeq(sorted, 1, count) ELSE sorted

NearestPeer(target) ==
    LET nearest == NearestPeers(target, 1)
    IN  IF nearest = <<>> THEN NoPeer ELSE nearest[1]

Find_Unchecked(p) == NearestPeer(DhtId[p])

Find(p) ==
    LET nearest == NearestPeers(DhtId[p], 1)
    IN  IF nearest = <<>> \/ nearest[1] # p THEN NoPeer ELSE p

-----------------------------------------------------------------------------
\* s holds the count nearest of all the peers in the table, nearest first.
AreNearest(s, target, count) ==
    LET n == Cardinality(TablePeers)
    IN  /\ Len(s) = (IF count < n THEN count ELSE n)
        /\ \A i \in 1..Len(s) :
              /\ s[i] \in TablePeers
              /\ \A p \in TablePeers :
                    Nearer(target, p, s[i]) <=> \E j \in 1..(i - 1) : s[j] = p

(***************************************************************************)
(* "NearestPeers returns a list of the 'count' closest peers to the given  *)
(* ID": whatever has been unfolded or collapsed, and whichever buckets it  *)
(* gathers, the answer is the one a search of the whole table would give.  *)
(***************************************************************************)
NearestPeersExact ==
    \A target \in ID, count \in Count :
        AreNearest(NearestPeers(target, count), target, count)

(***************************************************************************)
(* Find, which asks only for the one peer nearest to the ID, finds a peer  *)
(* if and only if it is in the table.                                      *)
(***************************************************************************)
FindExact ==
    \A p \in Peer : Find(p) = IF p \in TablePeers THEN p ELSE NoPeer

(***************************************************************************)
(* SortClosestPeers, which compares byte slices, and SortByDistance of the *)
(* keyspace package, which compares numbers, sort the peers of the table   *)
(* in one way, for every target.                                           *)
(***************************************************************************)
SortersAgree ==
    \A target \in ID :
        LET peers == ByDistance(TablePeers, target)
        IN  [r \in DOMAIN peers |-> DhtId[peers[r]]]
                = SortByDistance(target, {DhtId[p] : p \in TablePeers})
=============================================================================
