------------------------- MODULE PeerDiversity_proofs -------------------------
(***************************************************************************)
(* Proofs about peer diversity: how addresses are grouped (IPGrouping.tla),*)
(* the filter that counts groups (DiversityFilter.tla), and the routing    *)
(* table with its filter (FilteredTable.tla), for any peers, Cpls, groups, *)
(* lists of addresses and limit.                                           *)
(***************************************************************************)
EXTENDS FilteredTable, IPGrouping, RoutingTable_proofs

-----------------------------------------------------------------------------
(* The filter.                                                             *)

\* The tracked peers of a Cpl that have an address in a group.
Holders(c, k) == {p \in Tracked : Cpl[p] = c /\ k \in Range(peerGroups[p])}

FilterTypeOK ==
    /\ IsFiniteSet(Tracked)
    /\ Tracked \subseteq Peer
    /\ peerGroups \in [Tracked -> Seq(GroupKey)]
    /\ \A p \in Tracked : peerGroups[p] # <<>>
    /\ wlpeers \subseteq Peer
    /\ count \in [0..MaxCpl -> [GroupKey -> Int]]
    /\ cplPeerGroups = [c \in DOMAIN cplPeerGroups |-> cplPeerGroups[c]]

\* Remove deletes in both maps, so that StatsMatchGroups is inductive with
\* the types alone.  PeersPerGroupLimited needs the counts: Allow looks at
\* the count of a group, not at the peers in it.
FilterIInv ==
    /\ FilterTypeOK
    /\ CountsMatchGroups
    /\ StatsMatchGroups
    /\ PeersPerGroupLimited

-----------------------------------------------------------------------------
(* Facts about counting.                                                   *)

\* A peer's records at the places of S after the first n, as many as S has.
Records(p, n, S) == {<<p, n + i>> : i \in S}

LEMMA RecordsOfPeer ==
  ASSUME NEW p, NEW n \in Nat, NEW S \in SUBSET Nat, IsFiniteSet(S)
  PROVE  /\ IsFiniteSet(Records(p, n, S))
         /\ Cardinality(Records(p, n, S)) = Cardinality(S)
<1>. DEFINE T == Records(p, n, S)
            f == [i \in S |-> <<p, n + i>>]
<1>1. f \in Bijection(S, T)
  <2>1. f \in Surjection(S, T)
    BY DEF Surjection, Records
  <2>2. f \in Injection(S, T)
    <3>1. ASSUME NEW a \in S, NEW b \in S, f[a] = f[b] PROVE a = b
      <4>1. n + a = n + b /\ a \in Nat /\ b \in Nat
        BY <3>1
      <4>. QED BY <4>1
    <3>2. f \in [S -> T]
      BY DEF Records
    <3>. QED BY <3>1, <3>2 DEF Injection, IsInjective
  <2>. QED BY <2>1, <2>2 DEF Bijection
<1>2. ExistsBijection(S, T)
  BY <1>1 DEF ExistsBijection
<1>. HIDE DEF T
<1>3. IsFiniteSet(T) /\ Cardinality(T) = Cardinality(S)
  BY <1>2, FS_Bijection
<1>. QED BY <1>3 DEF T

LEMMA PositionsFinite ==
  ASSUME NEW k, NEW groups \in Seq(GroupKey)
  PROVE  /\ Positions(k, groups) \in SUBSET Nat
         /\ IsFiniteSet(Positions(k, groups))
         /\ Occurrences(k, groups) \in Nat
<1>1. DOMAIN groups = 1..Len(groups) /\ Len(groups) \in Nat
  OBVIOUS
<1>2. IsFiniteSet(1..Len(groups))
  BY <1>1, FS_Interval
<1>3. Positions(k, groups) \in SUBSET (1..Len(groups))
  BY <1>1 DEF Positions
<1>4. IsFiniteSet(Positions(k, groups))
  BY <1>2, <1>3, FS_Subset
<1>. QED BY <1>3, <1>4, FS_CardinalityType DEF Occurrences

LEMMA DisjointUnion ==
  ASSUME NEW A, NEW B, IsFiniteSet(A), IsFiniteSet(B), A \cap B = {}
  PROVE  /\ IsFiniteSet(A \cup B)
         /\ Cardinality(A \cup B) = Cardinality(A) + Cardinality(B)
<1>1. Cardinality(A \cap B) = 0
  BY FS_EmptySet
<1>. QED BY <1>1, FS_Union, FS_CardinalityType

-----------------------------------------------------------------------------
(* What a step does to the groups of a peer and to the records.            *)

LEMMA AcceptedAddresses ==
  ASSUME NEW p \in Peer, NEW addrs \in AddressList, Acceptable(p, addrs)
  PROVE  addrs \in Seq(GroupKey) /\ addrs # <<>>
<1>1. addrs \in Seq(GroupKey \cup {NoKey})
  BY AddressListAssumption
<1>2. \A i \in 1..Len(addrs) : addrs[i] \in GroupKey
  BY <1>1 DEF Acceptable, Good
<1>3. addrs \in [1..Len(addrs) -> GroupKey] /\ Len(addrs) \in Nat
  BY <1>1, <1>2
<1>. QED BY <1>3 DEF Acceptable

LEMMA EntryType ==
  ASSUME FilterTypeOK, NEW p \in Peer
  PROVE  Entry(peerGroups, p) \in Seq(GroupKey)
BY DEF FilterTypeOK, Tracked, Entry

LEMMA AcceptGroups ==
  ASSUME FilterTypeOK, NEW p \in Peer, NEW addrs \in AddressList, Accept(p, addrs)
  PROVE  /\ Tracked' = Tracked \cup {p}
         /\ peerGroups'[p] = Entry(peerGroups, p) \o addrs
         /\ peerGroups'[p] \in Seq(GroupKey) /\ peerGroups'[p] # <<>>
         /\ \A q \in Tracked \ {p} : peerGroups'[q] = peerGroups[q]
<1>1. addrs \in Seq(GroupKey) /\ addrs # <<>>
  BY AcceptedAddresses DEF Accept
<1>2. Entry(peerGroups, p) \in Seq(GroupKey)
  BY EntryType
<1>3. /\ Entry(peerGroups, p) \o addrs \in Seq(GroupKey)
      /\ Entry(peerGroups, p) \o addrs # <<>>
  BY <1>1, <1>2
<1>. QED BY <1>3 DEF Accept, With, Tracked

LEMMA RemoveGroups ==
  ASSUME NEW p, FilterRemove(p)
  PROVE  /\ Tracked' = Tracked \ {p}
         /\ \A q \in Tracked' : peerGroups'[q] = peerGroups[q]
BY DEF FilterRemove, Without, Tracked

LEMMA RecordedElements ==
  ASSUME NEW c, NEW k, NEW r
  PROVE  r \in Recorded(c, k) <=>
            \E p \in Tracked : /\ Cpl[p] = c
                              /\ \E i \in Positions(k, peerGroups[p]) : r = <<p, i>>
BY DEF Recorded

\* Where a key is in the groups of a peer to whom some are added.
LEMMA PositionsAppended ==
  ASSUME NEW k, NEW old \in Seq(GroupKey), NEW new \in Seq(GroupKey), NEW i
  PROVE  i \in Positions(k, old \o new) <=>
            \/ i \in Positions(k, old)
            \/ \E j \in Positions(k, new) : i = Len(old) + j
<1>. DEFINE all == old \o new
<1>1. /\ DOMAIN old = 1..Len(old) /\ DOMAIN new = 1..Len(new)
      /\ Len(old) \in Nat /\ Len(new) \in Nat
      /\ DOMAIN all = 1..(Len(old) + Len(new))
      /\ \A j \in 1..(Len(old) + Len(new)) :
            all[j] = IF j <= Len(old) THEN old[j] ELSE new[j - Len(old)]
  OBVIOUS
<1>. HIDE DEF all
<1>2. ASSUME i \in Positions(k, all), i \notin Positions(k, old)
      PROVE  \E j \in Positions(k, new) : i = Len(old) + j
  <2>1. i \in 1..(Len(old) + Len(new)) /\ i > Len(old) /\ new[i - Len(old)] = k
    BY <1>1, <1>2 DEF Positions
  <2>2. i - Len(old) \in Positions(k, new)
    BY <1>1, <2>1 DEF Positions
  <2>. QED BY <1>1, <2>1, <2>2
<1>3. ASSUME i \in Positions(k, old)
      PROVE  i \in Positions(k, all)
  BY <1>1, <1>3 DEF Positions
<1>4. ASSUME NEW j \in Positions(k, new), i = Len(old) + j
      PROVE  i \in Positions(k, all)
  <2>1. j \in 1..Len(new) /\ new[j] = k
    BY <1>1 DEF Positions
  <2>2. i \in 1..(Len(old) + Len(new)) /\ all[i] = k
    BY <1>1, <1>4, <2>1
  <2>. QED BY <1>1, <2>2 DEF Positions
<1>. QED BY <1>2, <1>3, <1>4 DEF all

\* The records that TryAdd adds for a peer of its Cpl.
Added(p, addrs, c, k) ==
    IF c = Cpl[p]
    THEN Records(p, Len(Entry(peerGroups, p)), Positions(k, addrs))
    ELSE {}

LEMMA AcceptRecords ==
  ASSUME FilterTypeOK, NEW p \in Peer, NEW addrs \in AddressList,
         Accept(p, addrs), NEW c \in 0..MaxCpl, NEW k \in GroupKey
  PROVE  /\ Recorded(c, k)' = Recorded(c, k) \cup Added(p, addrs, c, k)
         /\ Recorded(c, k) \cap Added(p, addrs, c, k) = {}
<1>. DEFINE old == Entry(peerGroups, p)
<1>1. /\ Tracked' = Tracked \cup {p}
      /\ peerGroups'[p] = old \o addrs
      /\ \A q \in Tracked \ {p} : peerGroups'[q] = peerGroups[q]
  BY AcceptGroups
<1>2. addrs \in Seq(GroupKey) /\ old \in Seq(GroupKey)
  BY AcceptedAddresses, EntryType DEF Accept
<1>3. IF p \in Tracked THEN old = peerGroups[p] ELSE Positions(k, old) = {}
  BY DEF Entry, Tracked, Positions
<1>4. \A i : i \in Positions(k, old \o addrs) <=>
                \/ i \in Positions(k, old)
                \/ \E j \in Positions(k, addrs) : i = Len(old) + j
  BY <1>2, PositionsAppended
<1>. HIDE DEF old
<1>5. ASSUME NEW r
      PROVE  r \in Recorded(c, k)' <=> r \in Recorded(c, k) \cup Added(p, addrs, c, k)
  <2>1. r \in Recorded(c, k)' <=>
          \E q \in Tracked' : /\ Cpl[q] = c
                              /\ \E i \in Positions(k, peerGroups'[q]) : r = <<q, i>>
    BY DEF Recorded, Positions
  <2>2. r \in Recorded(c, k) <=>
          \E q \in Tracked : /\ Cpl[q] = c
                             /\ \E i \in Positions(k, peerGroups[q]) : r = <<q, i>>
    BY RecordedElements
  <2>3. r \in Added(p, addrs, c, k) <=>
          c = Cpl[p] /\ \E j \in Positions(k, addrs) : r = <<p, Len(old) + j>>
    BY DEF Added, Records, old
  <2>. QED BY <1>1, <1>3, <1>4, <2>1, <2>2, <2>3
<1>6. ASSUME NEW r \in Recorded(c, k), r \in Added(p, addrs, c, k)
      PROVE  FALSE
  <2>1. PICK j \in Positions(k, addrs) : r = <<p, Len(old) + j>>
    BY <1>6 DEF Added, Records, old
  <2>2. PICK q \in Tracked : \E i \in Positions(k, peerGroups[q]) : r = <<q, i>>
    BY RecordedElements
  <2>3. p \in Tracked /\ Len(old) + j \in Positions(k, old)
    BY <1>3, <2>1, <2>2
  <2>. QED BY <1>2, <2>3 DEF Positions
<1>. QED BY <1>5, <1>6

LEMMA RemoveRecords ==
  ASSUME FilterTypeOK, NEW p \in Peer, FilterRemove(p),
         NEW c \in 0..MaxCpl, NEW k \in GroupKey
  PROVE  LET gone == IF c = Cpl[p]
                     THEN Records(p, 0, Positions(k, Entry(peerGroups, p)))
                     ELSE {}
         IN  /\ Recorded(c, k) = Recorded(c, k)' \cup gone
             /\ Recorded(c, k)' \cap gone = {}
<1>. DEFINE gone == IF c = Cpl[p]
                    THEN Records(p, 0, Positions(k, Entry(peerGroups, p)))
                    ELSE {}
<1>1. /\ Tracked' = Tracked \ {p}
      /\ \A q \in Tracked' : peerGroups'[q] = peerGroups[q]
  BY RemoveGroups
<1>2. IF p \in Tracked THEN Entry(peerGroups, p) = peerGroups[p]
      ELSE Positions(k, Entry(peerGroups, p)) = {}
  BY DEF Entry, Tracked, Positions
<1>3. \A i \in Positions(k, Entry(peerGroups, p)) : 0 + i = i
  BY EntryType, PositionsFinite
<1>4. ASSUME NEW r
      PROVE  /\ r \in Recorded(c, k) <=> r \in Recorded(c, k)' \/ r \in gone
             /\ ~(r \in Recorded(c, k)' /\ r \in gone)
  <2>1. r \in Recorded(c, k)' <=>
          \E q \in Tracked' : /\ Cpl[q] = c
                              /\ \E i \in Positions(k, peerGroups'[q]) : r = <<q, i>>
    BY DEF Recorded, Positions
  <2>2. r \in Recorded(c, k) <=>
          \E q \in Tracked : /\ Cpl[q] = c
                             /\ \E i \in Positions(k, peerGroups[q]) : r = <<q, i>>
    BY RecordedElements
  <2>3. r \in gone <=>
          c = Cpl[p] /\ \E i \in Positions(k, Entry(peerGroups, p)) : r = <<p, i>>
    BY <1>3 DEF Records
  <2>. HIDE DEF gone
  <2>. QED BY <1>1, <1>2, <2>1, <2>2, <2>3
<1>. HIDE DEF gone
<1>5. Recorded(c, k) = Recorded(c, k)' \cup gone /\ Recorded(c, k)' \cap gone = {}
  BY <1>4
<1>. QED BY <1>5 DEF gone

LEMMA RecordedFinite ==
  ASSUME FilterTypeOK, NEW c, NEW k
  PROVE  IsFiniteSet(Recorded(c, k)) /\ Cardinality(Recorded(c, k)) \in Nat
<1>. DEFINE at(p) == {<<p, i>> : i \in Positions(k, peerGroups[p])}
            S == {p \in Tracked : Cpl[p] = c}
            f == [p \in S |-> at(p)]
            T == {at(p) : p \in S}
<1>1. IsFiniteSet(S)
  <2>1. S \in SUBSET Tracked
    OBVIOUS
  <2>. QED BY <2>1, FS_Subset DEF FilterTypeOK
<1>2. f \in Surjection(S, T)
  BY DEF Surjection
<1>3. ASSUME NEW t \in T PROVE IsFiniteSet(t)
  <2>1. PICK p \in S : t = at(p)
    OBVIOUS
  <2>2. /\ Positions(k, peerGroups[p]) \in SUBSET Nat
        /\ IsFiniteSet(Positions(k, peerGroups[p]))
    BY PositionsFinite DEF FilterTypeOK
  <2>3. IsFiniteSet(Records(p, 0, Positions(k, peerGroups[p])))
    BY <2>2, RecordsOfPeer
  <2>4. \A i \in Positions(k, peerGroups[p]) : 0 + i = i
    BY <2>2
  <2>5. at(p) = Records(p, 0, Positions(k, peerGroups[p]))
    BY <2>4 DEF Records
  <2>. QED BY <2>1, <2>3, <2>5
<1>4. Recorded(c, k) = UNION T
  BY DEF Recorded
<1>. HIDE DEF S, T, f
<1>5. IsFiniteSet(T)
  BY <1>1, <1>2, FS_Surjection
<1>6. IsFiniteSet(UNION T)
  BY <1>3, <1>5, FS_UNION
<1>. QED BY <1>4, <1>6, FS_CardinalityType

\* No more peers hold a group than there are records of it.
LEMMA HoldersBounded ==
  ASSUME FilterTypeOK, NEW c, NEW k
  PROVE  /\ IsFiniteSet(Holders(c, k)) /\ Cardinality(Holders(c, k)) \in Nat
         /\ Cardinality(Holders(c, k)) <= Cardinality(Recorded(c, k))
<1>. DEFINE place(p) == CHOOSE i : i \in Positions(k, peerGroups[p])
            f == [p \in Holders(c, k) |-> <<p, place(p)>>]
<1>1. ASSUME NEW p \in Holders(c, k) PROVE f[p] \in Recorded(c, k)
  <2>1. p \in Tracked /\ Cpl[p] = c /\ k \in Range(peerGroups[p])
    BY DEF Holders
  <2>2. \E i : i \in Positions(k, peerGroups[p])
    BY <2>1 DEF Range, Positions
  <2>3. place(p) \in Positions(k, peerGroups[p])
    BY <2>2
  <2>. QED BY <2>1, <2>3, RecordedElements
<1>2. f \in Injection(Holders(c, k), Recorded(c, k))
  <2>1. \A a, b \in Holders(c, k) : f[a] = f[b] => a = b
    OBVIOUS
  <2>. QED BY <1>1, <2>1 DEF Injection, IsInjective
<1>. HIDE DEF f
<1>3. IsFiniteSet(Recorded(c, k))
  BY RecordedFinite
<1>. QED BY <1>2, <1>3, FS_Injection, FS_CardinalityType

-----------------------------------------------------------------------------
(* The inductive invariant, conjunct by conjunct.                          *)

LEMMA FilterIInvInit == FilterInit => FilterIInv
<1>. SUFFICES ASSUME FilterInit PROVE FilterIInv
  OBVIOUS
<1>1. Tracked = {} /\ DOMAIN cplPeerGroups = {}
  BY DEF FilterInit, Tracked
<1>2. FilterTypeOK
  BY <1>1, FS_EmptySet DEF FilterInit, FilterTypeOK, Tracked
<1>3. CountsMatchGroups
  <2>. SUFFICES ASSUME NEW c \in 0..MaxCpl, NEW k \in GroupKey
                PROVE  count[c][k] = Cardinality(Recorded(c, k))
    BY DEF CountsMatchGroups
  <2>1. Recorded(c, k) = {}
    BY <1>1, RecordedElements
  <2>. QED BY <2>1, FS_EmptySet DEF FilterInit
<1>4. StatsMatchGroups
  BY <1>1 DEF StatsMatchGroups
<1>5. PeersPerGroupLimited
  <2>. SUFFICES ASSUME NEW c \in 0..MaxCpl, NEW k \in GroupKey
                PROVE  Cardinality({p \in Tracked : Cpl[p] = c /\ k \in Range(peerGroups[p])})
                         <= Limit
    BY DEF PeersPerGroupLimited
  <2>. DEFINE H == {p \in Tracked : Cpl[p] = c /\ k \in Range(peerGroups[p])}
  <2>1. H = {}
    BY <1>1
  <2>. HIDE DEF H
  <2>2. Cardinality(H) <= Limit
    BY <2>1, FS_EmptySet, LimitAssumption
  <2>. QED BY <2>2 DEF H
<1>. QED BY <1>2, <1>3, <1>4, <1>5 DEF FilterIInv

LEMMA CountedEntries ==
  ASSUME FilterTypeOK, NEW cpl \in 0..MaxCpl, NEW groups \in Seq(GroupKey),
         NEW by \in Int, count' = Counted(cpl, groups, by)
  PROVE  /\ count' \in [0..MaxCpl -> [GroupKey -> Int]]
         /\ \A c \in 0..MaxCpl, k \in GroupKey :
               count'[c][k] = IF c = cpl THEN count[c][k] + by * Occurrences(k, groups)
                              ELSE count[c][k]
<1>1. \A k \in GroupKey : Occurrences(k, groups) \in Nat
  BY PositionsFinite
<1>2. count \in [0..MaxCpl -> [GroupKey -> Int]]
  BY DEF FilterTypeOK
<1>3. count' = [c \in 0..MaxCpl |->
                  IF c = cpl
                  THEN [k \in GroupKey |-> count[c][k] + by * Occurrences(k, groups)]
                  ELSE count[c]]
  BY <1>2 DEF Counted
<1>4. \A k \in GroupKey : count[cpl][k] + by * Occurrences(k, groups) \in Int
  BY <1>1, <1>2
<1>. QED BY <1>2, <1>3, <1>4

LEMMA AcceptTypeOK ==
  ASSUME FilterTypeOK, NEW p \in Peer, NEW addrs \in AddressList, Accept(p, addrs)
  PROVE  FilterTypeOK'
<1>1. /\ Tracked' = Tracked \cup {p}
      /\ peerGroups'[p] \in Seq(GroupKey) /\ peerGroups'[p] # <<>>
      /\ \A q \in Tracked \ {p} : peerGroups'[q] = peerGroups[q]
  BY AcceptGroups
<1>2. IsFiniteSet(Tracked')
  BY <1>1, FS_AddElement DEF FilterTypeOK
<1>3. peerGroups' \in [Tracked' -> Seq(GroupKey)]
  <2>1. peerGroups' = [q \in Tracked' |-> peerGroups'[q]]
    BY DEF Accept, With, Tracked
  <2>2. \A q \in Tracked' : peerGroups'[q] \in Seq(GroupKey)
    BY <1>1 DEF FilterTypeOK
  <2>. QED BY <2>1, <2>2
<1>4. \A q \in Tracked' : peerGroups'[q] # <<>>
  BY <1>1 DEF FilterTypeOK
<1>5. count' \in [0..MaxCpl -> [GroupKey -> Int]]
  <2>1. addrs \in Seq(GroupKey)
    BY AcceptedAddresses DEF Accept
  <2>2. Cpl[p] \in 0..MaxCpl
    BY CplAssumption
  <2>. QED BY <2>1, <2>2, CountedEntries DEF Accept
<1>6. cplPeerGroups' = [c \in DOMAIN cplPeerGroups' |-> cplPeerGroups'[c]]
  BY DEF Accept, With
<1>. QED
  BY <1>1, <1>2, <1>3, <1>4, <1>5, <1>6 DEF FilterTypeOK, Accept

LEMMA RemoveTypeOK ==
  ASSUME FilterTypeOK, NEW p \in Peer, FilterRemove(p)
  PROVE  FilterTypeOK'
<1>1. /\ Tracked' = Tracked \ {p}
      /\ \A q \in Tracked' : peerGroups'[q] = peerGroups[q]
  BY RemoveGroups
<1>2. IsFiniteSet(Tracked')
  BY <1>1, FS_RemoveElement DEF FilterTypeOK
<1>3. peerGroups' \in [Tracked' -> Seq(GroupKey)]
  BY <1>1 DEF FilterTypeOK, FilterRemove, Without, Tracked
<1>4. count' \in [0..MaxCpl -> [GroupKey -> Int]]
  <2>1. Entry(peerGroups, p) \in Seq(GroupKey) /\ Cpl[p] \in 0..MaxCpl
    BY EntryType, CplAssumption
  <2>. QED BY <2>1, CountedEntries DEF FilterRemove
<1>5. cplPeerGroups' = [c \in DOMAIN cplPeerGroups' |-> cplPeerGroups'[c]]
  <2>1. cplPeerGroups' = StatsWithout(p)
    BY DEF FilterRemove
  <2>. QED BY <2>1 DEF FilterTypeOK, StatsWithout, Without
<1>. QED BY <1>1, <1>2, <1>3, <1>4, <1>5 DEF FilterTypeOK, FilterRemove

LEMMA AcceptCounts ==
  ASSUME FilterTypeOK, CountsMatchGroups,
         NEW p \in Peer, NEW addrs \in AddressList, Accept(p, addrs)
  PROVE  CountsMatchGroups'
<1>. SUFFICES ASSUME NEW c \in 0..MaxCpl, NEW k \in GroupKey
              PROVE  count'[c][k] = Cardinality(Recorded(c, k)')
  BY DEF CountsMatchGroups
<1>. DEFINE n == Len(Entry(peerGroups, p))
<1>1. addrs \in Seq(GroupKey) /\ n \in Nat /\ Cpl[p] \in 0..MaxCpl
  BY AcceptedAddresses, EntryType, CplAssumption DEF Accept
<1>2. count'[c][k] = IF c = Cpl[p] THEN count[c][k] + 1 * Occurrences(k, addrs)
                     ELSE count[c][k]
  BY <1>1, CountedEntries DEF Accept
<1>3. /\ IsFiniteSet(Recorded(c, k)) /\ Cardinality(Recorded(c, k)) \in Nat
      /\ count[c][k] = Cardinality(Recorded(c, k))
  BY RecordedFinite DEF CountsMatchGroups
<1>4. /\ Recorded(c, k)' = Recorded(c, k) \cup Added(p, addrs, c, k)
      /\ Recorded(c, k) \cap Added(p, addrs, c, k) = {}
  BY AcceptRecords
<1>5. /\ IsFiniteSet(Positions(k, addrs)) /\ Positions(k, addrs) \in SUBSET Nat
      /\ Occurrences(k, addrs) \in Nat
  BY <1>1, PositionsFinite
<1>6. CASE c = Cpl[p]
  <2>1. Added(p, addrs, c, k) = Records(p, n, Positions(k, addrs))
    BY <1>6 DEF Added
  <2>2. /\ IsFiniteSet(Added(p, addrs, c, k))
        /\ Cardinality(Added(p, addrs, c, k)) = Occurrences(k, addrs)
    <3>. DEFINE S == Positions(k, addrs)
    <3>1. S \in SUBSET Nat /\ IsFiniteSet(S)
      BY <1>5
    <3>. HIDE DEF S, n
    <3>2. n \in Nat
      BY <1>1
    <3>3. /\ IsFiniteSet(Records(p, n, S))
          /\ Cardinality(Records(p, n, S)) = Cardinality(S)
      BY <3>1, <3>2, RecordsOfPeer
    <3>. QED BY <2>1, <3>3 DEF Occurrences, S
  <2>3. Cardinality(Recorded(c, k)') =
          Cardinality(Recorded(c, k)) + Cardinality(Added(p, addrs, c, k))
    BY <1>3, <1>4, <2>2, DisjointUnion
  <2>. QED BY <1>2, <1>3, <1>5, <1>6, <2>2, <2>3
<1>7. CASE c # Cpl[p]
  BY <1>2, <1>3, <1>4, <1>7 DEF Added
<1>. QED BY <1>6, <1>7

LEMMA RemoveCounts ==
  ASSUME FilterTypeOK, CountsMatchGroups, NEW p \in Peer, FilterRemove(p)
  PROVE  CountsMatchGroups'
<1>. SUFFICES ASSUME NEW c \in 0..MaxCpl, NEW k \in GroupKey
              PROVE  count'[c][k] = Cardinality(Recorded(c, k)')
  BY DEF CountsMatchGroups
<1>. DEFINE groups == Entry(peerGroups, p)
            gone == IF c = Cpl[p] THEN Records(p, 0, Positions(k, groups)) ELSE {}
<1>1. groups \in Seq(GroupKey) /\ Cpl[p] \in 0..MaxCpl
  BY EntryType, CplAssumption
<1>2. count'[c][k] = IF c = Cpl[p] THEN count[c][k] + (-1) * Occurrences(k, groups)
                     ELSE count[c][k]
  BY <1>1, CountedEntries DEF FilterRemove
<1>3. count[c][k] = Cardinality(Recorded(c, k))
  BY DEF CountsMatchGroups
<1>4. /\ IsFiniteSet(Recorded(c, k)') /\ Cardinality(Recorded(c, k)') \in Nat
  <2>1. FilterTypeOK'
    BY RemoveTypeOK
  <2>2. IsFiniteSet(Recorded(c, k))
    BY RecordedFinite
  <2>3. Recorded(c, k)' \in SUBSET Recorded(c, k)
    BY RemoveRecords
  <2>. QED BY <2>2, <2>3, FS_Subset, FS_CardinalityType
<1>5. Recorded(c, k) = Recorded(c, k)' \cup gone /\ Recorded(c, k)' \cap gone = {}
  BY RemoveRecords
<1>6. /\ IsFiniteSet(Positions(k, groups)) /\ Positions(k, groups) \in SUBSET Nat
      /\ Occurrences(k, groups) \in Nat
  BY <1>1, PositionsFinite
<1>7. CASE c = Cpl[p]
  <2>1. gone = Records(p, 0, Positions(k, groups))
    BY <1>7
  <2>. HIDE DEF gone, groups
  <2>2. IsFiniteSet(gone) /\ Cardinality(gone) = Occurrences(k, groups)
    <3>. DEFINE S == Positions(k, groups)
    <3>1. S \in SUBSET Nat /\ IsFiniteSet(S)
      BY <1>6
    <3>. HIDE DEF S
    <3>2. /\ IsFiniteSet(Records(p, 0, S))
          /\ Cardinality(Records(p, 0, S)) = Cardinality(S)
      BY <3>1, RecordsOfPeer
    <3>. QED BY <2>1, <3>2 DEF Occurrences, S
  <2>3. Cardinality(Recorded(c, k)) = Cardinality(Recorded(c, k)') + Cardinality(gone)
    BY <1>4, <1>5, <2>2, DisjointUnion
  <2>. QED BY <1>2, <1>3, <1>4, <1>6, <1>7, <2>2, <2>3
<1>8. CASE c # Cpl[p]
  BY <1>2, <1>3, <1>5, <1>8
<1>. QED BY <1>7, <1>8

LEMMA StatsAsFunction ==
  ASSUME StatsMatchGroups, NEW p \in Peer
  PROVE  /\ DOMAIN cplPeerGroups = {Cpl[q] : q \in Tracked}
         /\ Entry(cplPeerGroups, Cpl[p]) =
               [q \in {r \in Tracked : Cpl[r] = Cpl[p]} |-> peerGroups[q]]
<1>1. CASE Cpl[p] \in DOMAIN cplPeerGroups
  BY <1>1 DEF StatsMatchGroups, Entry
<1>2. CASE Cpl[p] \notin DOMAIN cplPeerGroups
  <2>1. {r \in Tracked : Cpl[r] = Cpl[p]} = {}
    BY <1>2 DEF StatsMatchGroups
  <2>2. [q \in {r \in Tracked : Cpl[r] = Cpl[p]} |-> peerGroups[q]] = <<>>
    BY <2>1
  <2>. QED BY <1>2, <2>2 DEF StatsMatchGroups, Entry
<1>. QED BY <1>1, <1>2

LEMMA AcceptStats ==
  ASSUME FilterTypeOK, StatsMatchGroups,
         NEW p \in Peer, NEW addrs \in AddressList, Accept(p, addrs)
  PROVE  StatsMatchGroups'
<1>. DEFINE peers == Entry(cplPeerGroups, Cpl[p])
            new == Entry(peers, p) \o addrs
<1>1. /\ Tracked' = Tracked \cup {p}
      /\ peerGroups'[p] = Entry(peerGroups, p) \o addrs
      /\ \A q \in Tracked \ {p} : peerGroups'[q] = peerGroups[q]
  BY AcceptGroups
<1>2. /\ DOMAIN cplPeerGroups = {Cpl[q] : q \in Tracked}
      /\ peers = [q \in {r \in Tracked : Cpl[r] = Cpl[p]} |-> peerGroups[q]]
  BY StatsAsFunction
<1>3. new = peerGroups'[p]
  BY <1>1, <1>2 DEF Entry, Tracked
<1>4. cplPeerGroups' = With(cplPeerGroups, Cpl[p], With(peers, p, new))
  BY DEF Accept
<1>5. DOMAIN cplPeerGroups' = {Cpl[q] : q \in Tracked'}
  BY <1>1, <1>2, <1>4 DEF With
<1>6. ASSUME NEW c \in DOMAIN cplPeerGroups'
      PROVE  cplPeerGroups'[c] = [q \in {r \in Tracked' : Cpl[r] = c} |-> peerGroups'[q]]
  <2>1. CASE c = Cpl[p]
    <3>. HIDE DEF new, peers
    <3>1. cplPeerGroups'[c] = With(peers, p, new)
      BY <1>4, <2>1 DEF With
    <3>2. DOMAIN peers \cup {p} = {r \in Tracked' : Cpl[r] = c}
      BY <1>1, <1>2, <2>1
    <3>3. \A q \in DOMAIN peers \cup {p} :
             (IF q = p THEN new ELSE peers[q]) = peerGroups'[q]
      BY <1>1, <1>2, <1>3
    <3>. QED BY <3>1, <3>2, <3>3 DEF With
  <2>2. CASE c # Cpl[p]
    <3>1. c \in DOMAIN cplPeerGroups /\ cplPeerGroups'[c] = cplPeerGroups[c]
      BY <1>4, <2>2 DEF With
    <3>2. {r \in Tracked' : Cpl[r] = c} = {r \in Tracked : Cpl[r] = c}
      BY <1>1, <2>2
    <3>3. \A q \in {r \in Tracked : Cpl[r] = c} : peerGroups'[q] = peerGroups[q]
      BY <1>1, <2>2
    <3>. QED BY <3>1, <3>2, <3>3 DEF StatsMatchGroups
  <2>. QED BY <2>1, <2>2
<1>. QED BY <1>5, <1>6 DEF StatsMatchGroups

LEMMA RemoveStats ==
  ASSUME FilterTypeOK, StatsMatchGroups, NEW p \in Peer, FilterRemove(p)
  PROVE  StatsMatchGroups'
<1>. DEFINE rest == Without(Entry(cplPeerGroups, Cpl[p]), p)
<1>1. /\ Tracked' = Tracked \ {p}
      /\ \A q \in Tracked' : peerGroups'[q] = peerGroups[q]
  BY RemoveGroups
<1>2. /\ DOMAIN cplPeerGroups = {Cpl[q] : q \in Tracked}
      /\ Entry(cplPeerGroups, Cpl[p]) =
            [q \in {r \in Tracked : Cpl[r] = Cpl[p]} |-> peerGroups[q]]
  BY StatsAsFunction
<1>3. rest = [q \in {r \in Tracked' : Cpl[r] = Cpl[p]} |-> peerGroups'[q]]
  <2>1. {r \in Tracked : Cpl[r] = Cpl[p]} \ {p} = {r \in Tracked' : Cpl[r] = Cpl[p]}
    BY <1>1
  <2>. QED BY <1>1, <1>2, <2>1 DEF Without
<1>4. cplPeerGroups' = IF DOMAIN rest = {} THEN Without(cplPeerGroups, Cpl[p])
                       ELSE [cplPeerGroups EXCEPT ![Cpl[p]] = rest]
  BY DEF FilterRemove, StatsWithout
<1>. HIDE DEF rest
<1>5. DOMAIN cplPeerGroups' = {Cpl[q] : q \in Tracked'}
  <2>1. CASE DOMAIN rest = {}
    <3>1. DOMAIN cplPeerGroups' = DOMAIN cplPeerGroups \ {Cpl[p]}
      BY <1>4, <2>1 DEF Without
    <3>2. \A r \in Tracked' : Cpl[r] # Cpl[p]
      BY <1>3, <2>1
    <3>. QED BY <1>1, <1>2, <3>1, <3>2
  <2>2. CASE DOMAIN rest # {}
    <3>1. DOMAIN cplPeerGroups' = DOMAIN cplPeerGroups
      BY <1>4, <2>2
    <3>2. PICK r \in Tracked' : Cpl[r] = Cpl[p]
      BY <1>3, <2>2
    <3>. QED BY <1>1, <1>2, <3>1, <3>2
  <2>. QED BY <2>1, <2>2
<1>6. ASSUME NEW c \in DOMAIN cplPeerGroups'
      PROVE  cplPeerGroups'[c] = [q \in {r \in Tracked' : Cpl[r] = c} |-> peerGroups'[q]]
  <2>1. CASE c = Cpl[p]
    <3>1. cplPeerGroups'[c] = rest
      BY <1>4, <2>1 DEF Without
    <3>. QED BY <1>3, <2>1, <3>1
  <2>2. CASE c # Cpl[p]
    <3>1. c \in DOMAIN cplPeerGroups /\ cplPeerGroups'[c] = cplPeerGroups[c]
      BY <1>4, <2>2 DEF Without
    <3>2. {r \in Tracked' : Cpl[r] = c} = {r \in Tracked : Cpl[r] = c}
      BY <1>1, <2>2
    <3>3. \A q \in {r \in Tracked : Cpl[r] = c} : peerGroups'[q] = peerGroups[q]
      BY <1>1, <3>2
    <3>. QED BY <3>1, <3>2, <3>3 DEF StatsMatchGroups
  <2>. QED BY <2>1, <2>2
<1>. QED BY <1>5, <1>6 DEF StatsMatchGroups

LEMMA AcceptLimit ==
  ASSUME FilterIInv, NEW p \in Peer, NEW addrs \in AddressList, Accept(p, addrs)
  PROVE  PeersPerGroupLimited'
<1>. SUFFICES ASSUME NEW c \in 0..MaxCpl, NEW k \in GroupKey
              PROVE  Cardinality(Holders(c, k)') <= Limit
  BY DEF PeersPerGroupLimited, Holders
<1>1. /\ Tracked' = Tracked \cup {p}
      /\ peerGroups'[p] = Entry(peerGroups, p) \o addrs
      /\ \A q \in Tracked \ {p} : peerGroups'[q] = peerGroups[q]
  BY AcceptGroups DEF FilterIInv
<1>2. addrs \in Seq(GroupKey) /\ Entry(peerGroups, p) \in Seq(GroupKey)
  BY AcceptedAddresses, EntryType DEF Accept, FilterIInv
<1>3. /\ IsFiniteSet(Holders(c, k)) /\ Cardinality(Holders(c, k)) \in Nat
      /\ Cardinality(Holders(c, k)) <= Cardinality(Recorded(c, k))
      /\ Cardinality(Holders(c, k)) <= Limit
      /\ count[c][k] = Cardinality(Recorded(c, k)) /\ count[c][k] \in Nat
  BY HoldersBounded, RecordedFinite
  DEF FilterIInv, PeersPerGroupLimited, CountsMatchGroups, Holders
<1>4. CASE c = Cpl[p] /\ k \in Range(addrs)
  <2>1. PICK i \in DOMAIN addrs : addrs[i] = k
    BY <1>4 DEF Range
  <2>2. count[c][k] < Limit
    BY <1>4, <2>1 DEF Accept, Acceptable, Good, Allow
  <2>3. Holders(c, k)' \in SUBSET (Holders(c, k) \cup {p})
    BY <1>1 DEF Holders
  <2>4. /\ IsFiniteSet(Holders(c, k) \cup {p})
        /\ Cardinality(Holders(c, k) \cup {p}) <= Cardinality(Holders(c, k)) + 1
        /\ Cardinality(Holders(c, k) \cup {p}) \in Nat
    <3>. DEFINE H == Holders(c, k)
    <3>1. IsFiniteSet(H) /\ Cardinality(H) \in Nat
      BY <1>3
    <3>. HIDE DEF H
    <3>2. /\ IsFiniteSet(H \cup {p})
          /\ Cardinality(H \cup {p}) =
                IF p \in H THEN Cardinality(H) ELSE Cardinality(H) + 1
      BY <3>1, FS_AddElement
    <3>3. Cardinality(H \cup {p}) <= Cardinality(H) + 1 /\ Cardinality(H \cup {p}) \in Nat
      BY <3>1, <3>2
    <3>. QED BY <3>2, <3>3 DEF H
  <2>5. /\ Cardinality(Holders(c, k)') <= Cardinality(Holders(c, k) \cup {p})
        /\ Cardinality(Holders(c, k)') \in Nat
    BY <2>3, <2>4, FS_Subset, FS_CardinalityType
  <2>. QED BY <1>3, <2>2, <2>4, <2>5, LimitAssumption
<1>5. CASE ~(c = Cpl[p] /\ k \in Range(addrs))
  <2>1. ASSUME c = Cpl[p]
        PROVE  k \in Range(peerGroups'[p]) => p \in Tracked /\ k \in Range(peerGroups[p])
    <3>1. k \in Range(Entry(peerGroups, p) \o addrs) =>
             k \in Range(Entry(peerGroups, p)) \/ k \in Range(addrs)
      BY <1>2 DEF Range
    <3>2. k \in Range(Entry(peerGroups, p)) =>
             p \in Tracked /\ k \in Range(peerGroups[p])
      BY DEF Entry, Tracked, Range
    <3>. QED BY <1>1, <1>5, <2>1, <3>1, <3>2
  <2>2. Holders(c, k)' \in SUBSET Holders(c, k)
    BY <1>1, <2>1 DEF Holders
  <2>3. /\ Cardinality(Holders(c, k)') <= Cardinality(Holders(c, k))
        /\ Cardinality(Holders(c, k)') \in Nat
    BY <1>3, <2>2, FS_Subset, FS_CardinalityType
  <2>. QED BY <1>3, <2>3, LimitAssumption
<1>. QED BY <1>4, <1>5

LEMMA RemoveLimit ==
  ASSUME FilterIInv, NEW p \in Peer, FilterRemove(p)
  PROVE  PeersPerGroupLimited'
<1>. SUFFICES ASSUME NEW c \in 0..MaxCpl, NEW k \in GroupKey
              PROVE  Cardinality(Holders(c, k)') <= Limit
  BY DEF PeersPerGroupLimited, Holders
<1>1. /\ IsFiniteSet(Holders(c, k)) /\ Cardinality(Holders(c, k)) \in Nat
      /\ Cardinality(Holders(c, k)) <= Limit
  BY HoldersBounded DEF FilterIInv, PeersPerGroupLimited, Holders
<1>2. Holders(c, k)' \in SUBSET Holders(c, k)
  BY RemoveGroups DEF Holders
<1>3. /\ Cardinality(Holders(c, k)') <= Cardinality(Holders(c, k))
      /\ Cardinality(Holders(c, k)') \in Nat
  BY <1>1, <1>2, FS_Subset, FS_CardinalityType
<1>. QED BY <1>1, <1>3, LimitAssumption

LEMMA FilterUnchanged ==
  ASSUME FilterIInv, UNCHANGED <<peerGroups, cplPeerGroups, count>>,
         wlpeers' \subseteq Peer
  PROVE  FilterIInv'
<1>1. Tracked' = Tracked /\ \A c, k : Recorded(c, k)' = Recorded(c, k)
  BY DEF Tracked, Recorded, Positions
<1>2. FilterTypeOK'
  BY <1>1 DEF FilterIInv, FilterTypeOK
<1>3. CountsMatchGroups'
  BY <1>1 DEF FilterIInv, CountsMatchGroups
<1>4. StatsMatchGroups'
  BY <1>1 DEF FilterIInv, StatsMatchGroups
<1>5. PeersPerGroupLimited'
  BY <1>1 DEF FilterIInv, PeersPerGroupLimited
<1>. QED BY <1>2, <1>3, <1>4, <1>5 DEF FilterIInv

LEMMA AcceptKeeps ==
  ASSUME FilterIInv, NEW p \in Peer, NEW addrs \in AddressList, Accept(p, addrs)
  PROVE  FilterIInv'
BY AcceptTypeOK, AcceptCounts, AcceptStats, AcceptLimit DEF FilterIInv

LEMMA RemoveKeeps ==
  ASSUME FilterIInv, NEW p \in Peer, FilterRemove(p)
  PROVE  FilterIInv'
BY RemoveTypeOK, RemoveCounts, RemoveStats, RemoveLimit DEF FilterIInv

LEMMA FilterStep == FilterIInv /\ [FilterNext]_filterVars => FilterIInv'
<1>. SUFFICES ASSUME FilterIInv, [FilterNext]_filterVars PROVE FilterIInv'
  OBVIOUS
<1>0. wlpeers \subseteq Peer
  BY DEF FilterIInv, FilterTypeOK
<1>1. ASSUME NEW p \in Peer, PassWhitelisted(p) PROVE FilterIInv'
  BY <1>0, <1>1, FilterUnchanged DEF PassWhitelisted, filterVars
<1>2. ASSUME NEW p \in Peer, NEW addrs \in AddressList, Accept(p, addrs)
      PROVE  FilterIInv'
  BY <1>2, AcceptKeeps
<1>3. ASSUME NEW p \in Peer, NEW addrs \in AddressList, Refuse(p, addrs)
      PROVE  FilterIInv'
  BY <1>0, <1>3, FilterUnchanged DEF Refuse, filterVars
<1>4. ASSUME NEW p \in Peer, FilterRemove(p) PROVE FilterIInv'
  BY <1>4, RemoveKeeps
<1>5. ASSUME NEW p \in Peer, WhitelistPeers({p}) PROVE FilterIInv'
  BY <1>0, <1>5, FilterUnchanged DEF WhitelistPeers
<1>6. CASE UNCHANGED filterVars
  BY <1>0, <1>6, FilterUnchanged DEF filterVars
<1>. QED BY <1>1, <1>2, <1>3, <1>4, <1>5, <1>6 DEF FilterNext, FilterTryAdd

LEMMA FilterInvariant == FilterSpec => []FilterIInv
BY FilterIInvInit, FilterStep, PTL DEF FilterSpec

-----------------------------------------------------------------------------
(***************************************************************************)
(* The policy's counts match what the filter has recorded, for any         *)
(* sequence of TryAdd, Remove and WhitelistPeers and any addresses.        *)
(***************************************************************************)
THEOREM CountsMatchGroupsHolds == FilterSpec => []CountsMatchGroups
<1>1. FilterIInv => CountsMatchGroups
  BY DEF FilterIInv
<1>. QED BY <1>1, FilterInvariant, PTL

(***************************************************************************)
(* The statistics by Cpl always agree with the groups by peer.             *)
(***************************************************************************)
THEOREM StatsMatchGroupsHolds == FilterSpec => []StatsMatchGroups
<1>1. FilterIInv => StatsMatchGroups
  BY DEF FilterIInv
<1>. QED BY <1>1, FilterInvariant, PTL

(***************************************************************************)
(* No group of a Cpl ever has more than Limit tracked peers, although a    *)
(* count may pass the limit.                                               *)
(***************************************************************************)
THEOREM PeersPerGroupLimitedHolds == FilterSpec => []PeersPerGroupLimited
<1>1. FilterIInv => PeersPerGroupLimited
  BY DEF FilterIInv
<1>. QED BY <1>1, FilterInvariant, PTL

-----------------------------------------------------------------------------
(* The statistics.                                                         *)

\* The numbers of S that sort.Ints puts before n.
Below(S, n) == {m \in S : m < n}

\* Sorting a finite set of numbers by how many are less gives every number a
\* place of its own, and every place a number.
LEMMA SortedNumbers ==
  ASSUME NEW S \in SUBSET Nat, IsFiniteSet(S)
  PROVE  /\ Cardinality(S) \in Nat
         /\ \A n \in S : Cardinality(Below(S, n)) + 1 \in 1..Cardinality(S)
         /\ \A m, n \in S :
               m < n <=> Cardinality(Below(S, m)) < Cardinality(Below(S, n))
         /\ \A i \in 1..Cardinality(S) : \E n \in S : Cardinality(Below(S, n)) = i - 1
<1>. DEFINE N == Cardinality(S)
            rank(n) == Cardinality(Below(S, n))
            f == [n \in S |-> rank(n)]
<1>1. N \in Nat
  BY FS_CardinalityType
<1>2. ASSUME NEW n \in S PROVE rank(n) \in 0..(N - 1)
  <2>1. Below(S, n) \in SUBSET S /\ n \notin Below(S, n)
    BY DEF Below
  <2>2. /\ IsFiniteSet(Below(S, n))
        /\ rank(n) <= N /\ rank(n) # N
    BY <2>1, FS_Subset
  <2>3. rank(n) \in Nat
    BY <2>2, FS_CardinalityType
  <2>. HIDE DEF N, rank
  <2>. QED BY <1>1, <2>2, <2>3
<1>3. ASSUME NEW m \in S, NEW n \in S, m < n PROVE rank(m) < rank(n)
  <2>1. /\ Below(S, m) \in SUBSET Below(S, n)
        /\ m \in Below(S, n) /\ m \notin Below(S, m)
    <3>1. \A l \in S : l < m => l < n
      BY <1>3
    <3>2. \A l \in Below(S, m) : l \in Below(S, n)
      BY <3>1 DEF Below
    <3>3. m \in Below(S, n) /\ m \notin Below(S, m)
      BY <1>3 DEF Below
    <3>. QED BY <3>2, <3>3
  <2>2. IsFiniteSet(Below(S, n))
    <3>1. Below(S, n) \in SUBSET S
      BY DEF Below
    <3>. QED BY <3>1, FS_Subset
  <2>3. rank(m) <= rank(n) /\ rank(m) # rank(n)
    BY <2>1, <2>2, FS_Subset
  <2>. HIDE DEF N, rank
  <2>. QED BY <1>1, <1>2, <2>3
<1>4. f \in Surjection(S, 0..(N - 1))
  <2>1. \A m, n \in S : rank(m) = rank(n) => m = n
    <3>1. ASSUME NEW m \in S, NEW n \in S, rank(m) = rank(n) PROVE m = n
      <4>1. ~(m < n) /\ ~(n < m)
        <5>. HIDE DEF N, rank
        <5>. QED BY <1>1, <1>2, <1>3, <3>1
      <4>. QED BY <4>1
    <3>. QED BY <3>1
  <2>2. f \in Injection(S, 0..(N - 1))
    <3>. HIDE DEF N, rank
    <3>. QED BY <1>1, <1>2, <2>1 DEF Injection, IsInjective
  <2>3. IsFiniteSet(0..(N - 1)) /\ Cardinality(0..(N - 1)) = N
    <3>1. 0 \in Int /\ N - 1 \in Int /\ N \in Nat
      BY <1>1
    <3>. HIDE DEF N
    <3>2. IsFiniteSet(0..(N - 1))
      BY <3>1, FS_Interval
    <3>3. Cardinality(0..(N - 1)) = IF 0 > N - 1 THEN 0 ELSE (N - 1) - 0 + 1
      BY <3>1, FS_Interval
    <3>. QED BY <3>1, <3>2, <3>3
  <2>. QED BY <2>2, <2>3, FS_Injection
<1>5. ASSUME NEW i \in 1..N PROVE \E n \in S : rank(n) = i - 1
  <2>1. i - 1 \in 0..(N - 1)
    BY <1>1
  <2>2. \E n \in S : f[n] = i - 1
    BY <1>4, <2>1 DEF Surjection
  <2>. QED BY <2>2
<1>6. ASSUME NEW m \in S, NEW n \in S PROVE m < n <=> rank(m) < rank(n)
  <2>1. n < m \/ m = n \/ m < n
    OBVIOUS
  <2>. HIDE DEF N, rank
  <2>. QED BY <1>1, <1>2, <1>3, <2>1
<1>7. ASSUME NEW n \in S PROVE rank(n) + 1 \in 1..N
  <2>. HIDE DEF N, rank
  <2>. QED BY <1>1, <1>2
<1>. QED BY <1>1, <1>5, <1>6, <1>7

(***************************************************************************)
(* GetDiversityStats reports every tracked peer once, under its Cpl, and   *)
(* the Cpls in order, for any number of Cpls and peers.                    *)
(***************************************************************************)
THEOREM StatsReportTrackedHolds == FilterSpec => []StatsReportTracked
<1>1. ASSUME FilterIInv PROVE StatsReportTracked
  <2>. DEFINE cpls == DOMAIN cplPeerGroups
              At(i) == CHOOSE c \in cpls : Cardinality({d \in cpls : d < c}) = i - 1
              n == Cardinality(cpls)
              stats == GetDiversityStats
  <2>1. cpls \in SUBSET Nat /\ IsFiniteSet(cpls)
    <3>1. \A c \in cpls : c \in 0..MaxCpl
      <4>1. cpls = {Cpl[p] : p \in Tracked} /\ Tracked \subseteq Peer
        BY <1>1 DEF FilterIInv, FilterTypeOK, StatsMatchGroups
      <4>. HIDE DEF cpls
      <4>. QED BY <4>1, CplAssumption
    <3>2. cpls \in SUBSET (0..MaxCpl) /\ 0..MaxCpl \in SUBSET Nat
      <4>1. 0..MaxCpl \in SUBSET Nat
        BY CplAssumption
      <4>. HIDE DEF cpls
      <4>. QED BY <3>1, <4>1
    <3>3. IsFiniteSet(0..MaxCpl)
      BY CplAssumption, FS_Interval
    <3>. HIDE DEF cpls
    <3>4. IsFiniteSet(cpls)
      BY <3>2, <3>3, FS_Subset
    <3>5. cpls \in SUBSET Nat
      BY <3>2
    <3>. QED BY <3>4, <3>5
  <2>2. stats = [i \in 1..n |-> [cpl |-> At(i), peers |-> cplPeerGroups[At(i)]]]
    BY DEF GetDiversityStats
  <2>3. \A c \in cpls : {d \in cpls : d < c} = Below(cpls, c)
    BY DEF Below
  <2>4. \A i \in 1..n : At(i) \in cpls /\ Cardinality(Below(cpls, At(i))) = i - 1
    <3>. SUFFICES ASSUME NEW i \in 1..n
                  PROVE  At(i) \in cpls /\ Cardinality(Below(cpls, At(i))) = i - 1
      OBVIOUS
    <3>1. \E c \in cpls : Cardinality({d \in cpls : d < c}) = i - 1
      BY <2>1, <2>3, SortedNumbers
    <3>2. At(i) \in cpls /\ Cardinality({d \in cpls : d < At(i)}) = i - 1
      BY <3>1
    <3>. QED BY <2>3, <3>2
  <2>. HIDE DEF At, stats
  <2>5. /\ DOMAIN stats = 1..n
        /\ \A i \in 1..n : stats[i].cpl = At(i) /\ stats[i].peers = cplPeerGroups[At(i)]
    BY <2>2
  <2>6. ASSUME NEW i \in 1..n, NEW j \in 1..n, i < j PROVE stats[i].cpl < stats[j].cpl
    <3>1. i - 1 < j - 1
      BY <2>1, <2>6, SortedNumbers
    <3>2. At(i) < At(j)
      BY <2>1, <2>4, <3>1, SortedNumbers
    <3>. QED BY <2>5, <3>2
  <2>7. ASSUME NEW c \in cpls
        PROVE  cplPeerGroups[c] = [p \in {q \in Tracked : Cpl[q] = c} |-> peerGroups[p]]
    BY <1>1 DEF FilterIInv, StatsMatchGroups
  <2>8. ASSUME NEW i \in 1..n, NEW p \in DOMAIN stats[i].peers
        PROVE  p \in Tracked /\ Cpl[p] = stats[i].cpl /\ stats[i].peers[p] = peerGroups[p]
    <3>1. At(i) \in cpls /\ stats[i].cpl = At(i) /\ stats[i].peers = cplPeerGroups[At(i)]
      BY <2>4, <2>5
    <3>. DEFINE held == {q \in Tracked : Cpl[q] = At(i)}
    <3>2. stats[i].peers = [q \in held |-> peerGroups[q]]
      BY <2>7, <3>1
    <3>3. p \in held
      <4>. HIDE DEF held
      <4>. QED BY <3>2
    <3>. QED BY <3>1, <3>2, <3>3
  <2>9. ASSUME NEW p \in Tracked PROVE \E i \in 1..n : p \in DOMAIN stats[i].peers
    <3>1. Cpl[p] \in cpls
      BY <1>1 DEF FilterIInv, StatsMatchGroups
    <3>. DEFINE i == Cardinality(Below(cpls, Cpl[p])) + 1
    <3>2. i \in 1..n /\ Cardinality(Below(cpls, Cpl[p])) \in Int
      <4>1. i \in 1..n
        BY <2>1, <3>1, SortedNumbers
      <4>2. IsFiniteSet(Below(cpls, Cpl[p]))
        <5>1. Below(cpls, Cpl[p]) \in SUBSET cpls
          BY DEF Below
        <5>. QED BY <2>1, <5>1, FS_Subset
      <4>. QED BY <4>1, <4>2, FS_CardinalityType
    <3>3. At(i) = Cpl[p]
      <4>1. At(i) \in cpls /\ Cardinality(Below(cpls, At(i))) = Cardinality(Below(cpls, Cpl[p]))
        BY <2>4, <3>2
      <4>2. ~(At(i) < Cpl[p]) /\ ~(Cpl[p] < At(i))
        <5>1. Cardinality(Below(cpls, At(i))) \in Int
          BY <3>2, <4>1
        <5>2. /\ At(i) < Cpl[p] <=> Cardinality(Below(cpls, At(i))) < Cardinality(Below(cpls, Cpl[p]))
              /\ Cpl[p] < At(i) <=> Cardinality(Below(cpls, Cpl[p])) < Cardinality(Below(cpls, At(i)))
          BY <2>1, <3>1, <4>1, SortedNumbers
        <5>. QED BY <3>2, <4>1, <5>1, <5>2
      <4>. QED BY <2>1, <3>1, <4>1, <4>2
    <3>4. p \in DOMAIN cplPeerGroups[Cpl[p]]
      BY <2>7, <3>1
    <3>. QED BY <2>5, <3>2, <3>3, <3>4
  <2>. QED BY <2>5, <2>6, <2>8, <2>9 DEF StatsReportTracked, stats
<1>2. FilterIInv => StatsReportTracked
  BY <1>1
<1>. QED BY <1>2, FilterInvariant, PTL

-----------------------------------------------------------------------------
(* The table with its filter.                                              *)

\* A call of addPeer that is past the filter: its peer is not in the table,
\* and is in the filter, with the groups the call was let pass with, or on
\* the whitelist.
Pending(call) ==
    /\ call.peer \in Peer \ TablePeers
    /\ call.queryPeer \in QueryPeerArg /\ call.isReplaceable \in BOOLEAN
    /\ call.groups = Entry(peerGroups, call.peer)
    /\ call.peer \in Tracked \cup wlpeers

\* FilterTracksTable alone is not inductive: that a rejected peer can be
\* taken out again needs what is known of the call under way, and that no
\* peer outside the table is tracked is what makes a new peer's groups be
\* the ones it is let in with.
Linked ==
    /\ adding = {} \/ \E call : adding = {call} /\ Pending(call)
    /\ DOMAIN joined = TablePeers
    /\ \A p \in TablePeers : joined[p] = Entry(peerGroups, p)
    /\ Tracked \subseteq TablePeers \cup {call.peer : call \in adding}
    /\ TablePeers \ Tracked \subseteq wlpeers

FilteredIInv == IInv /\ FilterIInv /\ Linked

-----------------------------------------------------------------------------
(* Each action keeps the filter and the table linked.                      *)

LEMMA EntryAfterRemove ==
  ASSUME NEW p, FilterRemove(p)
  PROVE  /\ Tracked' = Tracked \ {p}
         /\ wlpeers' = wlpeers
         /\ \A q : q # p => Entry(peerGroups, q)' = Entry(peerGroups, q)
BY DEF FilterRemove, Tracked, Without, Entry

\* While tabLock is free the filter tracks only peers of the table, so that
\* a new peer's groups are the ones it is let in with.
LEMMA PassFilterLinked ==
  ASSUME FilteredIInv, NEW p \in Peer,
         NEW queryPeer \in QueryPeerArg, NEW isReplaceable \in BOOLEAN,
         PassFilter(p, queryPeer, isReplaceable)
  PROVE  FilterIInv' /\ Linked'
<1>1. PICK addrs \in AddressList \cup {<<>>} :
        /\ (addrs = <<>> /\ PassWhitelisted(p)) \/ Accept(p, addrs)
        /\ adding' = {[peer |-> p, queryPeer |-> queryPeer,
                       isReplaceable |-> isReplaceable, groups |-> addrs]}
  BY DEF PassFilter
<1>2. adding = {} /\ p \notin TablePeers
  BY IInvTable DEF PassFilter, tabLockFree, FilteredIInv
<1>3. p \notin Tracked /\ Entry(peerGroups, p) = <<>>
  BY <1>2 DEF FilteredIInv, Linked, Entry, Tracked
<1>4. UNCHANGED <<buckets, joined>> /\ TablePeers' = TablePeers
  BY DEF PassFilter, vars, TablePeers
<1>5. CASE addrs = <<>> /\ PassWhitelisted(p)
  <2>1. UNCHANGED filterVars /\ p \in wlpeers
    BY <1>5 DEF PassWhitelisted
  <2>2. FilterIInv'
    BY <2>1, FilterUnchanged DEF FilteredIInv, filterVars, FilterIInv, FilterTypeOK
  <2>3. Linked'
    BY <1>1, <1>2, <1>3, <1>4, <1>5, <2>1
    DEF FilteredIInv, Linked, Pending, filterVars, Tracked, Entry
  <2>. QED BY <2>2, <2>3
<1>6. CASE Accept(p, addrs)
  <2>1. addrs \in AddressList
    BY <1>6 DEF Accept, Acceptable
  <2>2. FilterIInv'
    BY <1>6, <2>1, AcceptKeeps DEF FilteredIInv
  <2>3. /\ Tracked' = Tracked \cup {p}
        /\ peerGroups'[p] = <<>> \o addrs
        /\ \A q \in Tracked \ {p} : peerGroups'[q] = peerGroups[q]
    BY <1>3, <1>6, <2>1, AcceptGroups DEF FilteredIInv, FilterIInv
  <2>4. <<>> \o addrs = addrs
    <3>1. addrs \in Seq(GroupKey)
      BY <1>6, <2>1, AcceptedAddresses DEF Accept
    <3>. QED BY <3>1
  <2>5. /\ Entry(peerGroups, p)' = addrs
        /\ \A q : q # p => Entry(peerGroups, q)' = Entry(peerGroups, q)
    BY <2>3, <2>4 DEF Entry, Tracked
  <2>6. wlpeers' = wlpeers
    BY <1>6 DEF Accept
  <2>7. Linked'
    <3>1. /\ DOMAIN joined' = TablePeers'
          /\ \A q \in TablePeers' : joined'[q] = Entry(peerGroups, q)'
      BY <1>2, <1>4, <2>5 DEF FilteredIInv, Linked
    <3>2. \E call : adding' = {call} /\ Pending(call)'
      <4>. DEFINE call == [peer |-> p, queryPeer |-> queryPeer,
                           isReplaceable |-> isReplaceable, groups |-> addrs]
      <4>1. /\ call.peer = p /\ call.queryPeer = queryPeer
            /\ call.isReplaceable = isReplaceable /\ call.groups = addrs
        OBVIOUS
      <4>. HIDE DEF call
      <4>2. Pending(call)'
        BY <1>2, <1>4, <2>3, <2>5, <4>1 DEF Pending
      <4>. QED BY <1>1, <4>2 DEF call
    <3>3. Tracked' \subseteq TablePeers' \cup {call.peer : call \in adding'}
      BY <1>1, <1>2, <1>4, <2>3 DEF FilteredIInv, Linked
    <3>4. TablePeers' \ Tracked' \subseteq wlpeers'
      BY <1>4, <2>3, <2>6 DEF FilteredIInv, Linked
    <3>. QED BY <3>1, <3>2, <3>3, <3>4 DEF Linked
  <2>. QED BY <2>2, <2>7
<1>. QED BY <1>1, <1>5, <1>6

LEMMA JoinLinked ==
  ASSUME FilteredIInv, NEW call, adding = {call}, Pending(call), adding' = {},
         Join(call)
  PROVE  FilteredIInv'
<1>. DEFINE p == call.peer
<1>1. /\ p \in Peer /\ p \notin TablePeers
      /\ call.groups = Entry(peerGroups, p) /\ p \in Tracked \cup wlpeers
  BY DEF Pending
<1>2. AddNew(p, call.queryPeer, call.isReplaceable) /\ UNCHANGED filterVars
  BY DEF Join
<1>3. IInv'
  BY <1>1, <1>2, TryAddPeerKeepsIInv, QueryPeerArgAssumption
  DEF FilteredIInv, Pending, TryAddPeer
<1>4. FilterIInv'
  BY <1>2, FilterUnchanged DEF FilteredIInv, filterVars, FilterIInv, FilterTypeOK
<1>5. TablePeers' = TablePeers \cup {p}
  BY <1>1, <1>2, AddNewTable DEF FilteredIInv
<1>6. joined' = [q \in TablePeers' |-> IF q = p THEN Entry(peerGroups, p) ELSE joined[q]]
  BY <1>1, <1>5 DEF Join, JoinedBy, FilteredIInv, Linked
<1>7. Tracked' = Tracked /\ wlpeers' = wlpeers /\ peerGroups' = peerGroups
  BY <1>2 DEF filterVars, Tracked
<1>. HIDE DEF p
<1>8. Linked'
  <2>1. \A q \in TablePeers' : joined'[q] = Entry(peerGroups, q)'
    BY <1>5, <1>6, <1>7 DEF FilteredIInv, Linked, Entry
  <2>2. Tracked' \subseteq TablePeers'
    BY <1>5, <1>7 DEF FilteredIInv, Linked, p
  <2>3. TablePeers' \ Tracked' \subseteq wlpeers'
    BY <1>1, <1>5, <1>7 DEF FilteredIInv, Linked
  <2>. QED BY <1>6, <2>1, <2>2, <2>3 DEF Linked
<1>. QED BY <1>3, <1>4, <1>8 DEF FilteredIInv

LEMMA JoinReplacingLinked ==
  ASSUME FilteredIInv, NEW call, adding = {call}, Pending(call), adding' = {},
         NEW v \in TablePeers, JoinReplacing(call, v)
  PROVE  FilteredIInv'
<1>. DEFINE p == call.peer
<1>1. /\ p \in Peer /\ p \notin TablePeers /\ v \in Peer /\ v # p
      /\ call.groups = Entry(peerGroups, p) /\ p \in Tracked \cup wlpeers
  BY IInvTable DEF Pending, FilteredIInv
<1>2. AddReplacing(p, v, call.queryPeer, call.isReplaceable) /\ FilterRemove(v)
  BY DEF JoinReplacing
<1>3. IInv'
  BY <1>1, <1>2, TryAddPeerKeepsIInv, QueryPeerArgAssumption
  DEF FilteredIInv, Pending, TryAddPeer
<1>4. FilterIInv'
  BY <1>1, <1>2, RemoveKeeps DEF FilteredIInv
<1>5. TablePeers' = (TablePeers \cup {p}) \ {v}
  BY <1>1, <1>2, AddReplacingTable DEF FilteredIInv
<1>6. joined' = [q \in TablePeers' |-> IF q = p THEN Entry(peerGroups, p) ELSE joined[q]]
  BY <1>1, <1>5 DEF JoinReplacing, JoinedBy, FilteredIInv, Linked
<1>7. /\ Tracked' = Tracked \ {v} /\ wlpeers' = wlpeers
      /\ \A q : q # v => Entry(peerGroups, q)' = Entry(peerGroups, q)
  BY <1>2, EntryAfterRemove
<1>. HIDE DEF p
<1>8. Linked'
  <2>1. \A q \in TablePeers' : joined'[q] = Entry(peerGroups, q)'
    BY <1>5, <1>6, <1>7 DEF FilteredIInv, Linked
  <2>2. Tracked' \subseteq TablePeers'
    BY <1>5, <1>7 DEF FilteredIInv, Linked, p
  <2>3. TablePeers' \ Tracked' \subseteq wlpeers'
    BY <1>1, <1>5, <1>7 DEF FilteredIInv, Linked
  <2>. QED BY <1>6, <2>1, <2>2, <2>3 DEF Linked
<1>. QED BY <1>3, <1>4, <1>8 DEF FilteredIInv

LEMMA RejectLinked ==
  ASSUME FilteredIInv, NEW call, adding = {call}, Pending(call), adding' = {},
         Reject(call)
  PROVE  FilteredIInv'
<1>. DEFINE p == call.peer
<1>1. p \in Peer /\ p \notin TablePeers
  BY DEF Pending
<1>2. RejectNoCapacity(p) /\ FilterRemove(p) /\ joined' = joined
  BY DEF Reject
<1>3. IInv'
  BY <1>1, <1>2, TryAddPeerKeepsIInv, QueryPeerArgAssumption
  DEF FilteredIInv, Pending, TryAddPeer
<1>4. FilterIInv'
  BY <1>1, <1>2, RemoveKeeps DEF FilteredIInv
<1>5. TablePeers' = TablePeers
  BY <1>1, <1>2, CandidateTable DEF RejectNoCapacity, TablePeers, FilteredIInv
<1>6. /\ Tracked' = Tracked \ {p} /\ wlpeers' = wlpeers
      /\ \A q : q # p => Entry(peerGroups, q)' = Entry(peerGroups, q)
  BY <1>2, EntryAfterRemove
<1>. HIDE DEF p
<1>7. Linked'
  <2>1. /\ DOMAIN joined' = TablePeers'
        /\ \A q \in TablePeers' : joined'[q] = Entry(peerGroups, q)'
    BY <1>1, <1>2, <1>5, <1>6 DEF FilteredIInv, Linked
  <2>2. Tracked' \subseteq TablePeers'
    BY <1>5, <1>6 DEF FilteredIInv, Linked, p
  <2>3. TablePeers' \ Tracked' \subseteq wlpeers'
    BY <1>1, <1>5, <1>6 DEF FilteredIInv, Linked
  <2>. QED BY <2>1, <2>2, <2>3 DEF Linked
<1>. QED BY <1>3, <1>4, <1>7 DEF FilteredIInv

LEMMA RemoveFromBothLinked ==
  ASSUME FilteredIInv, NEW p \in Peer, RemoveFromBoth(p)
  PROVE  FilterIInv' /\ Linked'
<1>1. /\ adding = {} /\ adding' = {} /\ RemovePeer(p) /\ FilterRemove(p)
      /\ joined' = [q \in DOMAIN joined \ {p} |-> joined[q]]
  BY DEF RemoveFromBoth, tabLockFree
<1>2. FilterIInv'
  BY <1>1, RemoveKeeps DEF FilteredIInv
<1>3. TablePeers' = TablePeers \ {p}
  BY <1>1, RemovePeerTable DEF FilteredIInv
<1>4. /\ Tracked' = Tracked \ {p} /\ wlpeers' = wlpeers
      /\ \A q : q # p => Entry(peerGroups, q)' = Entry(peerGroups, q)
  BY <1>1, EntryAfterRemove
<1>5. Linked'
  BY <1>1, <1>3, <1>4 DEF FilteredIInv, Linked
<1>. QED BY <1>2, <1>5

\* A step that leaves the filter, the calls and the peers of the table alone.
LEMMA StillLinked ==
  ASSUME FilteredIInv, UNCHANGED <<filterVars, adding, joined>>,
         TablePeers' = TablePeers
  PROVE  FilterIInv' /\ Linked'
<1>1. UNCHANGED <<peerGroups, cplPeerGroups, count, wlpeers>>
  BY DEF filterVars
<1>2. FilterIInv'
  BY <1>1, FilterUnchanged DEF FilteredIInv, FilterIInv, FilterTypeOK
<1>3. Linked'
  BY <1>1 DEF FilteredIInv, Linked, Pending, Tracked, Entry
<1>. QED BY <1>2, <1>3

LEMMA WhitelistLinked ==
  ASSUME FilteredIInv, NEW p \in Peer, Whitelist(p)
  PROVE  FilterIInv' /\ Linked'
<1>1. /\ wlpeers' = wlpeers \cup {p}
      /\ UNCHANGED <<peerGroups, cplPeerGroups, count, buckets, adding, joined>>
  BY DEF Whitelist, WhitelistPeers, vars
<1>2. FilterIInv'
  BY <1>1, FilterUnchanged DEF FilteredIInv, FilterIInv, FilterTypeOK
<1>3. TablePeers' = TablePeers /\ Tracked' = Tracked
  BY <1>1 DEF TablePeers, Tracked
<1>4. Linked'
  BY <1>1, <1>3 DEF FilteredIInv, Linked, Pending, Entry
<1>. QED BY <1>2, <1>4

LEMMA FilteredIInvInit == FilteredInit => FilteredIInv
<1>. SUFFICES ASSUME FilteredInit PROVE FilteredIInv
  OBVIOUS
<1>1. IInv /\ FilterIInv
  BY IInvInit, FilterIInvInit DEF FilteredInit
<1>2. TablePeers = {} /\ Tracked = {}
  BY EmptyTable DEF FilteredInit, Init, TablePeers, FilterInit, Tracked
<1>. QED BY <1>1, <1>2 DEF FilteredInit, FilteredIInv, Linked

LEMMA FilteredIInvStep == FilteredIInv /\ [FilteredNext]_allVars => FilteredIInv'
<1>. SUFFICES ASSUME FilteredIInv, [FilteredNext]_allVars PROVE FilteredIInv'
  OBVIOUS
<1>1. ASSUME NEW p \in Peer, NEW queryPeer \in QueryPeerArg,
             NEW isReplaceable \in BOOLEAN, ReturnEarly(p, queryPeer, isReplaceable)
      PROVE  FilteredIInv'
  <2>1. queryPeer \in BOOLEAN
    BY QueryPeerArgAssumption
  <2>2. TryAddPeer(p, queryPeer, isReplaceable)
    BY <1>1 DEF ReturnEarly, TryAddPeer
  <2>3. IInv'
    BY <2>1, <2>2, TryAddPeerKeepsIInv DEF FilteredIInv
  <2>4. TablePeers' = TablePeers /\ UNCHANGED <<filterVars, adding, joined>>
    BY <1>1 DEF ReturnEarly, AddExisting, TurnAway, TablePeers
  <2>. QED BY <2>3, <2>4, StillLinked DEF FilteredIInv
<1>2. ASSUME NEW p \in Peer, NEW queryPeer \in QueryPeerArg,
             NEW isReplaceable \in BOOLEAN, PassFilter(p, queryPeer, isReplaceable)
      PROVE  FilteredIInv'
  <2>1. FilterIInv' /\ Linked'
    BY <1>2, PassFilterLinked
  <2>2. IInv'
    BY <1>2, IInvStep DEF PassFilter, FilteredIInv
  <2>. QED BY <2>1, <2>2 DEF FilteredIInv
<1>3. ASSUME NEW p \in Peer, RejectByFilter(p) PROVE FilteredIInv'
  <2>1. TryAddPeer(p, TRUE, TRUE)
    BY <1>3 DEF RejectByFilter, TryAddPeer
  <2>2. IInv'
    BY <2>1, TryAddPeerKeepsIInv DEF FilteredIInv
  <2>3. TablePeers' = TablePeers /\ UNCHANGED <<filterVars, adding, joined>>
    BY <1>3 DEF RejectByFilter, TurnAway, TablePeers, Refuse
  <2>. QED BY <2>2, <2>3, StillLinked DEF FilteredIInv
<1>4. ASSUME NEW p \in Peer, RemoveFromBoth(p) PROVE FilteredIInv'
  <2>1. IInv'
    BY <1>4, IInvStep DEF RemoveFromBoth, FilteredIInv, Next
  <2>. QED BY <1>4, <2>1, RemoveFromBothLinked DEF FilteredIInv
<1>5. ASSUME NEW p \in Peer, Whitelist(p) PROVE FilteredIInv'
  <2>1. IInv'
    BY <1>5, IInvStep DEF Whitelist, FilteredIInv
  <2>. QED BY <1>5, <2>1, WhitelistLinked DEF FilteredIInv
<1>6. CASE FinishAdd
  <2>1. PICK call : adding = {call} /\ Pending(call)
    BY <1>6 DEF FinishAdd, FilteredIInv, Linked
  <2>2. /\ adding' = {}
        /\ \/ Join(call)
           \/ \E v \in TablePeers : JoinReplacing(call, v)
           \/ Reject(call)
    BY <1>6, <2>1 DEF FinishAdd
  <2>. QED BY <2>1, <2>2, JoinLinked, JoinReplacingLinked, RejectLinked
<1>7. CASE MarkAllIrreplaceable
  <2>1. IInv'
    BY <1>7, IInvStep DEF MarkAllIrreplaceable, FilteredIInv, Next
  <2>2. TablePeers' = TablePeers /\ UNCHANGED <<filterVars, adding, joined>>
    BY <1>7 DEF MarkAllIrreplaceable, MarkAllPeersIrreplaceable, TablePeers
  <2>. QED BY <2>1, <2>2, StillLinked DEF FilteredIInv
<1>8. CASE UNCHANGED allVars
  <2>1. IInv'
    BY <1>8, IInvStep DEF allVars, FilteredIInv
  <2>2. TablePeers' = TablePeers /\ UNCHANGED <<filterVars, adding, joined>>
    BY <1>8 DEF allVars, vars, TablePeers
  <2>. QED BY <2>1, <2>2, StillLinked DEF FilteredIInv
<1>. QED
  BY <1>1, <1>2, <1>3, <1>4, <1>5, <1>6, <1>7, <1>8 DEF FilteredNext

LEMMA FilteredIInvHolds == FilteredSpec => []FilteredIInv
BY FilteredIInvInit, FilteredIInvStep, PTL DEF FilteredSpec

-----------------------------------------------------------------------------
(***************************************************************************)
(* The filter tracks the peers in the table and no others, but for the one *)
(* that addPeer is about to place.                                         *)
(***************************************************************************)
THEOREM FilterTracksTableHolds == FilteredSpec => []FilterTracksTable
<1>1. FilteredIInv => FilterTracksTable
  <2>. SUFFICES ASSUME FilteredIInv PROVE FilterTracksTable
    OBVIOUS
  <2>1. \A p \in TablePeers \cap Tracked : peerGroups[p] = joined[p]
    BY DEF FilteredIInv, Linked, Entry, Tracked
  <2>. QED BY <2>1 DEF FilteredIInv, Linked, FilterTracksTable
<1>. QED BY <1>1, FilteredIInvHolds, PTL

\* The peers of the table that joined with an address in a group are tracked
\* holders of that group.
LEMMA JoinedHolders ==
  ASSUME FilteredIInv, NEW c \in 0..MaxCpl, NEW k
  PROVE  {p \in SameCpl(c) : \E i \in DOMAIN joined[p] : joined[p][i] = k}
            \in SUBSET Holders(c, k)
<1>. SUFFICES ASSUME NEW p \in SameCpl(c), NEW i \in DOMAIN joined[p], joined[p][i] = k
              PROVE  p \in Holders(c, k)
  OBVIOUS
<1>1. p \in TablePeers /\ Cpl[p] = c /\ joined[p] = Entry(peerGroups, p)
  BY DEF SameCpl, FilteredIInv, Linked
<1>2. p \in Tracked /\ joined[p] = peerGroups[p]
  <2>1. joined[p] # <<>>
    OBVIOUS
  <2>. QED BY <1>1, <2>1 DEF Entry, Tracked
<1>3. k \in Range(peerGroups[p])
  BY <1>2 DEF Range
<1>. QED BY <1>1, <1>2, <1>3 DEF Holders

(***************************************************************************)
(* No more than Limit peers of a Cpl in the table were let in with         *)
(* addresses in the same IP group.                                         *)
(***************************************************************************)
THEOREM TableIsDiverseHolds == FilteredSpec => []TableIsDiverse
<1>1. FilteredIInv => TableIsDiverse
  <2>. SUFFICES ASSUME FilteredIInv, NEW c \in 0..MaxCpl, NEW k \in GroupKey
                PROVE  Cardinality({p \in SameCpl(c) :
                                      \E i \in DOMAIN joined[p] : joined[p][i] = k}) <= Limit
    BY DEF TableIsDiverse
  <2>. DEFINE S == {p \in SameCpl(c) : \E i \in DOMAIN joined[p] : joined[p][i] = k}
  <2>1. S \in SUBSET Holders(c, k)
    BY JoinedHolders
  <2>. HIDE DEF S
  <2>2. /\ IsFiniteSet(Holders(c, k)) /\ Cardinality(Holders(c, k)) \in Nat
        /\ Cardinality(Holders(c, k)) <= Limit
    BY HoldersBounded DEF FilteredIInv, FilterIInv, PeersPerGroupLimited, Holders
  <2>3. Cardinality(S) <= Cardinality(Holders(c, k)) /\ Cardinality(S) \in Nat
    BY <2>1, <2>2, FS_Subset, FS_CardinalityType
  <2>4. Cardinality(S) <= Limit
    BY <2>2, <2>3, LimitAssumption
  <2>. QED BY <2>4 DEF S
<1>. QED BY <1>1, FilteredIInvHolds, PTL

\* While no call is under way, the filter's records are those of the table.
LEMMA RecordedInTable ==
  ASSUME FilteredIInv, tabLockFree, NEW c, NEW k
  PROVE  InGroup(c, k) = Recorded(c, k)
<1>. SUFFICES ASSUME NEW r PROVE r \in InGroup(c, k) <=> r \in Recorded(c, k)
  OBVIOUS
<1>1. r \in InGroup(c, k) <=>
        \E p \in TablePeers : /\ Cpl[p] = c
                             /\ \E i \in Positions(k, joined[p]) : r = <<p, i>>
  BY DEF InGroup, SameCpl
<1>2. r \in Recorded(c, k) <=>
        \E p \in Tracked : /\ Cpl[p] = c
                          /\ \E i \in Positions(k, peerGroups[p]) : r = <<p, i>>
  BY RecordedElements
<1>3. Tracked \subseteq TablePeers
  BY DEF FilteredIInv, Linked, tabLockFree
<1>4. \A p \in TablePeers :
        IF p \in Tracked THEN joined[p] = peerGroups[p] ELSE Positions(k, joined[p]) = {}
  BY DEF FilteredIInv, Linked, Entry, Tracked, Positions
<1>. QED BY <1>1, <1>2, <1>3, <1>4

(***************************************************************************)
(* The filter turns a peer away only for what is in the table.             *)
(***************************************************************************)
THEOREM RefusesForTableOnlyHolds == FilteredSpec => []RefusesForTableOnly
<1>1. FilteredIInv => RefusesForTableOnly
  <2>. SUFFICES ASSUME FilteredIInv, tabLockFree, NEW p \in Peer, NEW addrs \in AddressList,
                       addrs # <<>>,
                       \A i \in DOMAIN addrs :
                          /\ addrs[i] # NoKey
                          /\ Cardinality(InGroup(Cpl[p], addrs[i])) < Limit
                PROVE  Acceptable(p, addrs)
    BY DEF RefusesForTableOnly
  <2>1. ASSUME NEW i \in DOMAIN addrs PROVE Good(p, addrs, i)
    <3>1. addrs[i] \in GroupKey
      BY AddressListAssumption
    <3>2. Cpl[p] \in 0..MaxCpl
      BY CplAssumption
    <3>3. count[Cpl[p]][addrs[i]] = Cardinality(InGroup(Cpl[p], addrs[i]))
      BY <3>1, <3>2, RecordedInTable DEF FilteredIInv, FilterIInv, CountsMatchGroups
    <3>. QED BY <3>3 DEF Good, Allow
  <2>. QED BY <2>1 DEF Acceptable
<1>. QED BY <1>1, FilteredIInvHolds, PTL

(***************************************************************************)
(* Once the table is empty the policy's counts are back at zero.           *)
(***************************************************************************)
THEOREM EmptyTableCountsNothingHolds == FilteredSpec => []EmptyTableCountsNothing
<1>1. FilteredIInv => EmptyTableCountsNothing
  <2>. SUFFICES ASSUME FilteredIInv, tabLockFree, TablePeers = {}
                PROVE  /\ \A c \in 0..MaxCpl, k \in GroupKey : count[c][k] = 0
                       /\ cplPeerGroups = <<>>
    BY DEF EmptyTableCountsNothing
  <2>1. Tracked = {}
    BY DEF FilteredIInv, Linked, tabLockFree
  <2>2. ASSUME NEW c \in 0..MaxCpl, NEW k \in GroupKey PROVE count[c][k] = 0
    <3>1. Recorded(c, k) = {}
      BY <2>1, RecordedElements
    <3>2. count[c][k] = Cardinality(Recorded(c, k))
      BY DEF FilteredIInv, FilterIInv, CountsMatchGroups
    <3>. QED BY <3>1, <3>2, FS_EmptySet
  <2>3. DOMAIN cplPeerGroups = {}
    BY <2>1 DEF FilteredIInv, FilterIInv, StatsMatchGroups
  <2>4. cplPeerGroups = [c \in {} |-> cplPeerGroups[c]]
    BY <2>3 DEF FilteredIInv, FilterIInv, FilterTypeOK
  <2>. QED BY <2>2, <2>4
<1>. QED BY <1>1, FilteredIInvHolds, PTL

-----------------------------------------------------------------------------
(* The table and the filter as parts of the whole: nothing that one makes  *)
(* the other do is a thing it would not do by itself.                      *)

LEMMA FinishedCall ==
  ASSUME FilteredIInv, FinishAdd
  PROVE  \E call :
            /\ call.peer \in Peer
            /\ call.queryPeer \in QueryPeerArg /\ call.isReplaceable \in BOOLEAN
            /\ \/ Join(call)
               \/ \E v \in TablePeers : JoinReplacing(call, v)
               \/ Reject(call)
<1>1. PICK call : adding = {call} /\ Pending(call)
  BY DEF FinishAdd, FilteredIInv, Linked
<1>2. \/ Join(call)
      \/ \E v \in TablePeers : JoinReplacing(call, v)
      \/ Reject(call)
  BY <1>1 DEF FinishAdd
<1>. QED BY <1>1, <1>2 DEF Pending

LEMMA TableStepOfFiltered == FilteredIInv /\ [FilteredNext]_allVars => [Next]_vars
<1>. SUFFICES ASSUME FilteredIInv, [FilteredNext]_allVars PROVE [Next]_vars
  OBVIOUS
<1>1. ASSUME NEW p \in Peer, NEW queryPeer \in QueryPeerArg,
             NEW isReplaceable \in BOOLEAN, ReturnEarly(p, queryPeer, isReplaceable)
      PROVE  Next
  BY <1>1 DEF ReturnEarly, TryAddPeer, Next
<1>2. ASSUME NEW p \in Peer, NEW queryPeer, NEW isReplaceable,
             PassFilter(p, queryPeer, isReplaceable)
      PROVE  UNCHANGED vars
  BY <1>2 DEF PassFilter
<1>3. ASSUME NEW p \in Peer, RejectByFilter(p) PROVE Next
  <2>1. PICK queryPeer : queryPeer \in QueryPeerArg
    BY QueryPeerArgAssumption
  <2>2. TryAddPeer(p, queryPeer, TRUE)
    BY <1>3 DEF RejectByFilter, TryAddPeer
  <2>. QED BY <2>1, <2>2 DEF Next
<1>4. ASSUME NEW p \in Peer, RemoveFromBoth(p) PROVE Next
  BY <1>4 DEF RemoveFromBoth, Next
<1>5. ASSUME NEW p \in Peer, Whitelist(p) PROVE UNCHANGED vars
  BY <1>5 DEF Whitelist
<1>6. CASE FinishAdd
  <2>1. PICK call :
           /\ call.peer \in Peer
           /\ call.queryPeer \in QueryPeerArg /\ call.isReplaceable \in BOOLEAN
           /\ \/ Join(call)
              \/ \E v \in TablePeers : JoinReplacing(call, v)
              \/ Reject(call)
    BY <1>6, FinishedCall
  <2>2. TryAddPeer(call.peer, call.queryPeer, call.isReplaceable)
    BY <2>1 DEF Join, JoinReplacing, Reject, TryAddPeer
  <2>. QED BY <2>1, <2>2 DEF Next
<1>7. CASE MarkAllIrreplaceable
  BY <1>7 DEF MarkAllIrreplaceable, Next
<1>8. CASE UNCHANGED allVars
  BY <1>8 DEF allVars
<1>. QED
  BY <1>1, <1>2, <1>3, <1>4, <1>5, <1>6, <1>7, <1>8 DEF FilteredNext

LEMMA FilterStepOfFiltered ==
  FilteredIInv /\ [FilteredNext]_allVars => [FilterNext]_filterVars
<1>. SUFFICES ASSUME FilteredIInv, [FilteredNext]_allVars
              PROVE  [FilterNext]_filterVars
  OBVIOUS
<1>1. ASSUME NEW p \in Peer, NEW queryPeer, NEW isReplaceable,
             ReturnEarly(p, queryPeer, isReplaceable)
      PROVE  UNCHANGED filterVars
  BY <1>1 DEF ReturnEarly, filterVars
<1>2. ASSUME NEW p \in Peer, NEW queryPeer, NEW isReplaceable,
             PassFilter(p, queryPeer, isReplaceable)
      PROVE  FilterNext
  <2>1. PICK addrs \in AddressList \cup {<<>>} :
           (addrs = <<>> /\ PassWhitelisted(p)) \/ Accept(p, addrs)
    BY <1>2 DEF PassFilter
  <2>2. Accept(p, addrs) => addrs \in AddressList
    BY <2>1 DEF Accept, Acceptable
  <2>. QED BY <2>1, <2>2 DEF FilterNext, FilterTryAdd
<1>3. ASSUME NEW p \in Peer, RejectByFilter(p) PROVE FilterNext
  BY <1>3 DEF RejectByFilter, FilterNext, FilterTryAdd
<1>4. ASSUME NEW p \in Peer, RemoveFromBoth(p) PROVE FilterNext
  BY <1>4 DEF RemoveFromBoth, FilterNext
<1>5. ASSUME NEW p \in Peer, Whitelist(p) PROVE FilterNext
  BY <1>5 DEF Whitelist, FilterNext
<1>6. CASE FinishAdd
  <2>1. PICK call :
           /\ call.peer \in Peer
           /\ \/ Join(call)
              \/ \E v \in TablePeers : JoinReplacing(call, v)
              \/ Reject(call)
    BY <1>6, FinishedCall
  <2>2. TablePeers \subseteq Peer
    BY IInvTable DEF FilteredIInv
  <2>. QED BY <2>1, <2>2 DEF Join, JoinReplacing, Reject, FilterNext
<1>7. CASE MarkAllIrreplaceable
  BY <1>7 DEF MarkAllIrreplaceable
<1>8. CASE UNCHANGED allVars
  BY <1>8 DEF allVars
<1>. QED
  BY <1>1, <1>2, <1>3, <1>4, <1>5, <1>6, <1>7, <1>8 DEF FilteredNext

\* The table with its filter is a table: what addPeer does in two steps, with
\* the application at the filter in between, is one step of TryAddPeer.
THEOREM FilteredIsTable == FilteredSpec => Spec
<1>1. FilteredInit => Init
  BY DEF FilteredInit
<1>. QED BY <1>1, TableStepOfFiltered, FilteredIInvHolds, PTL DEF FilteredSpec, Spec

\* And its filter is a filter: addPeer and removePeer use it as any other user
\* of its methods does.
THEOREM FilteredIsFilter == FilteredSpec => FilterSpec
<1>1. FilteredInit => FilterInit
  BY DEF FilteredInit
<1>. QED
  BY <1>1, FilterStepOfFiltered, FilteredIInvHolds, PTL DEF FilteredSpec, FilterSpec

\* So all that is proved of the table and of the filter by themselves holds of
\* them together: the table with its filter implements the ideal table, too.
THEOREM FilteredRefinement == FilteredSpec => ImplementsIdealTable
BY FilteredIsTable, Refinement, PTL

-----------------------------------------------------------------------------
(* Grouping: two addresses have one key exactly if they are in one group.  *)

KeyIsOf == \A a \in DOMAIN keyOf : a \in IP /\ keyOf[a] = IPGroupKey(a)

LEMMA AddressForms ==
    ASSUME NEW a \in IP
    PROVE  \/ a \in IPv4 /\ IsIPv4(a) /\ a.bytes \in [1..4 -> Byte] /\ To4(a) = a.bytes /\ To4(a) # <<>>
           \/ a \in IPv6 /\ ~IsIPv4(a) /\ a.asn \in Asn /\ To4(a) = <<>>
<1>1. CASE a \in IPv4
    <2>1. IsIPv4(a) /\ a.bytes \in [1..4 -> Byte]
        BY <1>1 DEF IPv4, IsIPv4
    <2>2. a.bytes # <<>>
        <3>1. DOMAIN a.bytes = 1..4 /\ 1 \in 1..4
            BY <2>1
        <3>2. 1 \notin DOMAIN <<>>
            OBVIOUS
        <3> QED BY <3>1, <3>2
    <2> QED BY <1>1, <2>1, <2>2 DEF To4
<1>2. CASE a \in IPv6
    <2>1. ~IsIPv4(a) /\ a.asn \in Asn
        BY <1>2 DEF IPv6, IsIPv4
    <2> QED BY <1>2, <2>1 DEF To4
<1> QED BY <1>1, <1>2 DEF IP

(***************************************************************************)
(* The masked bytes are the same if and only if the first n are.           *)
(***************************************************************************)
LEMMA MaskedBytes ==
    ASSUME NEW x \in [1..4 -> Byte], NEW y \in [1..4 -> Byte]
    PROVE  /\ Masked(x, 1) = Masked(y, 1) <=> x[1] = y[1]
           /\ Masked(x, 2) = Masked(y, 2) <=> x[1] = y[1] /\ x[2] = y[2]
           /\ \A n, k \in 1..2 : Masked(x, n) = Masked(y, k) => x[1] = y[1]
<1>1. \A z \in [1..4 -> Byte], n \in 1..2 :
          /\ Masked(z, n)[1] = z[1]
          /\ Masked(z, n)[2] = IF n = 2 THEN z[2] ELSE 0
          /\ Masked(z, n)[3] = 0 /\ Masked(z, n)[4] = 0
    BY DEF Masked
<1>2. \A n \in 1..2 : (\A i \in 1..4 : Masked(x, n)[i] = Masked(y, n)[i]) => Masked(x, n) = Masked(y, n)
    BY DEF Masked
<1>3. 1..4 = {1, 2, 3, 4} /\ 1..2 = {1, 2}
    OBVIOUS
<1> HIDE DEF Masked
<1> QED BY <1>1, <1>2, <1>3

LEMMA KeysOfGroups ==
    ASSUME NEW a \in IP, NEW b \in IP, HasGroup(a)
    PROVE  IPGroupKey(a) = IPGroupKey(b) <=> SameGroup(a, b)
<1>1. CASE IsIPv4(a) /\ IsIPv4(b)
    <2>1. /\ a.bytes \in [1..4 -> Byte] /\ To4(a) = a.bytes /\ To4(a) # <<>>
          /\ b.bytes \in [1..4 -> Byte] /\ To4(b) = b.bytes /\ To4(b) # <<>>
        BY <1>1, AddressForms
    <2> DEFINE n(z) == IF InLegacyCidrs(z) THEN 1 ELSE 2
    <2>2. /\ IPGroupKey(a) = <<"ip", Masked(a.bytes, n(a.bytes))>>
          /\ IPGroupKey(b) = <<"ip", Masked(b.bytes, n(b.bytes))>>
        BY <2>1 DEF IPGroupKey, AsnForIPv6
    <2>3. IPGroupKey(a) = IPGroupKey(b)
            <=> Masked(a.bytes, n(a.bytes)) = Masked(b.bytes, n(b.bytes))
        BY <2>2
    <2>4. a.bytes[1] = b.bytes[1] => n(a.bytes) = n(b.bytes)
        BY DEF InLegacyCidrs
    <2>5. n(a.bytes) \in 1..2 /\ n(b.bytes) \in 1..2
        OBVIOUS
    <2>6. SameGroup(a, b) <=> /\ a.bytes[1] = b.bytes[1]
                              /\ n(a.bytes) = 1 \/ a.bytes[2] = b.bytes[2]
        BY <1>1 DEF SameGroup, InLegacyCidrs
    <2>7. n(a.bytes) = 1 \/ n(a.bytes) = 2
        OBVIOUS
    <2> HIDE DEF n
    <2> QED BY <2>1, <2>3, <2>4, <2>5, <2>6, <2>7, MaskedBytes
<1>2. CASE ~IsIPv4(a) /\ ~IsIPv4(b)
    <2>1. To4(a) = <<>> /\ To4(b) = <<>>
        BY <1>2, AddressForms
    <2>2. a.asn # 0
        BY <1>2 DEF HasGroup
    <2>3. IPGroupKey(a) = <<"ASN", a.asn>>
        BY <2>1, <2>2 DEF IPGroupKey, AsnForIPv6
    <2>4. b.asn # 0 => IPGroupKey(b) = <<"ASN", b.asn>>
        BY <2>1 DEF IPGroupKey, AsnForIPv6
    <2>5. b.asn = 0 => IPGroupKey(b)[1] = "unknown ASN"
        BY <2>1 DEF IPGroupKey, AsnForIPv6
    <2>6. SameGroup(a, b) <=> a.asn = b.asn
        BY <1>2 DEF SameGroup
    <2>7. CASE b.asn = 0
        <3>1. IPGroupKey(a)[1] = "ASN"
            BY <2>3
        <3>2. IPGroupKey(a) # IPGroupKey(b)
            BY <3>1, <2>5, <2>7
        <3> QED BY <3>2, <2>2, <2>6, <2>7
    <2>8. CASE b.asn # 0
        BY <2>3, <2>4, <2>6, <2>8
    <2> QED BY <2>7, <2>8
<1>3. CASE \/ IsIPv4(a) /\ ~IsIPv4(b)
           \/ ~IsIPv4(a) /\ IsIPv4(b)
    <2>1. \A z \in IP : IsIPv4(z) <=> IPGroupKey(z)[1] = "ip"
        <3> SUFFICES ASSUME NEW z \in IP
                     PROVE  IsIPv4(z) <=> IPGroupKey(z)[1] = "ip"
            OBVIOUS
        <3>1. CASE IsIPv4(z)
            BY <3>1, AddressForms DEF IPGroupKey, AsnForIPv6
        <3>2. CASE ~IsIPv4(z)
            BY <3>2, AddressForms DEF IPGroupKey, AsnForIPv6
        <3> QED BY <3>1, <3>2
    <2>2. IPGroupKey(a) # IPGroupKey(b)
        BY <1>3, <2>1
    <2>3. ~SameGroup(a, b)
        BY <1>3 DEF SameGroup
    <2> QED BY <2>2, <2>3
<1> QED BY <1>1, <1>2, <1>3

(***************************************************************************)
(* Two of the addresses grouped have one key if and only if they are in    *)
(* one group: whatever TryAdd is asked about, and in whatever order.       *)
(***************************************************************************)
THEOREM OneKeyPerGroupHolds == GroupingSpec => []OneKeyPerGroup
<1>1. GroupingInit => KeyIsOf
    BY DEF GroupingInit, KeyIsOf
<1>2. KeyIsOf /\ [GroupingNext]_groupingVars => KeyIsOf'
    <2> SUFFICES ASSUME KeyIsOf, [GroupingNext]_groupingVars PROVE KeyIsOf'
        OBVIOUS
    <2>1. CASE UNCHANGED groupingVars
        BY <2>1 DEF groupingVars, KeyIsOf
    <2>2. CASE GroupingNext
        <3> PICK ip \in IP : GroupAddress(ip)
            BY <2>2 DEF GroupingNext
        <3>1. keyOf' = [a \in DOMAIN keyOf \cup {ip} |->
                           IF a = ip THEN IPGroupKey(ip) ELSE keyOf[a]]
            BY DEF GroupAddress
        <3> QED BY <3>1 DEF KeyIsOf
    <2> QED BY <2>1, <2>2
<1>3. KeyIsOf => OneKeyPerGroup
    BY KeysOfGroups DEF KeyIsOf, OneKeyPerGroup
<1> QED BY <1>1, <1>2, <1>3, PTL DEF GroupingSpec
=============================================================================
