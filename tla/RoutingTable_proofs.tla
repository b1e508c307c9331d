------------------------- MODULE RoutingTable_proofs -------------------------
(***************************************************************************)
(* Proofs about RoutingTable.tla, and about RefreshTracking.tla, which adds*)
(* the refresh times, for any set of peers, any bucket size, any length of *)
(* ID and any bound on the clock.                                          *)
(***************************************************************************)
EXTENDS RefreshTracking, KBuckets_proofs

\* The conjuncts are not inductive one by one: a lookup by Cpl finds a peer
\* only in a well-placed table, a full bucket is unfolded to make room only
\* if it was within its capacity, and the PeerInfo of a peer exists because
\* the domain of info is the set of peers in the buckets.
IInv ==
    /\ TypeOK
    /\ Placement
    /\ Capacity
    /\ CallbacksMirrorTable
    /\ UnfoldingBounded

LEMMA IInvTable ==
  ASSUME IInv
  PROVE  /\ IsTable(buckets) /\ WellPlaced(buckets) /\ WithinCapacity(buckets)
         /\ Len(buckets) <= MaxCpl + 2
         /\ GoodTable(buckets)
         /\ DOMAIN info = TablePeers /\ notified = TablePeers
         /\ TablePeers \in SUBSET Peer
         /\ \A p \in Peer : InTable(p) <=> p \in TablePeers
<1>1. IsTable(buckets) /\ WellPlaced(buckets)
  BY DEF IInv, TypeOK, IsTable, Placement
<1>2. \A p \in Peer : InTable(p) <=> p \in TablePeers
  BY <1>1, LookupFindsPeer DEF InTable, TablePeers
<1>. QED
  BY <1>1, <1>2
  DEF IInv, TypeOK, Capacity, CallbacksMirrorTable, UnfoldingBounded, GoodTable

\* The buckets addPeer looks into: as good a table as before, with the same
\* peers in it, where a bucket without room is never the last.
LEMMA CandidateTable ==
  ASSUME IInv, NEW p \in Peer
  PROVE  LET bs == Candidate(p)
         IN  /\ IsTable(bs) /\ WellPlaced(bs) /\ WithinCapacity(bs)
             /\ Peers(bs) = TablePeers
             /\ Len(bs) <= MaxCpl + 2
             /\ ~HasRoom(bs, p) => BucketIdForPeer(bs, p) < Len(bs)
<1>1. Candidate(p) = Unfolded(buckets, p)
  BY DEF Candidate, Unfolded
<1>. QED BY <1>1, IInvTable, UnfoldedTable DEF GoodTable, TablePeers

LEMMA NewPeerInfoType ==
  ASSUME TypeOK, NEW queryPeer \in BOOLEAN, NEW isReplaceable \in BOOLEAN
  PROVE  NewPeerInfo(queryPeer, isReplaceable) \in PeerInfo
BY DEF TypeOK, NewPeerInfo, PeerInfo, Times, TimesOrNever

\* Where addPeer finds room.
LEMMA AddNewTable ==
  ASSUME IInv, NEW p \in Peer, NEW queryPeer, NEW isReplaceable,
         AddNew(p, queryPeer, isReplaceable)
  PROVE  /\ IsTable(buckets') /\ WellPlaced(buckets') /\ WithinCapacity(buckets')
         /\ Len(buckets') <= MaxCpl + 2
         /\ TablePeers' = TablePeers \cup {p}
<1>1. GoodTable(Candidate(p)) /\ Peers(Candidate(p)) = TablePeers
  BY CandidateTable DEF GoodTable
<1>2. buckets' = Push(Candidate(p), p) /\ HasRoom(Candidate(p), p)
  BY DEF AddNew
<1>. QED BY <1>1, <1>2, PushedTable DEF TablePeers, GoodTable

\* Where addPeer replaces a peer: the bucket holds one too many in between.
LEMMA AddReplacingTable ==
  ASSUME IInv, NEW p \in Peer, NEW v \in TablePeers,
         NEW queryPeer, NEW isReplaceable,
         AddReplacing(p, v, queryPeer, isReplaceable)
  PROVE  /\ IsTable(buckets') /\ WellPlaced(buckets') /\ WithinCapacity(buckets')
         /\ Len(buckets') <= MaxCpl + 2
         /\ TablePeers' = (TablePeers \cup {p}) \ {v}
         /\ v # p /\ p \notin TablePeers
<1>1. GoodTable(Candidate(p)) /\ Peers(Candidate(p)) = TablePeers
  BY CandidateTable DEF GoodTable
<1>2. /\ buckets' = RemoveFrom(Push(Candidate(p), p), v)
      /\ ~InTable(p) /\ v \in BucketForPeer(Candidate(p), p)
  BY DEF AddReplacing, Victims
<1>3. p \notin TablePeers
  BY <1>2, IInvTable
<1>. QED BY <1>1, <1>2, <1>3, ReplacedTable DEF TablePeers, GoodTable

LEMMA RemovePeerTable ==
  ASSUME IInv, NEW p \in Peer, RemovePeer(p)
  PROVE  /\ IsTable(buckets') /\ WellPlaced(buckets') /\ WithinCapacity(buckets')
         /\ Len(buckets') <= MaxCpl + 2
         /\ TablePeers' = TablePeers \ {p}
<1>1. p \in BucketForPeer(buckets, p) /\ buckets' = RemoveFrom(buckets, p)
  BY DEF RemovePeer, InTable
<1>. QED BY <1>1, IInvTable, RemovedTable DEF TablePeers, GoodTable

-----------------------------------------------------------------------------
(* The inductive invariant.                                                *)

LEMMA IInvInit == Init => IInv
<1>. SUFFICES ASSUME Init PROVE IInv
  OBVIOUS
<1>1. /\ IsTable(buckets) /\ WellPlaced(buckets) /\ WithinCapacity(buckets)
      /\ Len(buckets) = 1 /\ TablePeers = {}
  BY EmptyTable DEF Init, TablePeers
<1>2. TypeOK
  BY <1>1, MaxTimeAssumption DEF Init, TypeOK, IsTable, Replies, Times
<1>. QED
  BY <1>1, <1>2, CplAssumption
  DEF Init, IInv, Placement, Capacity, CallbacksMirrorTable, UnfoldingBounded

\* A step that changes the buckets keeps the invariant if it leaves a good
\* table and brings info and notified in line with it.
LEMMA IInvFromTable ==
  ASSUME IsTable(buckets'), WellPlaced(buckets'), WithinCapacity(buckets'),
         Len(buckets') <= MaxCpl + 2,
         info' \in [TablePeers' -> PeerInfo], notified' = TablePeers',
         reply' \in Replies, now' \in Times
  PROVE  IInv'
<1>1. TablePeers' \in SUBSET Peer /\ DOMAIN info' = TablePeers'
  BY DEF IsTable, TablePeers, Peers, Buckets
<1>2. TypeOK'
  BY <1>1 DEF TypeOK, IsTable
<1>. QED
  BY <1>1, <1>2
  DEF IInv, Placement, Capacity, CallbacksMirrorTable, UnfoldingBounded

\* A step that keeps the buckets may change info and reply within their types.
LEMMA IInvFromInfo ==
  ASSUME IInv, UNCHANGED <<buckets, notified>>,
         info' \in [TablePeers -> PeerInfo], reply' \in Replies, now' \in Times
  PROVE  IInv'
BY IInvTable, IInvFromTable DEF TablePeers

LEMMA InfoType ==
  ASSUME IInv
  PROVE  /\ info \in [TablePeers -> PeerInfo]
         /\ reply \in Replies /\ now \in Times
         /\ \A p \in TablePeers : info[p] \in PeerInfo
BY IInvTable DEF IInv, TypeOK

LEMMA TryAddPeerKeepsIInv ==
  ASSUME IInv, NEW p \in Peer,
         NEW queryPeer \in BOOLEAN, NEW isReplaceable \in BOOLEAN,
         TryAddPeer(p, queryPeer, isReplaceable)
  PROVE  IInv'
<1>. USE InfoType, IInvTable
<1>0. NewPeerInfo(queryPeer, isReplaceable) \in PeerInfo
  BY NewPeerInfoType DEF IInv
<1>1. CASE AddExisting(p, queryPeer, isReplaceable)
  <2>1. p \in TablePeers
    BY <1>1 DEF AddExisting
  <2>2. [info[p] EXCEPT !.lastUsefulAt = now] \in PeerInfo
    BY <2>1 DEF PeerInfo, TimesOrNever
  <2>3. info' \in [TablePeers -> PeerInfo]
    BY <1>1, <2>1, <2>2 DEF AddExisting
  <2>. QED BY <1>1, <2>3, IInvFromInfo DEF AddExisting, Replies
<1>2. CASE \E err \in {"latency", "diversity"} : TurnAway(p, err)
  BY <1>2, IInvFromInfo DEF TurnAway, Replies
<1>3. CASE AddNew(p, queryPeer, isReplaceable)
  <2>1. /\ IsTable(buckets') /\ WellPlaced(buckets') /\ WithinCapacity(buckets')
        /\ Len(buckets') <= MaxCpl + 2
        /\ TablePeers' = TablePeers \cup {p}
    BY <1>3, AddNewTable
  <2>2. info' \in [TablePeers' -> PeerInfo]
    BY <1>0, <1>3, <2>1 DEF AddNew
  <2>. QED BY <1>3, <2>1, <2>2, IInvFromTable DEF AddNew, Replies
<1>4. CASE \E v \in TablePeers : AddReplacing(p, v, queryPeer, isReplaceable)
  <2>1. PICK v \in TablePeers : AddReplacing(p, v, queryPeer, isReplaceable)
    BY <1>4
  <2>2. /\ IsTable(buckets') /\ WellPlaced(buckets') /\ WithinCapacity(buckets')
        /\ Len(buckets') <= MaxCpl + 2
        /\ TablePeers' = (TablePeers \cup {p}) \ {v}
    BY <2>1, AddReplacingTable
  <2>3. info' \in [TablePeers' -> PeerInfo]
    BY <1>0, <2>1, <2>2 DEF AddReplacing
  <2>. QED BY <2>1, <2>2, <2>3, IInvFromTable DEF AddReplacing, Replies
<1>5. CASE RejectNoCapacity(p)
  <2>1. /\ IsTable(buckets') /\ WellPlaced(buckets') /\ WithinCapacity(buckets')
        /\ Len(buckets') <= MaxCpl + 2 /\ TablePeers' = TablePeers
    BY <1>5, CandidateTable DEF RejectNoCapacity, TablePeers
  <2>. QED BY <1>5, <2>1, IInvFromTable DEF RejectNoCapacity, Replies
<1>. QED BY <1>1, <1>2, <1>3, <1>4, <1>5 DEF TryAddPeer

LEMMA IInvStep == IInv /\ [Next]_vars => IInv'
<1>. SUFFICES ASSUME IInv, [Next]_vars PROVE IInv'
  OBVIOUS
<1>. USE InfoType, IInvTable
<1>1. ASSUME NEW p \in Peer,
             NEW queryPeer \in QueryPeerArg, NEW isReplaceable \in BOOLEAN,
             TryAddPeer(p, queryPeer, isReplaceable)
      PROVE  IInv'
  BY <1>1, TryAddPeerKeepsIInv, QueryPeerArgAssumption
<1>2. ASSUME NEW p \in Peer, RemovePeer(p) PROVE IInv'
  <2>1. /\ IsTable(buckets') /\ WellPlaced(buckets') /\ WithinCapacity(buckets')
        /\ Len(buckets') <= MaxCpl + 2
        /\ TablePeers' = TablePeers \ {p}
    BY <1>2, RemovePeerTable
  <2>2. info' \in [TablePeers' -> PeerInfo]
    BY <1>2, <2>1 DEF RemovePeer
  <2>. QED BY <1>2, <2>1, <2>2, IInvFromTable DEF RemovePeer
<1>3. CASE MarkAllPeersIrreplaceable
  <2>1. \A p \in TablePeers : [info[p] EXCEPT !.replaceable = FALSE] \in PeerInfo
    BY DEF PeerInfo
  <2>2. info' \in [TablePeers -> PeerInfo]
    BY <1>3, <2>1 DEF MarkAllPeersIrreplaceable
  <2>. QED BY <1>3, <2>2, IInvFromInfo DEF MarkAllPeersIrreplaceable
<1>4. ASSUME NEW p \in Peer, NEW t \in TimesOrNever, UpdateLastUsefulAt(p, t) PROVE IInv'
  <2>1. p \in TablePeers
    BY <1>4 DEF UpdateLastUsefulAt
  <2>2. [info[p] EXCEPT !.lastUsefulAt = t] \in PeerInfo
    BY <1>4, <2>1 DEF PeerInfo
  <2>3. info' \in [TablePeers -> PeerInfo]
    BY <1>4, <2>1, <2>2 DEF UpdateLastUsefulAt
  <2>. QED BY <1>4, <2>3, IInvFromInfo DEF UpdateLastUsefulAt
<1>5. ASSUME NEW p \in Peer, NEW t \in TimesOrNever,
             UpdateLastSuccessfulOutboundQueryAt(p, t)
      PROVE  IInv'
  <2>1. p \in TablePeers
    BY <1>5 DEF UpdateLastSuccessfulOutboundQueryAt
  <2>2. [info[p] EXCEPT !.lastSuccessfulOutboundQueryAt = t] \in PeerInfo
    BY <1>5, <2>1 DEF PeerInfo
  <2>3. info' \in [TablePeers -> PeerInfo]
    BY <1>5, <2>1, <2>2 DEF UpdateLastSuccessfulOutboundQueryAt
  <2>. QED BY <1>5, <2>3, IInvFromInfo DEF UpdateLastSuccessfulOutboundQueryAt
<1>6. CASE Tick
  <2>1. now' \in Times
    BY <1>6, MaxTimeAssumption DEF Tick, Times
  <2>. QED BY <1>6, <2>1, IInvFromInfo DEF Tick
<1>7. CASE UNCHANGED vars
  BY <1>7, IInvFromInfo DEF vars
<1>. QED BY <1>1, <1>2, <1>3, <1>4, <1>5, <1>6, <1>7 DEF Next

LEMMA IInvHolds == Spec => []IInv
BY IInvInit, IInvStep, PTL DEF Spec

-----------------------------------------------------------------------------
(* The invariants that the runs check.                                     *)

\* Every variable keeps its type.
THEOREM TypeCorrect == Spec => []TypeOK
BY IInvHolds, PTL DEF IInv

\* Every peer stays in the bucket that its Cpl leads to, however often the
\* table is unfolded and collapsed (nextBucket, removePeer).
THEOREM PlacementHolds == Spec => []Placement
BY IInvHolds, PTL DEF IInv

\* No bucket ever holds more than bucketsize peers between two calls.
THEOREM CapacityHolds == Spec => []Capacity
BY IInvHolds, PTL DEF IInv

\* Whoever follows PeerAdded and PeerRemoved knows exactly the table's peers.
THEOREM CallbacksMirrorTableHolds == Spec => []CallbacksMirrorTable
BY IInvHolds, PTL DEF IInv

\* The table has never more buckets than an ID has bits, and two.
THEOREM UnfoldingIsBounded == Spec => []UnfoldingBounded
BY IInvHolds, PTL DEF IInv

-----------------------------------------------------------------------------
(* UsefulNewPeer.                                                          *)

\* A table that holds the peers of one Cpl within its capacity.
LEMMA GroupSize ==
  ASSUME NEW bs, IsTable(bs), WellPlaced(bs), WithinCapacity(bs), NEW p \in Peer
  PROVE  LET group == {q \in Peers(bs) : Cpl[q] = Cpl[p]}
             b == BucketForPeer(bs, p)
         IN  /\ IsFiniteSet(b) /\ Cardinality(b) \in Nat
             /\ Cardinality(b) <= BucketSize
             /\ Cardinality(group) \in Nat
             /\ Cardinality(group) <= Cardinality(b)
             /\ group # b => Cardinality(group) < Cardinality(b)
<1>. DEFINE group == {q \in Peers(bs) : Cpl[q] = Cpl[p]}
            b == BucketForPeer(bs, p)
<1>1. IsFiniteSet(b) /\ Cardinality(b) <= BucketSize
  BY BucketIdInTable DEF BucketForPeer, WithinCapacity
<1>2. group \subseteq b
  BY GroupInBucket
<1>. HIDE DEF group, b
<1>3. /\ IsFiniteSet(group) /\ Cardinality(group) <= Cardinality(b)
      /\ Cardinality(b) = Cardinality(group) => b = group
  BY <1>1, <1>2, FS_Subset
<1>4. Cardinality(b) \in Nat /\ Cardinality(group) \in Nat
  BY <1>1, <1>3, FS_CardinalityType
<1>. QED BY <1>1, <1>3, <1>4 DEF group, b

LEMMA UsefulNewPeerIsExact == IInv => UsefulNewPeerExact
<1>. SUFFICES ASSUME IInv, NEW p \in Peer
              PROVE  UsefulNewPeer(p) <=>
                        /\ p \notin TablePeers
                        /\ \/ Cardinality(SameCpl(Cpl[p])) < BucketSize
                           \/ \E q \in SameCpl(Cpl[p]) : info[q].replaceable
  BY DEF UsefulNewPeerExact
<1>. DEFINE b == BucketForPeer(buckets, p)
            group == SameCpl(Cpl[p])
<1>1. IsTable(buckets) /\ WellPlaced(buckets) /\ WithinCapacity(buckets)
  BY IInvTable
<1>2. p \in b <=> p \in TablePeers
  BY <1>1, LookupFindsPeer DEF TablePeers
<1>3. /\ group = {q \in TablePeers : Cpl[q] = Cpl[p]}
      /\ group \subseteq b /\ b \subseteq TablePeers
      /\ ~InLastBucket(buckets, p) => group = b
  <2>1. BucketIdForPeer(buckets, p) \in 1..Len(buckets) /\ Len(buckets) \in Nat
    BY <1>1, BucketIdInTable
  <2>. QED BY <1>1, <2>1, GroupInBucket DEF SameCpl, TablePeers, InLastBucket
<1>4. /\ Cardinality(b) \in Nat /\ Cardinality(b) <= BucketSize
      /\ Cardinality(group) \in Nat /\ Cardinality(group) <= Cardinality(b)
      /\ group # b => Cardinality(group) < Cardinality(b)
  BY <1>1, GroupSize DEF SameCpl, TablePeers
<1>5. HasRoom(buckets, p) <=> Cardinality(b) < BucketSize
  BY DEF HasRoom
<1>6. (\E q \in b : Cpl[q] # Cpl[p]) <=> group # b
  BY <1>3
<1>7. UsefulNewPeer(p) <=>
        /\ p \notin b
        /\ \/ HasRoom(buckets, p)
           \/ \E q \in b : info[q].replaceable
           \/ InLastBucket(buckets, p) /\ group # b
  BY <1>6 DEF UsefulNewPeer
<1>. HIDE DEF b, group
<1>8. CASE group = b
  BY <1>2, <1>5, <1>7, <1>8 DEF group
<1>9. CASE group # b
  <2>1. Cardinality(group) < BucketSize
    BY <1>4, <1>9, BucketSizeAssumption
  <2>2. InLastBucket(buckets, p)
    BY <1>3, <1>9
  <2>. QED BY <1>2, <1>7, <1>9, <2>1, <2>2 DEF group
<1>. QED BY <1>8, <1>9

\* UsefulNewPeer, asked before a call, tells exactly whether addPeer would
\* find a place for the peer.
THEOREM UsefulNewPeerExactHolds == Spec => []UsefulNewPeerExact
BY IInvHolds, UsefulNewPeerIsExact, PTL

-----------------------------------------------------------------------------
(* Eviction.                                                               *)

\* addPeer lacks room exactly when the table holds bucketsize peers of p's
\* Cpl, and then p's bucket holds just these.
LEMMA RoomForGroup ==
  ASSUME IInv, NEW p \in Peer
  PROVE  LET bs == Candidate(p)
         IN  /\ HasRoom(bs, p) => Cardinality(SameCpl(Cpl[p])) < BucketSize
             /\ ~HasRoom(bs, p) =>
                   /\ BucketForPeer(bs, p) = SameCpl(Cpl[p])
                   /\ Cardinality(SameCpl(Cpl[p])) = BucketSize
<1>. DEFINE bs == Candidate(p)
            b == BucketForPeer(bs, p)
            group == SameCpl(Cpl[p])
<1>1. /\ IsTable(bs) /\ WellPlaced(bs) /\ WithinCapacity(bs)
      /\ Peers(bs) = TablePeers
      /\ ~HasRoom(bs, p) => BucketIdForPeer(bs, p) < Len(bs)
  BY CandidateTable
<1>. HIDE DEF bs
<1>2. group = {q \in Peers(bs) : Cpl[q] = Cpl[p]}
  BY <1>1 DEF SameCpl
<1>3. ~HasRoom(bs, p) => b = group
  BY <1>1, <1>2, GroupInBucket
<1>4. /\ Cardinality(b) \in Nat /\ Cardinality(b) <= BucketSize
      /\ Cardinality(group) \in Nat /\ Cardinality(group) <= Cardinality(b)
  BY <1>1, <1>2, GroupSize
<1>5. HasRoom(bs, p) <=> Cardinality(b) < BucketSize
  BY DEF HasRoom
<1>. HIDE DEF b, group
<1>6. HasRoom(bs, p) => Cardinality(group) < BucketSize
  BY <1>4, <1>5, BucketSizeAssumption
<1>7. ~HasRoom(bs, p) => Cardinality(group) = BucketSize
  BY <1>3, <1>4, <1>5, BucketSizeAssumption
<1>. QED BY <1>3, <1>6, <1>7 DEF b, bs, group

\* What a replacement does, seen from the peers of one Cpl.
LEMMA Replacement ==
  ASSUME IInv, NEW p \in Peer, NEW v \in TablePeers,
         NEW queryPeer, NEW isReplaceable,
         AddReplacing(p, v, queryPeer, isReplaceable)
  PROVE  /\ v \in SameCpl(Cpl[p]) /\ Cpl[v] = Cpl[p]
         /\ info[v].replaceable
         /\ Cardinality(SameCpl(Cpl[p])) = BucketSize
         /\ p \notin TablePeers
         /\ TablePeers' = (TablePeers \cup {p}) \ {v}
         /\ TablePeers \ TablePeers' = {v}
         /\ TablePeers' \ TablePeers = {p}
<1>1. /\ ~HasRoom(Candidate(p), p)
      /\ v \in BucketForPeer(Candidate(p), p) /\ info[v].replaceable
  BY DEF AddReplacing, Victims
<1>2. v \in SameCpl(Cpl[p]) /\ Cardinality(SameCpl(Cpl[p])) = BucketSize
  BY <1>1, RoomForGroup
<1>3. TablePeers' = (TablePeers \cup {p}) \ {v} /\ p \notin TablePeers /\ v # p
  BY AddReplacingTable
<1>. QED BY <1>1, <1>2, <1>3 DEF SameCpl

LEMMA KeepsPeers ==
  ASSUME IInv, NEW p \in Peer, RejectNoCapacity(p)
  PROVE  TablePeers' = TablePeers
BY CandidateTable DEF RejectNoCapacity, TablePeers

LEMMA EvictsJustlyStep == IInv /\ [Next]_vars => [EvictsJustly]_vars
<1>. SUFFICES ASSUME IInv, Next PROVE EvictsJustly
  OBVIOUS
<1>1. ASSUME TablePeers \subseteq TablePeers' PROVE EvictsJustly
  BY <1>1 DEF EvictsJustly
<1>2. ASSUME TablePeers' \subseteq TablePeers PROVE EvictsJustly
  BY <1>2 DEF EvictsJustly
<1>3. ASSUME NEW p \in Peer, NEW queryPeer, NEW isReplaceable,
             TryAddPeer(p, queryPeer, isReplaceable)
      PROVE  EvictsJustly
  <2>1. CASE AddExisting(p, queryPeer, isReplaceable)
    BY <1>1, <2>1 DEF AddExisting, TablePeers
  <2>2. CASE \E err \in {"latency", "diversity"} : TurnAway(p, err)
    BY <1>1, <2>2 DEF TurnAway, TablePeers
  <2>3. CASE AddNew(p, queryPeer, isReplaceable)
    BY <1>1, <2>3, AddNewTable
  <2>4. CASE \E v \in TablePeers : AddReplacing(p, v, queryPeer, isReplaceable)
    <3>1. PICK v \in TablePeers : AddReplacing(p, v, queryPeer, isReplaceable)
      BY <2>4
    <3>2. /\ Cpl[v] = Cpl[p] /\ info[v].replaceable
          /\ Cardinality(SameCpl(Cpl[v])) = BucketSize
          /\ TablePeers \ TablePeers' = {v}
          /\ TablePeers' \ TablePeers = {p}
      BY <3>1, Replacement
    <3>. QED BY <3>2 DEF EvictsJustly
  <2>5. CASE RejectNoCapacity(p)
    BY <1>1, <2>5, KeepsPeers
  <2>. QED BY <1>3, <2>1, <2>2, <2>3, <2>4, <2>5 DEF TryAddPeer
<1>4. ASSUME NEW p \in Peer, RemovePeer(p) PROVE EvictsJustly
  BY <1>2, <1>4, RemovePeerTable
<1>5. CASE UNCHANGED buckets
  BY <1>1, <1>5 DEF TablePeers
<1>. QED
  BY <1>3, <1>4, <1>5
  DEF Next, MarkAllPeersIrreplaceable, UpdateLastUsefulAt,
      UpdateLastSuccessfulOutboundQueryAt, Tick

\* A peer is evicted only for another one of its Cpl, only if it is
\* replaceable, and only if its Cpl has bucketsize peers.
THEOREM EvictionIsJustified == Spec => EvictionJustified
BY IInvHolds, EvictsJustlyStep, PTL DEF Spec, EvictionJustified

LEMMA KeepsIrreplaceableStep == IInv /\ [Next]_vars => [KeepsIrreplaceable]_vars
<1>. SUFFICES ASSUME IInv, Next, NEW q \in TablePeers, ~info[q].replaceable
              PROVE  \/ q \in TablePeers' /\ ~info'[q].replaceable
                     \/ TablePeers' = TablePeers \ {q}
  BY DEF KeepsIrreplaceable
<1>. USE IInvTable
<1>0. info[q] \in PeerInfo
  BY InfoType
<1>1. ASSUME NEW p \in Peer, NEW queryPeer, NEW isReplaceable,
             TryAddPeer(p, queryPeer, isReplaceable)
      PROVE  q \in TablePeers' /\ ~info'[q].replaceable
  <2>1. CASE AddExisting(p, queryPeer, isReplaceable)
    <3>1. info'[q] = info[q] \/ info'[q] = [info[q] EXCEPT !.lastUsefulAt = now]
      BY <2>1 DEF AddExisting
    <3>2. info'[q].replaceable = info[q].replaceable
      BY <1>0, <3>1 DEF PeerInfo
    <3>. QED BY <2>1, <3>2 DEF AddExisting, TablePeers
  <2>2. CASE \E err \in {"latency", "diversity"} : TurnAway(p, err)
    BY <2>2 DEF TurnAway, TablePeers
  <2>3. CASE AddNew(p, queryPeer, isReplaceable)
    <3>1. TablePeers' = TablePeers \cup {p} /\ p \notin TablePeers
      BY <2>3, AddNewTable DEF AddNew
    <3>2. info'[q] = info[q]
      BY <2>3, <3>1 DEF AddNew
    <3>. QED BY <3>1, <3>2
  <2>4. CASE \E v \in TablePeers : AddReplacing(p, v, queryPeer, isReplaceable)
    <3>1. PICK v \in TablePeers : AddReplacing(p, v, queryPeer, isReplaceable)
      BY <2>4
    <3>2. /\ info[v].replaceable /\ p \notin TablePeers
          /\ TablePeers' = (TablePeers \cup {p}) \ {v}
      BY <3>1, Replacement
    <3>3. q # v /\ q # p
      BY <3>2
    <3>4. info'[q] = info[q]
      BY <3>1, <3>3 DEF AddReplacing
    <3>. QED BY <3>2, <3>3, <3>4
  <2>5. CASE RejectNoCapacity(p)
    BY <2>5, KeepsPeers DEF RejectNoCapacity
  <2>. QED BY <1>1, <2>1, <2>2, <2>3, <2>4, <2>5 DEF TryAddPeer
<1>2. ASSUME NEW p \in Peer, RemovePeer(p)
      PROVE  \/ q \in TablePeers' /\ ~info'[q].replaceable
             \/ TablePeers' = TablePeers \ {q}
  <2>1. TablePeers' = TablePeers \ {p}
    BY <1>2, RemovePeerTable
  <2>2. CASE p = q
    BY <2>1, <2>2
  <2>3. CASE p # q
    BY <1>2, <2>1, <2>3 DEF RemovePeer
  <2>. QED BY <2>2, <2>3
<1>3. ASSUME UNCHANGED buckets,
             info'[q].replaceable = info[q].replaceable \/ ~info'[q].replaceable
      PROVE  q \in TablePeers' /\ ~info'[q].replaceable
  BY <1>3 DEF TablePeers
<1>4. CASE MarkAllPeersIrreplaceable
  <2>1. info'[q] = [info[q] EXCEPT !.replaceable = FALSE]
    BY <1>4 DEF MarkAllPeersIrreplaceable
  <2>2. ~info'[q].replaceable
    BY <1>0, <2>1 DEF PeerInfo
  <2>. QED BY <1>3, <1>4, <2>2 DEF MarkAllPeersIrreplaceable
<1>5. ASSUME NEW p \in Peer, NEW t \in TimesOrNever, UpdateLastUsefulAt(p, t)
      PROVE  q \in TablePeers' /\ ~info'[q].replaceable
  <2>1. info'[q] = info[q] \/ info'[q] = [info[q] EXCEPT !.lastUsefulAt = t]
    BY <1>5 DEF UpdateLastUsefulAt
  <2>2. info'[q].replaceable = info[q].replaceable
    BY <1>0, <2>1 DEF PeerInfo
  <2>. QED BY <1>3, <1>5, <2>2 DEF UpdateLastUsefulAt
<1>6. ASSUME NEW p \in Peer, NEW t \in TimesOrNever,
             UpdateLastSuccessfulOutboundQueryAt(p, t)
      PROVE  q \in TablePeers' /\ ~info'[q].replaceable
  <2>1. \/ info'[q] = info[q]
        \/ info'[q] = [info[q] EXCEPT !.lastSuccessfulOutboundQueryAt = t]
    BY <1>6 DEF UpdateLastSuccessfulOutboundQueryAt
  <2>2. info'[q].replaceable = info[q].replaceable
    BY <1>0, <2>1 DEF PeerInfo
  <2>. QED BY <1>3, <1>6, <2>2 DEF UpdateLastSuccessfulOutboundQueryAt
<1>7. CASE Tick
  BY <1>3, <1>7 DEF Tick
<1>. QED BY <1>1, <1>2, <1>4, <1>5, <1>6, <1>7 DEF Next

\* Once irreplaceable, a peer stays in the table, and irreplaceable, until
\* RemovePeer is called for it.
THEOREM IrreplaceableIsFinalHolds == Spec => IrreplaceableIsFinal
BY IInvHolds, KeepsIrreplaceableStep, PTL DEF Spec, IrreplaceableIsFinal

-----------------------------------------------------------------------------
(* The methods that read the table by Cpl.                                 *)

LEMMA NPeersForCplIsExact == IInv => NPeersForCplExact
<1>. SUFFICES ASSUME IInv, NEW c \in 0..MaxCpl
              PROVE  NPeersForCpl(c) = Cardinality(SameCpl(c))
  BY DEF NPeersForCplExact
<1>. DEFINE n == Len(buckets)
<1>1. IsTable(buckets) /\ WellPlaced(buckets)
  BY IInvTable
<1>2. n \in Nat \ {0} /\ c \in Nat
  BY <1>1, CplAssumption DEF IsTable
<1>3. \A p : p \in TablePeers <=> \E i \in 1..n : p \in buckets[i]
  BY DEF TablePeers, Peers, Buckets
<1>4. ASSUME NEW p \in SameCpl(c)
      PROVE  p \in buckets[IF c >= n - 1 THEN n ELSE c + 1]
  <2>1. Cpl[p] = c /\ p \in TablePeers
    BY DEF SameCpl
  <2>2. PICK i \in 1..n : p \in buckets[i]
    BY <1>3, <2>1
  <2>3. i = BucketIdForPeer(buckets, p)
    BY <1>1, <2>2, PlacedById
  <2>4. i = IF c >= n - 1 THEN n ELSE c + 1
    BY <1>2, <2>1, <2>3 DEF BucketIdForPeer
  <2>. QED BY <2>2, <2>4
<1>5. CASE c >= n - 1
  <2>1. {p \in buckets[n] : Cpl[p] = c} = SameCpl(c)
    BY <1>2, <1>3, <1>4, <1>5 DEF SameCpl
  <2>. QED BY <1>5, <2>1 DEF NPeersForCpl
<1>6. CASE ~(c >= n - 1)
  <2>1. \A p \in buckets[c + 1] : Cpl[p] = c
    BY <1>1, <1>2, <1>6 DEF WellPlaced
  <2>2. buckets[c + 1] = SameCpl(c)
    BY <1>2, <1>3, <1>4, <1>6, <2>1 DEF SameCpl
  <2>. QED BY <1>6, <2>2 DEF NPeersForCpl
<1>. QED BY <1>5, <1>6

\* NPeersForCpl is exact in every reachable table.
THEOREM NPeersForCplExactHolds == Spec => []NPeersForCplExact
BY IInvHolds, NPeersForCplIsExact, PTL

LEMMA GreatestIs ==
  ASSUME NEW S \in SUBSET Int, NEW g \in S, \A y \in S : g >= y
  PROVE  Greatest(S) = g
<1>. DEFINE Top(x) == x \in S /\ \A y \in S : x >= y
<1>1. Top(g)
  OBVIOUS
<1>2. \E x : Top(x)
  BY <1>1, Zenon
<1>3. Top(CHOOSE x : Top(x))
  BY <1>2, Zenon
<1>4. Greatest(S) = CHOOSE x : Top(x)
  BY Zenon DEF Greatest
<1>5. \A x \in Int : Top(x) => x = g
  OBVIOUS
<1>. QED BY <1>3, <1>4, <1>5

LEMMA GreatestInRange ==
  ASSUME NEW b \in Nat, NEW S \in SUBSET (0..b), S # {}
  PROVE  Greatest(S) \in S /\ \A y \in S : Greatest(S) >= y
<1>1. IsFiniteSet(0..b)
  BY FS_Interval
<1>2. IsFiniteSet(S)
  BY <1>1, FS_Subset, Zenon
<1>3. S \in SUBSET Int
  OBVIOUS
<1>. QED BY <1>2, <1>3, GreatestInSet, Zenon

\* The last bucket with peers in it has one of the greatest Cpl of all.
LEMMA MaxCommonPrefixIsExact == IInv => MaxCommonPrefixExact
<1>. SUFFICES ASSUME IInv
              PROVE  MaxCommonPrefix = Greatest({0} \cup {Cpl[p] : p \in TablePeers})
  BY DEF MaxCommonPrefixExact
<1>. DEFINE n == Len(buckets)
            full == {i \in 1..n : buckets[i] # {}}
            m == Greatest(full)
            cpls == {Cpl[p] : p \in buckets[m]}
            all == {0} \cup {Cpl[p] : p \in TablePeers}
<1>1. IsTable(buckets) /\ WellPlaced(buckets) /\ TablePeers \in SUBSET Peer
  BY IInvTable
<1>2. n \in Nat
  BY <1>1 DEF IsTable
<1>3. all \in SUBSET Int
  <2>. SUFFICES ASSUME NEW y \in all PROVE y \in Int
    OBVIOUS
  <2>1. y = 0 \/ \E p \in TablePeers : y = Cpl[p]
    OBVIOUS
  <2>. QED BY <1>1, <2>1, CplType
<1>4. \A p : p \in TablePeers <=> \E i \in 1..n : p \in buckets[i]
  BY DEF TablePeers, Peers, Buckets
<1>5. CASE full = {}
  <2>1. TablePeers = {}
    BY <1>4, <1>5
  <2>2. Greatest(all) = 0
    <3>1. all = {0}
      BY <2>1
    <3>2. Greatest({0}) = 0
      BY GreatestIs
    <3>. QED BY ONLY <3>1, <3>2
  <2>. QED BY <1>5, <2>2 DEF MaxCommonPrefix
<1>6. CASE full # {}
  <2>1. full \in SUBSET (0..n)
    BY <1>2
  <2>2. m \in full /\ \A i \in full : m >= i
    <3>. HIDE DEF full
    <3>. QED BY <1>2, <1>6, <2>1, GreatestInRange
  <2>3. m \in 1..n /\ buckets[m] # {} /\ buckets[m] \in SUBSET Peer
    <3>1. \A i \in full : i \in 1..n /\ buckets[i] # {} /\ buckets[i] \in SUBSET Peer
      BY <1>1 DEF IsTable
    <3>. HIDE DEF full
    <3>. QED BY <2>2, <3>1
  <2>4. cpls \in SUBSET (0..MaxCpl) /\ cpls # {}
    <3>1. PICK p : p \in buckets[m]
      BY <2>3
    <3>2. Cpl[p] \in cpls
      BY <3>1
    <3>3. ASSUME NEW y \in cpls PROVE y \in 0..MaxCpl
      <4>1. PICK q \in buckets[m] : y = Cpl[q]
        OBVIOUS
      <4>. QED BY <2>3, <4>1, CplType
    <3>. QED BY <3>2, <3>3
  <2>5. Greatest(cpls) \in cpls /\ \A c \in cpls : Greatest(cpls) >= c
    <3>. HIDE DEF cpls
    <3>. QED BY <2>4, CplAssumption, GreatestInRange
  <2>6. PICK p \in buckets[m] : Greatest(cpls) = Cpl[p]
    BY <2>5
  <2>7. p \in TablePeers /\ Cpl[p] \in Nat /\ Cpl[p] >= m - 1
    <3>1. IF m < n THEN Cpl[p] = m - 1 ELSE Cpl[p] >= m - 1
      BY <1>1, <2>3 DEF WellPlaced
    <3>2. p \in TablePeers /\ Cpl[p] \in Nat
      BY <1>4, <2>3, CplType
    <3>. QED BY <1>2, <2>3, <3>1, <3>2
  <2>8. ASSUME NEW q \in TablePeers PROVE Cpl[p] >= Cpl[q]
    <3>1. PICK j \in 1..n : q \in buckets[j]
      BY <1>4
    <3>2. j \in full /\ j <= m
      BY <1>2, <2>2, <2>3, <3>1
    <3>3. CASE j = m
      BY <2>5, <2>6, <3>1, <3>3
    <3>4. CASE j < m
      <4>1. Cpl[q] = j - 1
        BY <1>1, <1>2, <2>3, <3>1, <3>4 DEF WellPlaced
      <4>. QED BY <2>3, <2>7, <3>4, <4>1
    <3>. QED BY <2>3, <3>2, <3>3, <3>4
  <2>9. Greatest(all) = Cpl[p]
    <3>1. Cpl[p] \in all /\ \A y \in all : Cpl[p] >= y
      BY <2>7, <2>8
    <3>. QED BY <1>3, <3>1, GreatestIs
  <2>. QED BY <1>6, <2>6, <2>9 DEF MaxCommonPrefix
<1>. QED BY <1>5, <1>6

\* maxCommonPrefix is exact in every reachable table.
THEOREM MaxCommonPrefixExactHolds == Spec => []MaxCommonPrefixExact
BY IInvHolds, MaxCommonPrefixIsExact, PTL

-----------------------------------------------------------------------------
(* The record of a peer.                                                   *)

LEMMA TryAddPeerKeepsRecord ==
  ASSUME IInv, NEW p \in Peer, NEW queryPeer, NEW isReplaceable,
         TryAddPeer(p, queryPeer, isReplaceable),
         NEW q \in TablePeers, q \in TablePeers'
  PROVE  \/ info'[q] = info[q]
         \/ /\ q = p /\ queryPeer /\ info[q].lastUsefulAt = Never
            /\ info'[q] = [info[q] EXCEPT !.lastUsefulAt = now]
<1>. USE IInvTable
<1>1. CASE AddExisting(p, queryPeer, isReplaceable)
  <2>1. q \in DOMAIN info
    BY InfoType
  <2>. QED BY <1>1, <2>1 DEF AddExisting
<1>2. CASE \E err \in {"latency", "diversity"} : TurnAway(p, err)
  BY <1>2 DEF TurnAway
<1>3. CASE AddNew(p, queryPeer, isReplaceable)
  <2>1. p \notin TablePeers
    BY <1>3, AddNewTable DEF AddNew
  <2>. QED BY <1>3, <2>1 DEF AddNew
<1>4. CASE \E v \in TablePeers : AddReplacing(p, v, queryPeer, isReplaceable)
  <2>1. PICK v \in TablePeers : AddReplacing(p, v, queryPeer, isReplaceable)
    BY <1>4
  <2>2. p \notin TablePeers /\ TablePeers' = (TablePeers \cup {p}) \ {v}
    BY <2>1, Replacement
  <2>3. q # v /\ q # p
    BY <2>2
  <2>. QED BY <2>1, <2>3 DEF AddReplacing
<1>5. CASE RejectNoCapacity(p)
  BY <1>5 DEF RejectNoCapacity
<1>. QED BY <1>1, <1>2, <1>3, <1>4, <1>5 DEF TryAddPeer

LEMMA KeepsAddedAt ==
  ASSUME IInv, Next, NEW q \in TablePeers, q \in TablePeers'
  PROVE  info'[q].addedAt = info[q].addedAt
<1>. DEFINE Kept == info'[q].addedAt = info[q].addedAt
<1>. USE IInvTable
<1>0. info[q] \in PeerInfo
  BY InfoType
<1>1. ASSUME NEW p \in Peer, NEW queryPeer, NEW isReplaceable,
             TryAddPeer(p, queryPeer, isReplaceable)
      PROVE  Kept
  BY <1>0, <1>1, TryAddPeerKeepsRecord DEF PeerInfo
<1>2. ASSUME NEW p \in Peer, RemovePeer(p)
      PROVE  Kept
  <2>1. q # p
    BY <1>2, RemovePeerTable
  <2>. QED BY <1>2, <2>1 DEF RemovePeer
<1>3. CASE MarkAllPeersIrreplaceable
  <2>1. info'[q] = [info[q] EXCEPT !.replaceable = FALSE]
    BY <1>3 DEF MarkAllPeersIrreplaceable
  <2>. QED BY <1>0, <2>1 DEF PeerInfo
<1>4. ASSUME NEW p \in Peer, NEW t \in TimesOrNever, UpdateLastUsefulAt(p, t)
      PROVE  Kept
  <2>1. info'[q] = info[q] \/ info'[q] = [info[q] EXCEPT !.lastUsefulAt = t]
    BY <1>4 DEF UpdateLastUsefulAt
  <2>. QED BY <1>0, <2>1 DEF PeerInfo
<1>5. ASSUME NEW p \in Peer, NEW t \in TimesOrNever,
             UpdateLastSuccessfulOutboundQueryAt(p, t)
      PROVE  Kept
  <2>1. \/ info'[q] = info[q]
        \/ info'[q] = [info[q] EXCEPT !.lastSuccessfulOutboundQueryAt = t]
    BY <1>5 DEF UpdateLastSuccessfulOutboundQueryAt
  <2>. QED BY <1>0, <2>1 DEF PeerInfo
<1>6. CASE Tick
  BY <1>6 DEF Tick
<1>. QED BY <1>1, <1>2, <1>3, <1>4, <1>5, <1>6 DEF Next

LEMMA KeepsRecordStep == IInv /\ [Next]_vars => [KeepsRecord]_vars
BY KeepsAddedAt, TryAddPeerKeepsRecord DEF KeepsRecord

\* A peer that is added again, or beside which others come and go, keeps its
\* record; none of the methods changes when it was added.
THEOREM ReAddKeepsRecordHolds == Spec => ReAddKeepsRecord
BY IInvHolds, KeepsRecordStep, PTL DEF Spec, ReAddKeepsRecord

-----------------------------------------------------------------------------
(* What UsefulNewPeer has said stands until a peer of the same Cpl comes or*)
(* goes, or all peers are made irreplaceable.                              *)

\* What UsefulNewPeer is true of.
HasPlace(p) ==
    /\ p \notin TablePeers
    /\ \/ Cardinality(SameCpl(Cpl[p])) < BucketSize
       \/ \E q \in SameCpl(Cpl[p]) : info[q].replaceable

Came(p) == {q \in TablePeers' \ TablePeers : Cpl[q] = Cpl[p]}

Left(p) == {q \in TablePeers \ TablePeers' : Cpl[q] = Cpl[p]}

PlaceStands(p) ==
    /\ HasPlace(p) /\ ~HasPlace(p)' =>
          \/ Came(p) # {}
          \/ TablePeers' = TablePeers /\ \A q \in TablePeers : ~info'[q].replaceable
    /\ ~HasPlace(p) /\ HasPlace(p)' =>
          Left(p) # {} /\ (Came(p) # {} => p \in Left(p))

\* A step that leaves the peers of p's Cpl, and who of them is replaceable, as
\* they are.
LEMMA OtherCplStands ==
  ASSUME NEW p \in Peer, SameCpl(Cpl[p])' = SameCpl(Cpl[p]),
         \A q \in SameCpl(Cpl[p]) : info'[q].replaceable = info[q].replaceable
  PROVE  PlaceStands(p)
<1>1. p \in TablePeers' <=> p \in TablePeers
  BY DEF SameCpl
<1>2. HasPlace(p)' <=> HasPlace(p)
  BY <1>1 DEF HasPlace
<1>. QED BY <1>2 DEF PlaceStands

LEMMA SamePeersStand ==
  ASSUME NEW p \in Peer, TablePeers' = TablePeers,
         \A q \in TablePeers : info'[q].replaceable = info[q].replaceable
  PROVE  PlaceStands(p)
BY OtherCplStands DEF SameCpl

LEMMA GroupFits ==
  ASSUME IInv, NEW p \in Peer
  PROVE  /\ IsFiniteSet(SameCpl(Cpl[p]))
         /\ Cardinality(SameCpl(Cpl[p])) \in Nat
         /\ Cardinality(SameCpl(Cpl[p])) <= BucketSize
<1>. DEFINE b == BucketForPeer(buckets, p)
            group == SameCpl(Cpl[p])
<1>1. /\ IsFiniteSet(b) /\ Cardinality(b) \in Nat
      /\ Cardinality(b) <= BucketSize
      /\ Cardinality(group) \in Nat /\ Cardinality(group) <= Cardinality(b)
  BY IInvTable, GroupSize DEF SameCpl, TablePeers
<1>2. group \subseteq b
  BY IInvTable, GroupInBucket DEF SameCpl, TablePeers
<1>3. IsFiniteSet(group)
  BY <1>1, <1>2, FS_Subset
<1>. HIDE DEF b, group
<1>4. Cardinality(group) <= BucketSize
  BY <1>1, BucketSizeAssumption
<1>. QED BY <1>1, <1>3, <1>4 DEF group

LEMMA PlaceStandsStep ==
  ASSUME IInv, Next, NEW p \in Peer
  PROVE  PlaceStands(p)
<1>. USE IInvTable
<1>0. \A q \in TablePeers : info[q] \in PeerInfo
  BY InfoType
<1>1. ASSUME NEW x \in Peer, NEW queryPeer, NEW isReplaceable,
             TryAddPeer(x, queryPeer, isReplaceable)
      PROVE  PlaceStands(p)
  <2>1. CASE AddExisting(x, queryPeer, isReplaceable)
    <3>1. ASSUME NEW q \in TablePeers
          PROVE  info'[q].replaceable = info[q].replaceable
      <4>1. info'[q] = info[q] \/ info'[q] = [info[q] EXCEPT !.lastUsefulAt = now]
        BY <2>1 DEF AddExisting
      <4>. QED BY <1>0, <4>1 DEF PeerInfo
    <3>. QED BY <2>1, <3>1, SamePeersStand DEF AddExisting, TablePeers
  <2>2. CASE \E err \in {"latency", "diversity"} : TurnAway(x, err)
    BY <2>2, SamePeersStand DEF TurnAway, TablePeers
  <2>3. CASE AddNew(x, queryPeer, isReplaceable)
    <3>1. TablePeers' = TablePeers \cup {x} /\ x \notin TablePeers
      BY <2>3, AddNewTable DEF AddNew
    <3>2. \A q \in TablePeers : info'[q] = info[q]
      BY <2>3, <3>1 DEF AddNew
    <3>3. CASE Cpl[x] = Cpl[p]
      <4>1. Cardinality(SameCpl(Cpl[p])) < BucketSize
        BY <2>3, <3>3, RoomForGroup DEF AddNew
      <4>2. x \in Came(p)
        BY <3>1, <3>3 DEF Came
      <4>3. ~HasPlace(p) => ~HasPlace(p)'
        BY <3>1, <4>1 DEF HasPlace
      <4>. QED BY <4>2, <4>3 DEF PlaceStands
    <3>4. CASE Cpl[x] # Cpl[p]
      BY <3>1, <3>2, <3>4, OtherCplStands DEF SameCpl
    <3>. QED BY <3>3, <3>4
  <2>4. CASE \E v \in TablePeers : AddReplacing(x, v, queryPeer, isReplaceable)
    <3>1. PICK v \in TablePeers : AddReplacing(x, v, queryPeer, isReplaceable)
      BY <2>4
    <3>2. /\ v \in SameCpl(Cpl[x]) /\ Cpl[v] = Cpl[x] /\ info[v].replaceable
          /\ x \notin TablePeers
          /\ TablePeers' = (TablePeers \cup {x}) \ {v}
          /\ TablePeers \ TablePeers' = {v} /\ TablePeers' \ TablePeers = {x}
      BY <3>1, Replacement
    <3>3. \A q \in TablePeers \ {v} : info'[q] = info[q]
      BY <3>1, <3>2 DEF AddReplacing
    <3>4. CASE Cpl[x] = Cpl[p]
      <4>1. x \in Came(p) /\ v \in Left(p)
        BY <3>2, <3>4 DEF Came, Left
      <4>2. ~HasPlace(p) => p \in TablePeers
        BY <3>2, <3>4 DEF HasPlace
      <4>3. HasPlace(p)' => p \notin TablePeers'
        BY DEF HasPlace
      <4>4. ~HasPlace(p) /\ HasPlace(p)' => p \in Left(p)
        BY <4>2, <4>3 DEF Left
      <4>. QED BY <4>1, <4>4 DEF PlaceStands
    <3>5. CASE Cpl[x] # Cpl[p]
      BY <3>2, <3>3, <3>5, OtherCplStands DEF SameCpl
    <3>. QED BY <3>4, <3>5
  <2>5. CASE RejectNoCapacity(x)
    BY <2>5, KeepsPeers, SamePeersStand DEF RejectNoCapacity
  <2>. QED BY <1>1, <2>1, <2>2, <2>3, <2>4, <2>5 DEF TryAddPeer
<1>2. ASSUME NEW x \in Peer, RemovePeer(x) PROVE PlaceStands(p)
  <2>1. TablePeers' = TablePeers \ {x} /\ x \in TablePeers
    BY <1>2, RemovePeerTable DEF RemovePeer
  <2>2. \A q \in TablePeers \ {x} : info'[q] = info[q]
    BY <1>2 DEF RemovePeer
  <2>3. CASE Cpl[x] = Cpl[p]
    <3>1. x \in Left(p) /\ Came(p) = {}
      BY <2>1, <2>3 DEF Left, Came
    <3>2. SameCpl(Cpl[p])' = SameCpl(Cpl[p]) \ {x} /\ x \in SameCpl(Cpl[p])
      BY <2>1, <2>3 DEF SameCpl
    <3>3. Cardinality(SameCpl(Cpl[p]) \ {x}) < BucketSize
      <4>. DEFINE group == SameCpl(Cpl[p])
      <4>1. /\ IsFiniteSet(group) /\ Cardinality(group) \in Nat
            /\ Cardinality(group) <= BucketSize /\ x \in group
        BY <3>2, GroupFits
      <4>. HIDE DEF group
      <4>2. Cardinality(group \ {x}) = Cardinality(group) - 1
        BY <4>1, FS_RemoveElement
      <4>. QED BY <4>1, <4>2, BucketSizeAssumption DEF group
    <3>4. HasPlace(p) => HasPlace(p)'
      BY <2>1, <3>2, <3>3 DEF HasPlace
    <3>. QED BY <3>1, <3>4 DEF PlaceStands
  <2>4. CASE Cpl[x] # Cpl[p]
    BY <2>1, <2>2, <2>4, OtherCplStands DEF SameCpl
  <2>. QED BY <2>3, <2>4
<1>3. CASE MarkAllPeersIrreplaceable
  <2>1. TablePeers' = TablePeers
    BY <1>3 DEF MarkAllPeersIrreplaceable, TablePeers
  <2>2. ASSUME NEW q \in TablePeers PROVE ~info'[q].replaceable
    <3>1. info'[q] = [info[q] EXCEPT !.replaceable = FALSE]
      BY <1>3 DEF MarkAllPeersIrreplaceable
    <3>. QED BY <1>0, <3>1 DEF PeerInfo
  <2>3. SameCpl(Cpl[p])' = SameCpl(Cpl[p]) /\ SameCpl(Cpl[p]) \subseteq TablePeers
    BY <2>1 DEF SameCpl
  <2>4. HasPlace(p)' => HasPlace(p)
    BY <2>1, <2>2, <2>3 DEF HasPlace
  <2>. QED BY <2>1, <2>2, <2>4 DEF PlaceStands
<1>4. ASSUME NEW x \in Peer, NEW t \in TimesOrNever, UpdateLastUsefulAt(x, t)
      PROVE  PlaceStands(p)
  <2>1. ASSUME NEW q \in TablePeers
        PROVE  info'[q].replaceable = info[q].replaceable
    <3>1. info'[q] = info[q] \/ info'[q] = [info[q] EXCEPT !.lastUsefulAt = t]
      BY <1>4 DEF UpdateLastUsefulAt
    <3>. QED BY <1>0, <3>1 DEF PeerInfo
  <2>. QED BY <1>4, <2>1, SamePeersStand DEF UpdateLastUsefulAt, TablePeers
<1>5. ASSUME NEW x \in Peer, NEW t \in TimesOrNever,
             UpdateLastSuccessfulOutboundQueryAt(x, t)
      PROVE  PlaceStands(p)
  <2>1. ASSUME NEW q \in TablePeers
        PROVE  info'[q].replaceable = info[q].replaceable
    <3>1. \/ info'[q] = info[q]
          \/ info'[q] = [info[q] EXCEPT !.lastSuccessfulOutboundQueryAt = t]
      BY <1>5 DEF UpdateLastSuccessfulOutboundQueryAt
    <3>. QED BY <1>0, <3>1 DEF PeerInfo
  <2>. QED
    BY <1>5, <2>1, SamePeersStand DEF UpdateLastSuccessfulOutboundQueryAt, TablePeers
<1>6. CASE Tick
  BY <1>6, SamePeersStand DEF Tick, TablePeers
<1>. QED BY <1>1, <1>2, <1>3, <1>4, <1>5, <1>6 DEF Next

LEMMA AnswersStandStep ==
  /\ IInv /\ UsefulNewPeerExact /\ UsefulNewPeerExact'
  /\ [Next]_vars
  => [AnswersStand]_vars
<1>. SUFFICES ASSUME IInv, UsefulNewPeerExact, UsefulNewPeerExact', Next
              PROVE  AnswersStand
  OBVIOUS
<1>1. ASSUME NEW p \in Peer
      PROVE  /\ UsefulNewPeer(p) <=> HasPlace(p)
             /\ UsefulNewPeer(p)' <=> HasPlace(p)'
  BY DEF UsefulNewPeerExact, HasPlace
<1>2. \A p \in Peer : PlaceStands(p)
  BY PlaceStandsStep
<1>. QED BY <1>1, <1>2 DEF AnswersStand, PlaceStands, Came, Left

\* What UsefulNewPeer has answered stands whatever happens to the peers of
\* other Cpls: the unfolding and the collapsing of the bucket change nothing.
THEOREM UsefulnessIsStableHolds == Spec => UsefulnessIsStable
BY IInvHolds, UsefulNewPeerExactHolds, AnswersStandStep, PTL
DEF Spec, UsefulnessIsStable

-----------------------------------------------------------------------------
(* The routing table implements the ideal table of IdealTable.tla: every   *)
(* initial state maps to an initial state of it, every step to a step of   *)
(* it or to a stutter.                                                     *)

\* The state of the ideal table that a state of the routing table stands for.
Group == [c \in 0..MaxCpl |-> SameCpl(c)]

Replaceable == {p \in DOMAIN info : info[p].replaceable}

LEMMA IdealState ==
  ASSUME IInv
  PROVE  /\ Replaceable = {p \in TablePeers : info[p].replaceable}
         /\ \A p \in Peer :
               /\ Ideal!Home(p) = SameCpl(Cpl[p])
               /\ p \in TablePeers <=> p \in SameCpl(Cpl[p])
               /\ Ideal!Full(p) <=> Cardinality(SameCpl(Cpl[p])) >= BucketSize
<1>1. DOMAIN info = TablePeers
  BY IInvTable
<1>2. ASSUME NEW p \in Peer
      PROVE  /\ Ideal!Home(p) = SameCpl(Cpl[p])
             /\ p \in TablePeers <=> p \in SameCpl(Cpl[p])
  BY CplType DEF Ideal!Home, SameCpl
<1>3. ASSUME NEW p \in Peer
      PROVE  Ideal!Full(p) <=> Cardinality(SameCpl(Cpl[p])) >= BucketSize
  <2>1. [c \in 0..MaxCpl |-> SameCpl(c)][Cpl[p]] = SameCpl(Cpl[p])
    BY CplType
  <2>. QED BY ONLY <2>1 DEF Ideal!Full, Ideal!Home, Ideal!Cardinality, Cardinality
<1>. QED BY <1>1, <1>2, <1>3 DEF Replaceable

LEMMA IdealInit == Init => Ideal!Init
<1>. SUFFICES ASSUME Init PROVE Ideal!Init
  OBVIOUS
<1>1. TablePeers = {}
  BY EmptyTable DEF Init, TablePeers
<1>2. [c \in 0..MaxCpl |-> SameCpl(c)] = [c \in 0..MaxCpl |-> {}]
  BY <1>1 DEF SameCpl
<1>3. {p \in DOMAIN info : info[p].replaceable} = {}
  BY DEF Init
<1>. QED BY <1>2, <1>3 DEF Init, Ideal!Init

\* How the groups change when one peer of Cpl c comes and others of the same
\* Cpl go.
LEMMA GroupChange ==
  ASSUME NEW p \in Peer, NEW In \in SUBSET Peer, NEW Out \in SUBSET Peer,
         \A q \in In \cup Out : Cpl[q] = Cpl[p],
         TablePeers' = (TablePeers \cup In) \ Out
  PROVE  Group' = [Group EXCEPT ![Cpl[p]] = (Group[Cpl[p]] \cup In) \ Out]
<1>1. Cpl[p] \in 0..MaxCpl
  BY CplType
<1>2. ASSUME NEW c \in 0..MaxCpl
      PROVE  {q \in TablePeers' : Cpl[q] = c} =
                IF c = Cpl[p] THEN (SameCpl(c) \cup In) \ Out ELSE SameCpl(c)
  BY DEF SameCpl
<1>3. Group' = [c \in 0..MaxCpl |-> {q \in TablePeers' : Cpl[q] = c}]
  BY DEF Group, SameCpl
<1>. QED BY <1>1, <1>2, <1>3 DEF Group

LEMMA TryAddPeerIsIdeal ==
  ASSUME IInv, NEW p \in Peer,
         NEW queryPeer \in BOOLEAN, NEW isReplaceable \in BOOLEAN,
         TryAddPeer(p, queryPeer, isReplaceable)
  PROVE  Ideal!Next
<1>. USE IInvTable
<1>1. /\ Ideal!Home(p) = SameCpl(Cpl[p]) /\ Group[Cpl[p]] = SameCpl(Cpl[p])
      /\ p \in TablePeers <=> p \in SameCpl(Cpl[p])
      /\ Ideal!Full(p) <=> Cardinality(SameCpl(Cpl[p])) >= BucketSize
      /\ Replaceable = {q \in TablePeers : info[q].replaceable}
  BY IdealState, CplType DEF Group
<1>2. ASSUME UNCHANGED buckets PROVE UNCHANGED Group
  BY <1>2 DEF Group, SameCpl, TablePeers
<1>3. CASE AddExisting(p, queryPeer, isReplaceable)
  <2>1. \A q \in TablePeers : info'[q].replaceable = info[q].replaceable
    <3>. SUFFICES ASSUME NEW q \in TablePeers
                  PROVE  info'[q].replaceable = info[q].replaceable
      OBVIOUS
    <3>1. info[q] \in PeerInfo
      BY InfoType
    <3>2. info'[q] = info[q] \/ info'[q] = [info[q] EXCEPT !.lastUsefulAt = now]
      BY <1>3 DEF AddExisting
    <3>. QED BY <3>1, <3>2 DEF PeerInfo
  <2>2. DOMAIN info' = DOMAIN info
    BY <1>3 DEF AddExisting
  <2>3. UNCHANGED Replaceable
    BY <2>1, <2>2 DEF Replaceable
  <2>4. Ideal!Exists(p)
    BY <1>1, <1>2, <1>3, <2>3 DEF AddExisting, Ideal!Exists, Group, Replaceable
  <2>. QED BY <2>4 DEF Ideal!Next
<1>4. CASE \E err \in {"latency", "diversity"} : TurnAway(p, err)
  <2>1. Ideal!TurnAway(p)
    BY <1>1, <1>2, <1>4 DEF TurnAway, Ideal!TurnAway, Group, Replaceable
  <2>. QED BY <2>1 DEF Ideal!Next
<1>5. CASE AddNew(p, queryPeer, isReplaceable)
  <2>1. TablePeers' = TablePeers \cup {p} /\ p \notin TablePeers
    BY <1>5, AddNewTable DEF AddNew
  <2>2. Cardinality(SameCpl(Cpl[p])) < BucketSize
    BY <1>5, RoomForGroup DEF AddNew
  <2>3. ~Ideal!Full(p)
    <3>1. Cardinality(SameCpl(Cpl[p])) \in Nat
      BY GroupSize DEF SameCpl, TablePeers
    <3>. QED BY <1>1, <2>2, <3>1, BucketSizeAssumption
  <2>4. Group' = [Group EXCEPT ![Cpl[p]] = Group[Cpl[p]] \cup {p}]
    <3>1. Group' = [Group EXCEPT ![Cpl[p]] = (Group[Cpl[p]] \cup {p}) \ {}]
      <4>1. TablePeers' = (TablePeers \cup {p}) \ {}
        BY <2>1
      <4>. QED BY <4>1, GroupChange
    <3>. QED BY <3>1
  <2>5. Replaceable' = Replaceable \cup (IF isReplaceable THEN {p} ELSE {})
    <3>1. /\ DOMAIN info' = DOMAIN info \cup {p}
          /\ info'[p].replaceable = isReplaceable
          /\ \A q \in DOMAIN info : info'[q] = info[q]
      BY <1>5, <2>1 DEF AddNew, NewPeerInfo
    <3>. QED BY <2>1, <3>1 DEF Replaceable
  <2>6. Ideal!Insert(p, isReplaceable)
    BY <1>1, <1>5, <2>1, <2>3, <2>4, <2>5
    DEF AddNew, Ideal!Insert, Ideal!MayReplace, Group, Replaceable
  <2>. QED BY <2>6 DEF Ideal!Next
<1>6. CASE \E v \in TablePeers : AddReplacing(p, v, queryPeer, isReplaceable)
  <2>. PICK v \in TablePeers : AddReplacing(p, v, queryPeer, isReplaceable)
    BY <1>6
  <2>1. /\ v \in SameCpl(Cpl[p]) /\ Cpl[v] = Cpl[p] /\ info[v].replaceable
        /\ Cardinality(SameCpl(Cpl[p])) = BucketSize
        /\ p \notin TablePeers /\ v \in Peer
        /\ TablePeers' = (TablePeers \cup {p}) \ {v}
    BY Replacement
  <2>2. Ideal!Full(p)
    BY <1>1, <2>1, BucketSizeAssumption
  <2>3. Group' = [Group EXCEPT ![Cpl[p]] = (Group[Cpl[p]] \cup {p}) \ {v}]
    <3>1. /\ {p} \in SUBSET Peer /\ {v} \in SUBSET Peer
          /\ \A q \in {p} \cup {v} : Cpl[q] = Cpl[p]
      BY <2>1
    <3>. QED BY ONLY <2>1, <3>1, p \in Peer, GroupChange
  <2>4. Replaceable' = (Replaceable \ {v}) \cup (IF isReplaceable THEN {p} ELSE {})
    <3>1. /\ DOMAIN info' = (DOMAIN info \cup {p}) \ {v}
          /\ info'[p].replaceable = isReplaceable
          /\ \A q \in DOMAIN info \ {v} : info'[q] = info[q]
      BY <2>1 DEF AddReplacing, NewPeerInfo
    <3>. QED BY <2>1, <3>1 DEF Replaceable
  <2>5. Ideal!Replace(p, v, isReplaceable)
    BY <1>1, <2>1, <2>2, <2>3, <2>4
    DEF AddReplacing, Ideal!Replace, Ideal!MayReplace, Group, Replaceable
  <2>. QED BY <2>1, <2>5 DEF Ideal!Next
<1>7. CASE RejectNoCapacity(p)
  <2>1. /\ ~HasRoom(Candidate(p), p) /\ p \notin TablePeers
        /\ Victims(p) = {} /\ UNCHANGED info
    BY <1>7 DEF RejectNoCapacity
  <2>2. /\ BucketForPeer(Candidate(p), p) = SameCpl(Cpl[p])
        /\ Cardinality(SameCpl(Cpl[p])) = BucketSize
    BY <2>1, RoomForGroup
  <2>3. SameCpl(Cpl[p]) \cap Replaceable = {}
    BY <1>1, <2>1, <2>2 DEF Victims
  <2>4. UNCHANGED Group /\ UNCHANGED Replaceable
    <3>1. TablePeers' = TablePeers
      BY <1>7, KeepsPeers
    <3>. QED BY <2>1, <3>1 DEF Group, SameCpl, Replaceable
  <2>5. Ideal!Full(p)
    BY <1>1, <2>2, BucketSizeAssumption
  <2>6. Ideal!NoCapacity(p)
    BY <1>1, <1>7, <2>1, <2>3, <2>4, <2>5
    DEF RejectNoCapacity, Ideal!NoCapacity, Group, Replaceable
  <2>. QED BY <2>6 DEF Ideal!Next
<1>. QED BY <1>3, <1>4, <1>5, <1>6, <1>7 DEF TryAddPeer

\* Steps that change neither who is in the table nor who is replaceable.
LEMMA IdealStutter ==
  ASSUME IInv, UNCHANGED <<buckets, reply>>, DOMAIN info' = DOMAIN info,
         \A q \in DOMAIN info : info'[q].replaceable = info[q].replaceable
  PROVE  UNCHANGED Ideal!vars
<1>1. UNCHANGED Group /\ UNCHANGED Replaceable
  BY DEF Group, SameCpl, TablePeers, Replaceable
<1>. QED BY <1>1 DEF Ideal!vars, Group, Replaceable

LEMMA IdealStep == IInv /\ [Next]_vars => [Ideal!Next]_(Ideal!vars)
<1>. SUFFICES ASSUME IInv, [Next]_vars PROVE [Ideal!Next]_(Ideal!vars)
  OBVIOUS
<1>. USE IInvTable, InfoType
<1>1. ASSUME NEW p \in Peer,
             NEW queryPeer \in QueryPeerArg, NEW isReplaceable \in BOOLEAN,
             TryAddPeer(p, queryPeer, isReplaceable)
      PROVE  Ideal!Next
  BY <1>1, TryAddPeerIsIdeal, QueryPeerArgAssumption
<1>2. ASSUME NEW p \in Peer, RemovePeer(p) PROVE Ideal!Next
  <2>1. TablePeers' = TablePeers \ {p} /\ p \in TablePeers
    BY <1>2, RemovePeerTable DEF RemovePeer
  <2>2. Group' = [Group EXCEPT ![Cpl[p]] = Group[Cpl[p]] \ {p}]
    <3>1. Group' = [Group EXCEPT ![Cpl[p]] = (Group[Cpl[p]] \cup {}) \ {p}]
      <4>1. TablePeers' = (TablePeers \cup {}) \ {p}
        BY <2>1
      <4>. QED BY <4>1, GroupChange
    <3>. QED BY <3>1
  <2>3. Replaceable' = Replaceable \ {p}
    BY <1>2 DEF RemovePeer, Replaceable
  <2>4. Ideal!Remove(p)
    BY <1>2, <2>1, <2>2, <2>3, IdealState
    DEF RemovePeer, Ideal!Remove, Group, Replaceable
  <2>. QED BY <2>4 DEF Ideal!Next
<1>3. CASE MarkAllPeersIrreplaceable
  <2>1. UNCHANGED Group
    BY <1>3 DEF MarkAllPeersIrreplaceable, Group, SameCpl, TablePeers
  <2>2. ASSUME NEW q \in DOMAIN info PROVE ~info'[q].replaceable
    <3>1. info'[q] = [info[q] EXCEPT !.replaceable = FALSE] /\ info[q] \in PeerInfo
      BY <1>3 DEF MarkAllPeersIrreplaceable
    <3>. QED BY <3>1 DEF PeerInfo
  <2>3. Replaceable' = {}
    BY <1>3, <2>2 DEF MarkAllPeersIrreplaceable, Replaceable
  <2>4. Ideal!MarkAllIrreplaceable
    BY <1>3, <2>1, <2>3
    DEF MarkAllPeersIrreplaceable, Ideal!MarkAllIrreplaceable, Group, Replaceable
  <2>. QED BY <2>4 DEF Ideal!Next
<1>4. ASSUME NEW p \in Peer, NEW t \in TimesOrNever, UpdateLastUsefulAt(p, t)
      PROVE  UNCHANGED Ideal!vars
  <2>1. ASSUME NEW q \in DOMAIN info
        PROVE  info'[q].replaceable = info[q].replaceable
    <3>1. /\ info'[q] = info[q] \/ info'[q] = [info[q] EXCEPT !.lastUsefulAt = t]
          /\ info[q] \in PeerInfo
      BY <1>4 DEF UpdateLastUsefulAt
    <3>. QED BY <3>1 DEF PeerInfo
  <2>. QED BY <1>4, <2>1, IdealStutter DEF UpdateLastUsefulAt
<1>5. ASSUME NEW p \in Peer, NEW t \in TimesOrNever,
             UpdateLastSuccessfulOutboundQueryAt(p, t)
      PROVE  UNCHANGED Ideal!vars
  <2>1. ASSUME NEW q \in DOMAIN info
        PROVE  info'[q].replaceable = info[q].replaceable
    <3>1. /\ \/ info'[q] = info[q]
             \/ info'[q] = [info[q] EXCEPT !.lastSuccessfulOutboundQueryAt = t]
          /\ info[q] \in PeerInfo
      BY <1>5 DEF UpdateLastSuccessfulOutboundQueryAt
    <3>. QED BY <3>1 DEF PeerInfo
  <2>. QED BY <1>5, <2>1, IdealStutter DEF UpdateLastSuccessfulOutboundQueryAt
<1>6. CASE Tick
  BY <1>6, IdealStutter DEF Tick
<1>7. CASE UNCHANGED vars
  BY <1>7, IdealStutter DEF vars
<1>. QED BY <1>1, <1>2, <1>3, <1>4, <1>5, <1>6, <1>7 DEF Next

\* Lazy unfolding and collapsing never show: what TryAddPeer, RemovePeer and
\* MarkAllPeersIrreplaceable do is what the ideal table does.
THEOREM Refinement == Spec => ImplementsIdealTable
BY IdealInit, IdealStep, IInvHolds, PTL DEF Spec, ImplementsIdealTable, Ideal!Spec

-----------------------------------------------------------------------------
(* The refresh times.                                                      *)

\* What a call has read stays good enough for the peers that stay: the table
\* may lose some of those it has seen, never gain.
Upto(upTo, held) ==
    /\ upTo \in 0..MaxCplForRefresh
    /\ \A p \in held : p \in Peer /\ Smaller(Cpl[p], MaxCplForRefresh) <= upTo

\* What a round is about, and how far it has come: of the Cpls it was told of,
\* each is still to do, or set back by another caller, or refreshed.
RoundType ==
    round \in [since : TimesOrNever, todo : SUBSET CplForRefresh, older : SUBSET (0..MaxCpl)]

RoundReaches(upTo) ==
    \A c \in 0..upTo :
        c \in round.todo \/ c \in round.older \/ cplRefreshedAt[c] >= round.since

RefreshIInv ==
    /\ IInv
    /\ cplRefreshedAt \in [CplForRefresh -> TimesOrNever]
    /\ RoundType
    /\ \A call \in getting : Upto(call.upTo, call.held)
    /\ \/ tracked = [times |-> <<>>, held |-> {}]
       \/ \E upTo : /\ DOMAIN tracked.times = 1..(upTo + 1)
                    /\ Upto(upTo, tracked.held)
                    /\ RoundReaches(upTo)

LEMMA MaxCommonPrefixBounds ==
  ASSUME IInv
  PROVE  Upto(Smaller(MaxCommonPrefix, MaxCplForRefresh), TablePeers)
<1>. DEFINE all == {0} \cup {Cpl[p] : p \in TablePeers}
<1>1. TablePeers \in SUBSET Peer
  BY IInvTable
<1>2. \A p \in TablePeers : Cpl[p] \in 0..MaxCpl
  BY <1>1, CplAssumption
<1>3. MaxCpl \in Nat /\ all \in SUBSET (0..MaxCpl) /\ all # {}
  BY <1>2, CplAssumption
<1>4. MaxCommonPrefix = Greatest(all)
  BY MaxCommonPrefixIsExact DEF MaxCommonPrefixExact
<1>. HIDE DEF all
<1>5. Greatest(all) \in all /\ \A y \in all : Greatest(all) >= y
  BY <1>3, GreatestInRange
<1>6. MaxCommonPrefix \in Nat /\ \A p \in TablePeers : Cpl[p] <= MaxCommonPrefix
  <2>1. \A p \in TablePeers : Cpl[p] \in all
    BY DEF all
  <2>2. MaxCommonPrefix \in Nat
    <3>1. MaxCommonPrefix \in all
      BY <1>4, <1>5
    <3>2. MaxCommonPrefix \in 0..MaxCpl
      BY <1>3, <3>1
    <3>. QED BY <1>3, <3>2
  <2>3. ASSUME NEW p \in TablePeers PROVE MaxCommonPrefix >= Cpl[p]
    BY <1>4, <1>5, <2>1
  <2>. QED BY <1>2, <2>2, <2>3
<1>. QED BY <1>1, <1>2, <1>6, RefreshAssumption DEF Upto, Smaller

LEMMA RefreshIInvInit == RefreshInit => RefreshIInv
BY IInvInit DEF RefreshInit, RefreshIInv, RoundType, TimesOrNever

\* A step that leaves the last answer alone, and on the round and the times has
\* the effect that a caller's reset may have.
LEMMA RoundGoesOn ==
  ASSUME RefreshIInv, IInv', tracked' = tracked, getting' = getting,
         cplRefreshedAt' \in [CplForRefresh -> TimesOrNever], RoundType',
         round'.since = round.since,
         \A c \in CplForRefresh :
            \/ c \in round'.todo \/ c \in round'.older
            \/ cplRefreshedAt'[c] >= round.since
            \/ /\ c \notin round.todo /\ c \notin round.older
               /\ cplRefreshedAt'[c] = cplRefreshedAt[c]
  PROVE  RefreshIInv'
<1>1. ASSUME NEW upTo, DOMAIN tracked.times = 1..(upTo + 1),
             Upto(upTo, tracked.held), RoundReaches(upTo)
      PROVE  RoundReaches(upTo)'
  <2>1. \A c \in 0..upTo : c \in CplForRefresh
    BY <1>1, RefreshAssumption DEF Upto, CplForRefresh
  <2>. QED BY <1>1, <2>1 DEF RoundReaches
<1>2. \/ tracked' = [times |-> <<>>, held |-> {}]
      \/ \E upTo : /\ DOMAIN tracked'.times = 1..(upTo + 1)
                   /\ Upto(upTo, tracked'.held)
                   /\ RoundReaches(upTo)'
  BY <1>1 DEF RefreshIInv
<1>. QED BY <1>2 DEF RefreshIInv

LEMMA RefreshIInvStep ==
  RefreshIInv /\ [RefreshNext]_<<vars, refreshVars>> => RefreshIInv'
<1>. SUFFICES ASSUME RefreshIInv, [RefreshNext]_<<vars, refreshVars>>
              PROVE  RefreshIInv'
  OBVIOUS
<1>0. ASSUME UNCHANGED vars PROVE IInv'
  BY <1>0, IInvStep DEF RefreshIInv
<1>. DEFINE At == cplRefreshedAt
<1>a. now \in Times /\ Times \subseteq Nat /\ Never = 0
  BY DEF RefreshIInv, IInv, TypeOK, Times, Never
<1>b. At \in [CplForRefresh -> TimesOrNever] /\ RoundType
  BY DEF RefreshIInv
<1>c. TimesOrNever \subseteq Nat /\ \A t \in 1..now : t \in Times
  BY <1>a, MaxTimeAssumption DEF TimesOrNever, Times
<1>1. CASE ReadMaxCpl
  BY <1>0, <1>1, MaxCommonPrefixBounds DEF ReadMaxCpl, RefreshIInv, RoundType, RoundReaches
<1>2. CASE ReturnTimes
  <2>1. PICK call \in getting :
          /\ tracked' = [times |-> [i \in 1..(call.upTo + 1) |-> RefreshedAt(i - 1)],
                         held |-> call.held]
          /\ round' = [since |-> now,
                       todo |-> {c \in 0..call.upTo : RefreshedAt(c) < now},
                       older |-> {}]
          /\ getting' = {} /\ UNCHANGED <<vars, cplRefreshedAt>>
    BY <1>2 DEF ReturnTimes
  <2>2. DOMAIN tracked'.times = 1..(call.upTo + 1) /\ Upto(call.upTo, tracked'.held)
    BY <2>1 DEF RefreshIInv
  <2>3. \A c \in 0..call.upTo : c \in CplForRefresh
    BY <2>2, RefreshAssumption DEF Upto, CplForRefresh
  <2>4. RoundType'
    BY <1>a, <2>1, <2>3 DEF RoundType, TimesOrNever, Times, CplForRefresh
  <2>5. ASSUME NEW c \in 0..call.upTo, c \notin round'.todo
        PROVE  At'[c] >= now
    <3>1. ~(At[c] < now)
      BY <2>1, <2>3, <2>5 DEF RefreshedAt
    <3>2. At[c] \in Nat /\ now \in Nat
      BY <1>a, <1>b, <1>c, <2>3
    <3>. QED BY <2>1, <3>1, <3>2
  <2>6. RoundReaches(call.upTo)'
    BY <2>1, <2>5 DEF RoundReaches
  <2>. QED BY <1>0, <1>b, <2>1, <2>2, <2>4, <2>6 DEF RefreshIInv
<1>3. ASSUME NEW cpl \in 0..MaxCpl, RefreshCpl(cpl)
      PROVE  RefreshIInv'
  <2>1. PICK t \in round.since..now :
          At' = IF cpl > MaxCplForRefresh THEN At ELSE AfterReset(cpl, t)
    BY <1>3 DEF RefreshCpl
  <2>2. /\ cpl \in CplForRefresh
        /\ round' = [round EXCEPT !.todo = @ \ {cpl}, !.older = @ \ {cpl}]
        /\ UNCHANGED <<vars, getting, tracked>>
    BY <1>b, <1>3 DEF RefreshCpl, RoundType
  <2>3. At' = [At EXCEPT ![cpl] = t]
    BY <2>1, <2>2, RefreshAssumption DEF AfterReset, CplForRefresh
  <2>4. t \in TimesOrNever /\ t >= round.since
    <3>1. round.since \in Nat /\ now \in Nat
      BY <1>a, <1>b, <1>c DEF RoundType
    <3>2. t = 0 \/ t \in 1..now
      BY <3>1
    <3>. QED BY <1>a, <1>c, <3>1, <3>2 DEF TimesOrNever
  <2>5. At' \in [CplForRefresh -> TimesOrNever]
    BY <1>b, <2>2, <2>3, <2>4
  <2>6. RoundType' /\ round'.since = round.since
    BY <1>b, <2>2 DEF RoundType
  <2>7. ASSUME NEW c \in CplForRefresh
        PROVE  \/ c \in round'.todo \/ c \in round'.older
               \/ At'[c] >= round.since
               \/ c \notin round.todo /\ c \notin round.older /\ At'[c] = At[c]
    <3>1. CASE c = cpl
      BY <1>b, <2>2, <2>3, <2>4, <3>1
    <3>2. CASE c # cpl
      <4>1. /\ c \in round'.todo <=> c \in round.todo
            /\ c \in round'.older <=> c \in round.older
        BY <1>b, <2>2, <3>2 DEF RoundType
      <4>. QED BY <1>b, <2>2, <2>3, <3>2, <4>1
    <3>. QED BY <3>1, <3>2
  <2>. QED BY <1>0, <2>2, <2>5, <2>6, <2>7, RoundGoesOn
<1>4. ASSUME NEW cpl \in 0..MaxCpl, NEW t \in {Never} \cup 1..now,
             ResetCplRefreshedAtForID(cpl, t)
      PROVE  RefreshIInv'
  <2>1. /\ At' = AfterReset(cpl, t)
        /\ round' = [round EXCEPT !.older = IF t < round.since THEN @ \cup {cpl}
                                            ELSE @ \ {cpl}]
        /\ UNCHANGED <<vars, getting, tracked>>
    BY <1>4 DEF ResetCplRefreshedAtForID
  <2>2. t \in TimesOrNever /\ t \in Nat
    BY <1>a, <1>c DEF TimesOrNever
  <2>3. At' \in [CplForRefresh -> TimesOrNever]
    BY <1>b, <2>1, <2>2 DEF AfterReset
  <2>4. RoundType' /\ round'.since = round.since /\ round'.todo = round.todo
    BY <1>b, <2>1 DEF RoundType
  <2>5. ASSUME NEW c \in CplForRefresh
        PROVE  \/ c \in round'.todo \/ c \in round'.older
               \/ At'[c] >= round.since
               \/ c \notin round.todo /\ c \notin round.older /\ At'[c] = At[c]
    <3>1. CASE c = cpl /\ t < round.since
      BY <1>b, <2>1, <3>1 DEF RoundType
    <3>2. CASE c = cpl /\ ~(t < round.since)
      <4>1. At'[c] = t
        BY <1>b, <2>1, <3>2, RefreshAssumption DEF AfterReset, CplForRefresh
      <4>2. round.since \in Nat
        BY <1>b, <1>c DEF RoundType
      <4>. QED BY <2>2, <3>2, <4>1, <4>2
    <3>3. CASE c # cpl
      <4>1. At'[c] = At[c]
        BY <1>b, <2>1, <3>3 DEF AfterReset
      <4>2. c \in round'.older <=> c \in round.older
        BY <1>b, <2>1, <3>3 DEF RoundType
      <4>. QED BY <2>4, <4>1, <4>2
    <3>. QED BY <3>1, <3>2, <3>3
  <2>. QED BY <1>0, <2>1, <2>3, <2>4, <2>5, RoundGoesOn
<1>5. CASE TableStep
  <2>1. IInv'
    BY <1>5, IInvStep DEF TableStep, RefreshIInv
  <2>2. ASSUME NEW new \in getting' PROVE Upto(new.upTo, new.held)
    <3>1. PICK call \in getting : new = [call EXCEPT !.held = @ \cap TablePeers']
      BY <1>5, <2>2 DEF TableStep
    <3>2. Upto(call.upTo, call.held)
      BY DEF RefreshIInv
    <3>3. new.upTo = call.upTo /\ new.held \subseteq call.held
      BY <3>1
    <3>. QED BY <3>2, <3>3 DEF Upto
  <2>. QED BY <1>5, <2>1, <2>2 DEF TableStep, RefreshIInv, RoundType, RoundReaches
<1>6. CASE UNCHANGED <<vars, refreshVars>>
  BY <1>0, <1>6 DEF refreshVars, RefreshIInv, RoundType, RoundReaches
<1>. QED BY <1>1, <1>2, <1>3, <1>4, <1>5, <1>6 DEF RefreshNext

LEMMA RefreshIInvHolds == RefreshSpec => []RefreshIInv
BY RefreshIInvInit, RefreshIInvStep, PTL DEF RefreshSpec

\* The Cpls returned are the ones from 0 to what the call has read.
LEMMA TrackedCplsAre ==
  ASSUME NEW upTo \in 0..MaxCplForRefresh, DOMAIN tracked.times = 1..(upTo + 1)
  PROVE  TrackedCpls = 0..upTo
<1>. SUFFICES ASSUME NEW c PROVE c \in TrackedCpls <=> c \in 0..upTo
  OBVIOUS
<1>1. upTo \in Nat
  BY RefreshAssumption
<1>2. c \in TrackedCpls <=> \E i \in 1..(upTo + 1) : c = i - 1
  BY DEF TrackedCpls
<1>3. ASSUME c \in 0..upTo PROVE \E i \in 1..(upTo + 1) : c = i - 1
  <2>1. c + 1 \in 1..(upTo + 1) /\ c = (c + 1) - 1
    BY <1>1, <1>3
  <2>. QED BY <2>1
<1>. QED BY <1>1, <1>2, <1>3

\* Whatever the callers of the refresh methods do, the table is the table: all
\* that is proved of it holds beside them.
THEOREM RefreshedIsTable == RefreshSpec => Spec
<1>1. RefreshInit => Init
  BY DEF RefreshInit
<1>2. [RefreshNext]_<<vars, refreshVars>> => [Next]_vars
  BY DEF RefreshNext, ReadMaxCpl, ReturnTimes, RefreshCpl, ResetCplRefreshedAtForID, TableStep
<1>. QED BY <1>1, <1>2, PTL DEF RefreshSpec, Spec

(***************************************************************************)
(* The Cpls returned cover every peer that was there for the whole call.   *)
(***************************************************************************)
THEOREM TrackedCoverTableHolds == RefreshSpec => []TrackedCoverTable
<1>1. RefreshIInv => TrackedCoverTable
  <2>. SUFFICES ASSUME RefreshIInv, NEW p \in tracked.held
                PROVE  Smaller(Cpl[p], MaxCplForRefresh) \in TrackedCpls
    BY DEF TrackedCoverTable
  <2>1. PICK upTo : DOMAIN tracked.times = 1..(upTo + 1) /\ Upto(upTo, tracked.held)
    BY DEF RefreshIInv
  <2>2. TrackedCpls = 0..upTo
    BY <2>1, TrackedCplsAre DEF Upto
  <2>3. Smaller(Cpl[p], MaxCplForRefresh) \in Nat
    BY <2>1, CplAssumption, RefreshAssumption DEF Upto, Smaller
  <2>. QED BY <2>1, <2>2, <2>3, RefreshAssumption DEF Upto
<1>. QED BY <1>1, RefreshIInvHolds, PTL

(***************************************************************************)
(* A round reaches every Cpl it was told of, and so that of every peer     *)
(* that was there for the whole call, whatever the table and the other     *)
(* callers do meanwhile; only a time from before the round, given after    *)
(* the round was done with a Cpl, makes that Cpl overdue again.            *)
(***************************************************************************)
THEOREM RoundLeavesNoneOverdueHolds == RefreshSpec => []RoundLeavesNoneOverdue
<1>1. RefreshIInv => RoundLeavesNoneOverdue
  <2>. SUFFICES ASSUME RefreshIInv, round.todo = {},
                       NEW c \in TrackedCpls \cup {Smaller(Cpl[p], MaxCplForRefresh) :
                                                      p \in tracked.held}
                PROVE  RefreshedAt(c) >= round.since \/ c \in round.older
    BY DEF RoundLeavesNoneOverdue
  <2>1. PICK upTo : /\ DOMAIN tracked.times = 1..(upTo + 1)
                    /\ Upto(upTo, tracked.held) /\ RoundReaches(upTo)
    <3>1. CASE tracked = [times |-> <<>>, held |-> {}]
      BY <3>1 DEF TrackedCpls
    <3>. QED BY <3>1 DEF RefreshIInv
  <2>2. TrackedCpls = 0..upTo
    BY <2>1, TrackedCplsAre DEF Upto
  <2>3. ASSUME NEW p \in tracked.held PROVE Smaller(Cpl[p], MaxCplForRefresh) \in 0..upTo
    <3>1. Cpl[p] \in Nat /\ MaxCplForRefresh \in Nat
      BY <2>1, CplAssumption, RefreshAssumption DEF Upto
    <3>2. Smaller(Cpl[p], MaxCplForRefresh) <= upTo
      BY <2>1 DEF Upto
    <3>3. Smaller(Cpl[p], MaxCplForRefresh) \in Nat
      BY <3>1 DEF Smaller
    <3>. QED BY <2>1, <3>2, <3>3, RefreshAssumption DEF Upto
  <2>4. c \in 0..upTo
    BY <2>2, <2>3
  <2>5. c \in CplForRefresh
    BY <2>1, <2>4, RefreshAssumption DEF Upto, CplForRefresh
  <2>. QED BY <2>1, <2>4, <2>5 DEF RoundReaches, RefreshedAt
<1>. QED BY <1>1, RefreshIInvHolds, PTL
=============================================================================
