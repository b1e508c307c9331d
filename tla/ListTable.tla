----------------------------- MODULE ListTable -----------------------------
(***************************************************************************)
(* The routing table at the level of bucket.go: a bucket is a linked list, *)
(* nextBucket calls itself, removePeer loops, and the peer to evict is the *)
(* outcome of a scan.  It implements RoutingTable.tla, which is about sets *)
(* and says what the recursion and the loop compute; and it settles which  *)
(* of several replaceable peers goes.                                      *)
(***************************************************************************)
EXTENDS KBuckets, Functions

CONSTANTS MaxTime, QueryPeerArg

ASSUME ListTableAssumption ==
    MaxTime \in Nat \ {0} /\ QueryPeerArg \in (SUBSET BOOLEAN) \ {{}}

VARIABLES
    lists,  \* rt.buckets: the list of each bucket, from its front
    info, notified, reply, now  \* as in RoutingTable

vars == <<lists, info, notified, reply, now>>

SetsOf(ls) == [i \in 1..Len(ls) |-> Range(ls[i])]

ListSets == SetsOf(lists)

Table == INSTANCE RoutingTable WITH buckets <- ListSets

-----------------------------------------------------------------------------
GetPeer(ls, p) == p \in Range(BucketForPeer(ls, p))

PushFront(ls, p) ==
    [ls EXCEPT ![BucketIdForPeer(ls, p)] = <<p>> \o @]

\* The peers of list b that are in S, in the order of b.
Only(b, S) ==
    LET kept[i \in 0..Len(b)] ==
            IF i = 0 THEN <<>>
            ELSE IF b[i] \in S THEN Append(kept[i - 1], b[i]) ELSE kept[i - 1]
    IN  kept[Len(b)]

\* bucket.split moves the closer peers to the end of a new list, one by one.
Closer(c) == {p \in Peer : Cpl[p] > c}

Stays_KeepsAll(b, c) == b

Stays(b, c) == Only(b, Peer \ Closer(c))

Moves_Reversed(b, c) ==
    LET moved == Only(b, Closer(c))
    IN  [i \in 1..Len(moved) |-> moved[Len(moved) + 1 - i]]

Moves(b, c) == Only(b, Closer(c))

Split(ls) ==
    LET n == Len(ls)
    IN  Append([ls EXCEPT ![n] = Stays(@, n - 1)], Moves(ls[n], n - 1))

Tables == Seq(Seq(Peer)) \ {<<>>}

\* nextBucket calls itself as long as the bucket it has created is full.
NextList(ls) ==
    LET next[l \in Tables] ==
            IF Len(Moves(l[Len(l)], Len(l) - 1)) >= BucketSize
            THEN next[Split(l)]
            ELSE Split(l)
    IN  next[ls]

\* One round of the loop at the end of removePeer.
LastIsEmpty(ls) == Len(ls) > 1 /\ ls[Len(ls)] = <<>>

SecondLastIsEmpty(ls) == Len(ls) > 1 /\ ls[Len(ls) - 1] = <<>>

WithoutLast(ls) == SubSeq(ls, 1, Len(ls) - 1)

WithoutSecondLast(ls) == Append(SubSeq(ls, 1, Len(ls) - 2), ls[Len(ls)])

DropEmpty_LastOnly(ls) == IF LastIsEmpty(ls) THEN WithoutLast(ls) ELSE ls

DropEmpty(ls) ==
    LET drop[l \in Tables] ==
            IF LastIsEmpty(l) THEN drop[WithoutLast(l)]
            ELSE IF SecondLastIsEmpty(l) THEN drop[WithoutSecondLast(l)]
            ELSE l
    IN  drop[ls]

\* bucket.remove takes the peer out that it finds first; there is no other.
Unlink(ls, p) ==
    DropEmpty([ls EXCEPT ![BucketIdForPeer(ls, p)] = Only(@, Peer \ {p})])

\* bucket.min with addPeer's comparator, which looks at its first argument
\* only: every replaceable peer beats the one found so far.
ReplaceablePeer_First(b) ==
    LET minVal[i \in 1..Len(b)] ==
            IF i = Len(b) \/ info[b[i]].replaceable THEN b[i] ELSE minVal[i + 1]
    IN  minVal[1]

ReplaceablePeer(b) ==
    LET minVal[i \in 1..Len(b)] ==
            IF i = 1 \/ info[b[i]].replaceable THEN b[i] ELSE minVal[i - 1]
    IN  minVal[Len(b)]

-----------------------------------------------------------------------------
Init ==
    /\ lists = << <<>> >>
    /\ info = [p \in {} |-> {}]
    /\ notified = {}
    /\ reply = "none"
    /\ now = 1

FitsIn(ls, p) == Len(BucketForPeer(ls, p)) < BucketSize

\* The buckets once addPeer has unfolded a full last one.
Candidate(p) ==
    IF ~FitsIn(lists, p) /\ InLastBucket(lists, p)
    THEN NextList(lists)
    ELSE lists

InfoAfter(p, gone, queryPeer, isReplaceable) ==
    [q \in (DOMAIN info \cup {p}) \ gone |->
        IF q = p THEN Table!NewPeerInfo(queryPeer, isReplaceable) ELSE info[q]]

AddNew(p, queryPeer, isReplaceable) ==
    /\ ~GetPeer(lists, p)
    /\ FitsIn(Candidate(p), p)
    /\ lists' = PushFront(Candidate(p), p)
    /\ info' = InfoAfter(p, {}, queryPeer, isReplaceable)
    /\ notified' = notified \cup {p}
    /\ reply' = "added"
    /\ UNCHANGED now

AddReplacing(p, queryPeer, isReplaceable) ==
    LET victim == ReplaceablePeer(BucketForPeer(Candidate(p), p))
    IN  /\ ~GetPeer(lists, p)
        /\ ~FitsIn(Candidate(p), p)
        /\ info[victim].replaceable
        /\ lists' = Unlink(PushFront(Candidate(p), p), victim)
        /\ info' = InfoAfter(p, {victim}, queryPeer, isReplaceable)
        /\ notified' = (notified \cup {p}) \ {victim}
        /\ reply' = "added"
        /\ UNCHANGED now

RejectNoCapacity(p) ==
    /\ ~GetPeer(lists, p)
    /\ ~FitsIn(Candidate(p), p)
    /\ ~info[ReplaceablePeer(BucketForPeer(Candidate(p), p))].replaceable
    /\ lists' = Candidate(p)
    /\ reply' = "capacity"
    /\ UNCHANGED <<info, notified, now>>

RemovePeer(p) ==
    /\ GetPeer(lists, p)
    /\ lists' = Unlink(lists, p)
    /\ info' = [q \in DOMAIN info \ {p} |-> info[q]]
    /\ notified' = notified \ {p}
    /\ UNCHANGED <<reply, now>>

\* What leaves the lists alone is as in RoutingTable.
KeepsLists ==
    /\ UNCHANGED lists
    /\ \/ \E p \in Peer :
             \/ \E queryPeer \in QueryPeerArg : Table!AddExisting(p, queryPeer, FALSE)
             \/ \E err \in {"latency", "diversity"} : Table!TurnAway(p, err)
             \/ \E t \in Table!TimesOrNever :
                   \/ Table!UpdateLastUsefulAt(p, t)
                   \/ Table!UpdateLastSuccessfulOutboundQueryAt(p, t)
       \/ Table!MarkAllPeersIrreplaceable
       \/ Table!Tick

Next ==
    \/ \E p \in Peer :
          \/ \E queryPeer \in QueryPeerArg, isReplaceable \in BOOLEAN :
                \/ AddNew(p, queryPeer, isReplaceable)
                \/ AddReplacing(p, queryPeer, isReplaceable)
          \/ RejectNoCapacity(p)
          \/ RemovePeer(p)
    \/ KeepsLists

Spec == Init /\ [][Next]_vars

-----------------------------------------------------------------------------
\* The methods that walk the lists.
Size ==
    LET tot[i \in 0..Len(lists)] ==
            IF i = 0 THEN 0 ELSE tot[i - 1] + Len(lists[i])
    IN  tot[Len(lists)]

ListPeers ==
    LET peers[i \in 0..Len(lists)] ==
            IF i = 0 THEN <<>> ELSE peers[i - 1] \o lists[i]
    IN  peers[Len(lists)]

\* bucket.maxCommonPrefix
BucketMaxCommonPrefix(b) ==
    LET maxCpl[i \in 0..Len(b)] ==
            IF i = 0 THEN 0
            ELSE IF Cpl[b[i]] > maxCpl[i - 1] THEN Cpl[b[i]] ELSE maxCpl[i - 1]
    IN  maxCpl[Len(b)]

MaxCommonPrefix ==
    LET full == {i \in 1..Len(lists) : Len(lists[i]) > 0}
    IN  IF full = {} THEN 0 ELSE BucketMaxCommonPrefix(lists[Greatest(full)])

(***************************************************************************)
(* The methods that walk the lists see every peer of the table once, after *)
(* whatever was split, merged, dropped and unlinked: there are as many in  *)
(* the lists as have a record, and the greatest prefix is that of them     *)
(* all, although it is looked for in one bucket only.                      *)
(***************************************************************************)
ListsShowTable ==
    /\ Size = Cardinality(DOMAIN info)
    /\ Len(ListPeers) = Size /\ Range(ListPeers) = DOMAIN info
    /\ \A p \in DOMAIN info : Cpl[p] <= MaxCommonPrefix
    /\ MaxCommonPrefix > 0 => \E p \in DOMAIN info : Cpl[p] = MaxCommonPrefix

(***************************************************************************)
(* Every list is ordered by the time its peers were added, the newest in   *)
(* front, also after buckets were split and merged: nothing but pushFront  *)
(* and the order-preserving split ever puts a peer into a list.            *)
(***************************************************************************)
NewestFirst ==
    \A i \in DOMAIN lists : \A j, k \in DOMAIN lists[i] :
        j < k => info[lists[i][j]].addedAt >= info[lists[i][k]].addedAt

(***************************************************************************)
(* The comparator of addPeer is no order, yet the scan is a rule: of the   *)
(* replaceable peers that could go, one that was added first goes, and it  *)
(* goes only if it is replaceable.  (bucket.min, addPeer.)                 *)
(***************************************************************************)
EvictsOldestReplaceable ==
    [][\A v \in DOMAIN info \ DOMAIN info' :
          DOMAIN info' \ DOMAIN info # {}
          => /\ info[v].replaceable
             /\ \A q \in DOMAIN info :
                   Cpl[q] = Cpl[v] /\ info[q].replaceable
                      => info[v].addedAt <= info[q].addedAt]_vars

(***************************************************************************)
(* A peer that is added again keeps its record, and so does every other    *)
(* peer whose list is split or unlinked for the one that is added.         *)
(***************************************************************************)
ListsKeepRecords == [][Table!KeepsRecord]_vars

(***************************************************************************)
(* The lists, the recursion and the loop implement the sets of             *)
(* RoutingTable.tla, step by step.                                         *)
(***************************************************************************)
ImplementsRoutingTable == Table!Spec
=============================================================================
