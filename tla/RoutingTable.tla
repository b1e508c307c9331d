---------------------------- MODULE RoutingTable ----------------------------
(***************************************************************************)
(* The RoutingTable of table.go.  Every public method holds tabLock for    *)
(* its whole body, so each is one action here; the methods that only read  *)
(* are operators on the state.                                             *)
(*                                                                         *)
(* A bucket is a set: the code keeps a list, but its order decides only    *)
(* which of several replaceable peers is evicted, and addPeer says it does *)
(* not matter which (ListTable.tla keeps the order).  The latency metrics  *)
(* and the diversity filter are an environment that may turn any peer away *)
(* (FilteredTable.tla puts the real filter in).                            *)
(***************************************************************************)
EXTENDS KBuckets

CONSTANTS
    MaxTime,      \* bound on the clock
    QueryPeerArg  \* the values of TryAddPeer's queryPeer that callers pass

ASSUME MaxTimeAssumption == MaxTime \in Nat \ {0}

\* A caller has to pass something.
ASSUME QueryPeerArgAssumption == QueryPeerArg \in (SUBSET BOOLEAN) \ {{}}

VARIABLES
    buckets,   \* rt.buckets
    info,      \* the PeerInfo of each peer in the table
    notified,  \* the peers an application that follows PeerAdded and
               \* PeerRemoved believes to be in the table
    reply,     \* what the last TryAddPeer returned
    now        \* time.Now()

vars == <<buckets, info, notified, reply, now>>

Never == 0  \* the zero time.Time

Times == 1..MaxTime

TimesOrNever == {Never} \cup Times

PeerInfo == [lastUsefulAt : TimesOrNever,
             lastSuccessfulOutboundQueryAt : TimesOrNever,
             addedAt : Times,
             replaceable : BOOLEAN]

\* "added" is (true, nil) and "exists" (false, nil); the others are errors.
Replies == {"none", "added", "exists", "latency", "diversity", "capacity"}

TablePeers == Peers(buckets)

InTable(p) == p \in BucketForPeer(buckets, p)

-----------------------------------------------------------------------------
\* NewRoutingTable
Init ==
    /\ buckets = <<{}>>
    /\ info = [p \in {} |-> {}]
    /\ notified = {}
    /\ reply = "none"
    /\ now = 1

Tick ==
    /\ now < MaxTime
    /\ now' = now + 1
    /\ UNCHANGED <<buckets, info, notified, reply>>

-----------------------------------------------------------------------------
\* addPeer

NewPeerInfo(queryPeer, isReplaceable) ==
    [lastUsefulAt |-> IF queryPeer THEN now ELSE Never,
     lastSuccessfulOutboundQueryAt |-> now,
     addedAt |-> now,
     replaceable |-> isReplaceable]

\* The peer is there already: all that may change is its first usefulness.
AddExisting_TakesFlag(p, queryPeer, isReplaceable) ==
    /\ InTable(p)
    /\ info' = [info EXCEPT ![p].replaceable = isReplaceable]
    /\ reply' = "exists"
    /\ UNCHANGED <<buckets, notified, now>>

AddExisting_Again(p, queryPeer, isReplaceable) ==
    /\ InTable(p)
    /\ info' = IF queryPeer THEN [info EXCEPT ![p].lastUsefulAt = now] ELSE info
    /\ reply' = "exists"
    /\ UNCHANGED <<buckets, notified, now>>

AddExisting(p, queryPeer, isReplaceable) ==
    /\ InTable(p)
    /\ info' = IF info[p].lastUsefulAt = Never /\ queryPeer
               THEN [info EXCEPT ![p].lastUsefulAt = now]
               ELSE info
    /\ reply' = "exists"
    /\ UNCHANGED <<buckets, notified, now>>

\* The latency check, then the diversity filter, turn the peer away.
TurnAway(p, err) ==
    /\ ~InTable(p)
    /\ reply' = err
    /\ UNCHANGED <<buckets, info, notified, now>>

\* The buckets in which addPeer looks for room: a last bucket that is full is
\* unfolded, and stays unfolded whatever becomes of the peer.
Candidate_AnyFullBucket(p) ==
    IF ~HasRoom(buckets, p) THEN NextBucket(buckets) ELSE buckets

Candidate(p) ==
    IF ~HasRoom(buckets, p) /\ InLastBucket(buckets, p)
    THEN NextBucket(buckets)
    ELSE buckets

AddNew(p, queryPeer, isReplaceable) ==
    /\ ~InTable(p)
    /\ HasRoom(Candidate(p), p)
    /\ buckets' = Push(Candidate(p), p)
    /\ info' = [q \in DOMAIN info \cup {p} |->
                   IF q = p THEN NewPeerInfo(queryPeer, isReplaceable)
                   ELSE info[q]]
    /\ notified' = notified \cup {p}
    /\ reply' = "added"
    /\ UNCHANGED now

\* The peers of p's bucket that may be evicted for p.
Victims(p) == {v \in BucketForPeer(Candidate(p), p) : info[v].replaceable}

\* The new peer goes in first, so that the bucket is never empty in between.
AddReplacing_RemovesFirst(p, v, queryPeer, isReplaceable) ==
    LET without == RemoveFrom(Candidate(p), v)
        inHand  == BucketIdForPeer(Candidate(p), p)
    IN  /\ ~InTable(p)
        /\ ~HasRoom(Candidate(p), p)
        /\ v \in Victims(p)
        /\ buckets' = [i \in DOMAIN without |->
                          IF i = inHand THEN without[i] \cup {p} ELSE without[i]]
        /\ info' = [q \in (DOMAIN info \cup {p}) \ {v} |->
                       IF q = p THEN NewPeerInfo(queryPeer, isReplaceable)
                       ELSE info[q]]
        /\ notified' = (notified \cup {p}) \ {v}
        /\ reply' = "added"
        /\ UNCHANGED now

AddReplacing(p, v, queryPeer, isReplaceable) ==
    /\ ~InTable(p)
    /\ ~HasRoom(Candidate(p), p)
    /\ v \in Victims(p)
    /\ buckets' = RemoveFrom(Push(Candidate(p), p), v)
    /\ info' = [q \in (DOMAIN info \cup {p}) \ {v} |->
                   IF q = p THEN NewPeerInfo(queryPeer, isReplaceable)
                   ELSE info[q]]
    /\ notified' = (notified \cup {p}) \ {v}
    /\ reply' = "added"
    /\ UNCHANGED now

RejectNoCapacity(p) ==
    /\ ~InTable(p)
    /\ ~HasRoom(Candidate(p), p)
    /\ Victims(p) = {}
    /\ buckets' = Candidate(p)
    /\ reply' = "capacity"
    /\ UNCHANGED <<info, notified, now>>

TryAddPeer(p, queryPeer, isReplaceable) ==
    \/ AddExisting(p, queryPeer, isReplaceable)
    \/ \E err \in {"latency", "diversity"} : TurnAway(p, err)
    \/ AddNew(p, queryPeer, isReplaceable)
    \/ \E v \in TablePeers : AddReplacing(p, v, queryPeer, isReplaceable)
    \/ RejectNoCapacity(p)

-----------------------------------------------------------------------------
\* The other methods that change the table.  Called for a peer that is not
\* there they change nothing.  The updates take any time, the zero time too.

RemovePeer(p) ==
    /\ InTable(p)
    /\ buckets' = RemoveFrom(buckets, p)
    /\ info' = [q \in DOMAIN info \ {p} |-> info[q]]
    /\ notified' = notified \ {p}
    /\ UNCHANGED <<reply, now>>

MarkAllPeersIrreplaceable ==
    /\ info' = [p \in DOMAIN info |-> [info[p] EXCEPT !.replaceable = FALSE]]
    /\ UNCHANGED <<buckets, notified, reply, now>>

UpdateLastUsefulAt(p, t) ==
    /\ InTable(p)
    /\ info' = [info EXCEPT ![p].lastUsefulAt = t]
    /\ UNCHANGED <<buckets, notified, reply, now>>

UpdateLastSuccessfulOutboundQueryAt(p, t) ==
    /\ InTable(p)
    /\ info' = [info EXCEPT ![p].lastSuccessfulOutboundQueryAt = t]
    /\ UNCHANGED <<buckets, notified, reply, now>>

Next ==
    \/ \E p \in Peer :
          \/ \E queryPeer \in QueryPeerArg, isReplaceable \in BOOLEAN :
                TryAddPeer(p, queryPeer, isReplaceable)
          \/ RemovePeer(p)
          \/ \E t \in TimesOrNever :
                \/ UpdateLastUsefulAt(p, t)
                \/ UpdateLastSuccessfulOutboundQueryAt(p, t)
    \/ MarkAllPeersIrreplaceable
    \/ Tick

Spec == Init /\ [][Next]_vars

-----------------------------------------------------------------------------
\* The methods that only read.

UsefulNewPeer_AnyCpl(p) ==
    LET b == BucketForPeer(buckets, p)
    IN  /\ p \notin b
        /\ \/ HasRoom(buckets, p)
           \/ \E q \in b : info[q].replaceable
           \/ InLastBucket(buckets, p)

UsefulNewPeer(p) ==
    LET b == BucketForPeer(buckets, p)
    IN  /\ p \notin b
        /\ \/ HasRoom(buckets, p)
           \/ \E q \in b : info[q].replaceable
           \/ /\ InLastBucket(buckets, p)
              /\ \E q \in b : Cpl[q] # Cpl[p]

NPeersForCpl_WholeLast(cpl) ==
    IF cpl >= Len(buckets) - 1
    THEN Cardinality(buckets[Len(buckets)])
    ELSE Cardinality(buckets[cpl + 1])

NPeersForCpl(cpl) ==
    IF cpl >= Len(buckets) - 1
    THEN Cardinality({p \in buckets[Len(buckets)] : Cpl[p] = cpl})
    ELSE Cardinality(buckets[cpl + 1])

MaxCommonPrefix_LastBucket ==
    Greatest({0} \cup {Cpl[p] : p \in buckets[Len(buckets)]})

MaxCommonPrefix ==
    LET full == {i \in 1..Len(buckets) : buckets[i] # {}}
    IN  IF full = {} THEN 0
        ELSE Greatest({Cpl[p] : p \in buckets[Greatest(full)]})

-----------------------------------------------------------------------------
TypeOK ==
    /\ buckets \in Seq(SUBSET Peer)
    /\ Len(buckets) > 0
    /\ DOMAIN info \subseteq Peer
    /\ info \in [DOMAIN info -> PeerInfo]
    /\ notified \subseteq Peer
    /\ reply \in Replies
    /\ now \in Times

SameCpl(c) == {p \in TablePeers : Cpl[p] = c}

(***************************************************************************)
(* Every bucket but the last holds peers of exactly its own Cpl, and the   *)
(* last holds the peers that are closer than that.  The lookups by Cpl all *)
(* take this for granted, while nextBucket and removePeer move buckets to  *)
(* other numbers.  (bucketIdForPeer, split, removePeer's collapse.)        *)
(***************************************************************************)
Placement == WellPlaced(buckets)

(***************************************************************************)
(* Between two calls no bucket holds more than bucketsize peers, although  *)
(* addPeer pushes the new peer before it removes the one it replaces.      *)
(***************************************************************************)
Capacity == WithinCapacity(buckets)

(***************************************************************************)
(* The peers in the buckets are the ones with a PeerInfo, and the ones an  *)
(* application knows that follows the PeerAdded and PeerRemoved callbacks: *)
(* no arrival, eviction or removal goes unannounced.                       *)
(***************************************************************************)
CallbacksMirrorTable == DOMAIN info = TablePeers /\ notified = TablePeers

(***************************************************************************)
(* The table does not unfold without end, even when a full last bucket is  *)
(* unfolded again and again for peers that are then rejected.              *)
(***************************************************************************)
UnfoldingBounded == Len(buckets) <= MaxCpl + 2

(***************************************************************************)
(* UsefulNewPeer, which looks at the buckets before they are unfolded, is  *)
(* true of exactly the peers addPeer would find a place for: those with    *)
(* fewer than bucketsize peers of the same Cpl in the table, or with a     *)
(* replaceable one among them.                                             *)
(***************************************************************************)
UsefulNewPeerExact ==
    \A p \in Peer :
        UsefulNewPeer(p) <=>
            /\ p \notin TablePeers
            /\ \/ Cardinality(SameCpl(Cpl[p])) < BucketSize
               \/ \E q \in SameCpl(Cpl[p]) : info[q].replaceable

(***************************************************************************)
(* NPeersForCpl counts all the peers of a Cpl and no others, whether they  *)
(* have a bucket of their own or share the last one.                       *)
(***************************************************************************)
NPeersForCplExact ==
    \A c \in 0..MaxCpl : NPeersForCpl(c) = Cardinality(SameCpl(c))

(***************************************************************************)
(* maxCommonPrefix, which looks only into the last bucket with peers in    *)
(* it, is the greatest Cpl of all peers: it decides how many Cpls are      *)
(* refreshed.                                                              *)
(***************************************************************************)
MaxCommonPrefixExact ==
    MaxCommonPrefix = Greatest({0} \cup {Cpl[p] : p \in TablePeers})

(***************************************************************************)
(* A call to addPeer evicts at most one peer, only to put another of the   *)
(* same Cpl in its place, only a replaceable one, and only when that Cpl   *)
(* already has bucketsize peers.                                           *)
(***************************************************************************)
EvictsJustly ==
    \A v \in TablePeers \ TablePeers' :
        TablePeers' \ TablePeers # {} =>
            /\ info[v].replaceable
            /\ Cardinality(SameCpl(Cpl[v])) = BucketSize
            /\ TablePeers \ TablePeers' = {v}
            /\ \A p \in TablePeers' \ TablePeers : Cpl[p] = Cpl[v]

EvictionJustified == [][EvictsJustly]_vars

(***************************************************************************)
(* MarkAllPeersIrreplaceable: "we will never replace an existing peer".  A *)
(* peer that is irreplaceable stays so until RemovePeer takes it out: no   *)
(* later TryAddPeer of the same peer makes it replaceable again.           *)
(***************************************************************************)
KeepsIrreplaceable ==
    \A p \in TablePeers :
        ~info[p].replaceable =>
            \/ p \in TablePeers' /\ ~info'[p].replaceable
            \/ TablePeers' = TablePeers \ {p}

IrreplaceableIsFinal == [][KeepsIrreplaceable]_vars

(***************************************************************************)
(* "If the peer ALREADY exists in the Routing Table and has been queried   *)
(* before, this call is a no-op" (table.go:172): TryAddPeer changes the    *)
(* record of no peer that stays, except for the first usefulness of the    *)
(* very peer, and that only if the caller has queried it.  When others are *)
(* moved about or evicted for the new peer their records stay as they are. *)
(* And no method changes when a peer was added.                            *)
(***************************************************************************)
KeepsRecord ==
    /\ \A q \in TablePeers \cap TablePeers' : info'[q].addedAt = info[q].addedAt
    /\ \A p \in Peer, queryPeer \in QueryPeerArg, isReplaceable \in BOOLEAN :
          TryAddPeer(p, queryPeer, isReplaceable) =>
              \A q \in TablePeers \cap TablePeers' :
                  \/ info'[q] = info[q]
                  \/ /\ q = p /\ queryPeer /\ info[q].lastUsefulAt = Never
                     /\ info'[q] = [info[q] EXCEPT !.lastUsefulAt = now]

ReAddKeepsRecord == [][KeepsRecord]_vars

(***************************************************************************)
(* UsefulNewPeer is asked first, TryAddPeer called later, and any calls    *)
(* may come between.  A yes stands until a peer of the same Cpl joins, or  *)
(* MarkAllPeersIrreplaceable is called; a no stands until a peer of that   *)
(* Cpl leaves, and if another one takes its place, then it is the peer in  *)
(* question itself that has left.  The peers of other Cpls come and go,    *)
(* unfold and collapse the bucket that is asked about, and change nothing. *)
(***************************************************************************)
AnswersStand ==
    \A p \in Peer :
        LET came == {q \in TablePeers' \ TablePeers : Cpl[q] = Cpl[p]}
            left == {q \in TablePeers \ TablePeers' : Cpl[q] = Cpl[p]}
        IN  /\ UsefulNewPeer(p) /\ ~UsefulNewPeer(p)' =>
                  \/ came # {}
                  \/ TablePeers' = TablePeers /\ \A q \in TablePeers : ~info'[q].replaceable
            /\ ~UsefulNewPeer(p) /\ UsefulNewPeer(p)' =>
                  left # {} /\ (came # {} => p \in left)

UsefulnessIsStable == [][AnswersStand]_vars

(***************************************************************************)
(* What the comment on TryAddPeer says of eviction: the peer replaced is   *)
(* one whose last successful query is too long ago (table.go:182-184), at  *)
(* the very least one that was not successfully queried at this instant.   *)
(***************************************************************************)
EvictsOnlyOverduePeers ==
    [][\A v \in DOMAIN info \ DOMAIN info' :
          DOMAIN info' \ DOMAIN info # {} =>
              info[v].lastSuccessfulOutboundQueryAt < now]_vars

-----------------------------------------------------------------------------
(***************************************************************************)
(* The table implements the ideal one: lazy unfolding and collapsing never *)
(* show in what is stored, evicted, rejected or returned by TryAddPeer.    *)
(***************************************************************************)
Ideal == INSTANCE IdealTable WITH
            group <- [c \in 0..MaxCpl |-> SameCpl(c)],
            replaceable <- {p \in DOMAIN info : info[p].replaceable}

ImplementsIdealTable == Ideal!Spec
=============================================================================
