---------------------------- MODULE FilteredTable ----------------------------
(***************************************************************************)
(* The routing table with its diversity filter.  addPeer enters the new    *)
(* peer into the filter before it looks for a place, and takes it out      *)
(* again if there is none; removePeer takes out whoever leaves the table.  *)
(*                                                                         *)
(* tabLock does not guard the filter: it has a mutex of its own, and       *)
(* WhitelistPeers and GetDiversityStats are called without tabLock.  So    *)
(* addPeer is two steps here, up to and after the filter's TryAdd, and     *)
(* what the application does with the filter may come between them.  All   *)
(* else that holds tabLock waits until addPeer has returned.               *)
(*                                                                         *)
(* The clock and the two Update methods, which only touch times in a       *)
(* PeerInfo, are left to RoutingTable.                                     *)
(***************************************************************************)
EXTENDS RoutingTable, DiversityFilter

VARIABLES
    adding,  \* the call to addPeer that the filter has let pass, if any
    joined   \* for each peer in the table, the groups it was let in with

allVars == <<vars, filterVars, adding, joined>>

tabLockFree == adding = {}

FilteredInit ==
    /\ Init
    /\ FilterInit
    /\ adding = {}
    /\ joined = [p \in {} |-> <<>>]

-----------------------------------------------------------------------------
\* addPeer returns before it comes to the filter.
ReturnEarly(p, queryPeer, isReplaceable) ==
    /\ tabLockFree
    /\ AddExisting(p, queryPeer, isReplaceable) \/ TurnAway(p, "latency")
    /\ UNCHANGED <<filterVars, adding, joined>>

\* The filter turns the peer away.
RejectByFilter(p) ==
    /\ tabLockFree
    /\ TurnAway(p, "diversity")
    /\ \E addrs \in AddressList : Refuse(p, addrs)
    /\ UNCHANGED <<adding, joined>>

\* The filter lets the peer pass; addrs is empty for a whitelisted one.
PassFilter(p, queryPeer, isReplaceable) ==
    /\ tabLockFree
    /\ ~InTable(p)
    /\ \E addrs \in AddressList \cup {<<>>} :
          /\ \/ addrs = <<>> /\ PassWhitelisted(p)
             \/ Accept(p, addrs)
          /\ adding' = {[peer |-> p, queryPeer |-> queryPeer,
                        isReplaceable |-> isReplaceable, groups |-> addrs]}
    /\ UNCHANGED <<vars, joined>>

\* The rest of addPeer: the peer joins, with or without an eviction, or is
\* rejected.
JoinedBy(call, gone) ==
    [p \in (DOMAIN joined \cup {call.peer}) \ gone |->
        IF p = call.peer THEN call.groups ELSE joined[p]]

Join(call) ==
    /\ AddNew(call.peer, call.queryPeer, call.isReplaceable)
    /\ joined' = JoinedBy(call, {})
    /\ UNCHANGED filterVars

JoinReplacing_NewOut(call, v) ==
    /\ AddReplacing(call.peer, v, call.queryPeer, call.isReplaceable)
    /\ joined' = JoinedBy(call, {v})
    /\ FilterRemove(call.peer)

JoinReplacing(call, v) ==
    /\ AddReplacing(call.peer, v, call.queryPeer, call.isReplaceable)
    /\ joined' = JoinedBy(call, {v})
    /\ FilterRemove(v)

Reject_StaysInFilter(call) ==
    /\ RejectNoCapacity(call.peer)
    /\ UNCHANGED <<joined, filterVars>>

Reject(call) ==
    /\ RejectNoCapacity(call.peer)
    /\ FilterRemove(call.peer)
    /\ UNCHANGED joined

FinishAdd ==
    /\ adding' = {}
    /\ \E call \in adding :
          \/ Join(call)
          \/ \E v \in TablePeers : JoinReplacing(call, v)
          \/ Reject(call)

RemoveFromBoth_TableOnly(p) ==
    /\ tabLockFree
    /\ RemovePeer(p)
    /\ joined' = [q \in DOMAIN joined \ {p} |-> joined[q]]
    /\ UNCHANGED <<filterVars, adding>>

RemoveFromBoth(p) ==
    /\ tabLockFree
    /\ RemovePeer(p)
    /\ FilterRemove(p)
    /\ joined' = [q \in DOMAIN joined \ {p} |-> joined[q]]
    /\ UNCHANGED adding

MarkAllIrreplaceable ==
    /\ tabLockFree
    /\ MarkAllPeersIrreplaceable
    /\ UNCHANGED <<filterVars, adding, joined>>

\* By the application, at any time.
Whitelist(p) ==
    /\ WhitelistPeers({p})
    /\ UNCHANGED <<vars, adding, joined>>

FilteredNext ==
    \/ \E p \in Peer :
          \/ \E queryPeer \in QueryPeerArg, isReplaceable \in BOOLEAN :
                \/ ReturnEarly(p, queryPeer, isReplaceable)
                \/ PassFilter(p, queryPeer, isReplaceable)
          \/ RejectByFilter(p)
          \/ RemoveFromBoth(p)
          \/ Whitelist(p)
    \/ FinishAdd
    \/ MarkAllIrreplaceable

FilteredSpec == FilteredInit /\ [][FilteredNext]_allVars

-----------------------------------------------------------------------------
\* The addresses in a group that the peers of a Cpl were let in with.
InGroup(cpl, key) ==
    UNION {{<<p, i>> : i \in Positions(key, joined[p])} : p \in SameCpl(cpl)}

(***************************************************************************)
(* The filter tracks the peers in the table and no others, but for the one *)
(* that addPeer is about to place; a peer in the table that it does not    *)
(* track was whitelisted.  No rejected, evicted or removed peer keeps on   *)
(* counting against its group.  (addPeer, removePeer.)                     *)
(***************************************************************************)
FilterTracksTable ==
    /\ Tracked \ TablePeers \subseteq {call.peer : call \in adding}
    /\ TablePeers \ Tracked \subseteq wlpeers
    /\ \A p \in TablePeers \cap Tracked : peerGroups[p] = joined[p]

(***************************************************************************)
(* In the table itself no more than Limit peers of a Cpl are in the same   *)
(* IP group, by the addresses they were let in with; the peers that were   *)
(* let in by the whitelist do not count.                                   *)
(***************************************************************************)
TableIsDiverse ==
    \A c \in 0..MaxCpl, k \in GroupKey :
        Cardinality({p \in SameCpl(c) : \E i \in DOMAIN joined[p] : joined[p][i] = k})
            <= Limit

(***************************************************************************)
(* The filter turns nobody away without a reason in the table: a peer      *)
(* whose addresses all have a key, and whose groups occur fewer than Limit *)
(* times among the peers of its Cpl that are in the table, passes.  No     *)
(* peer that was rejected, evicted or removed stands in its way, though    *)
(* the peer it would replace may.  (addPeer asks the filter first.)        *)
(***************************************************************************)
RefusesForTableOnly ==
    tabLockFree =>
        \A p \in Peer, addrs \in AddressList :
            /\ addrs # <<>>
            /\ \A i \in DOMAIN addrs :
                  /\ addrs[i] # NoKey
                  /\ Cardinality(InGroup(Cpl[p], addrs[i])) < Limit
            => Acceptable(p, addrs)

(***************************************************************************)
(* Nothing leaks: once the table is empty and no call is under way, the    *)
(* policy's counts are all back at zero and the statistics are empty.      *)
(***************************************************************************)
EmptyTableCountsNothing ==
    tabLockFree /\ TablePeers = {} =>
        /\ \A c \in 0..MaxCpl, k \in GroupKey : count[c][k] = 0
        /\ cplPeerGroups = <<>>
=============================================================================
