--------------------------- MODULE DiversityFilter ---------------------------
(***************************************************************************)
(* The peer diversity Filter of peerdiversity/filter.go.  Each of its      *)
(* methods holds the filter's own mutex, so each is one action.            *)
(*                                                                         *)
(* An address is represented by the key of its IP group (IPGroupKey), or   *)
(* by NoKey when no IP can be read from it.  The addresses of a peer are   *)
(* asked for at every TryAdd and may differ from one call to the next.     *)
(* The policy behind the PeerIPGroupFilter interface belongs to the        *)
(* application; it is the one of the repository's tests: allow a group of  *)
(* a Cpl while it was incremented fewer than Limit times.                  *)
(***************************************************************************)
EXTENDS PeerCpl, Sequences, FiniteSets, Functions

CONSTANTS
    GroupKey,     \* the keys of IP groups
    NoKey,        \* the key of an address that is no IP address
    AddressList,  \* the lists that PeerAddresses may return
    Limit         \* how often the policy lets a group of a Cpl be incremented

ASSUME GroupKeyAssumption == NoKey \notin GroupKey

ASSUME AddressListAssumption == AddressList \subseteq Seq(GroupKey \cup {NoKey})

ASSUME LimitAssumption == Limit \in Nat

VARIABLES
    peerGroups,     \* Filter.peerGroups: the groups of each tracked peer
    cplPeerGroups,  \* Filter.cplPeerGroups: the same, by Cpl
    wlpeers,        \* Filter.wlpeers: the whitelisted peers
    count           \* the policy's count of each group of each Cpl

filterVars == <<peerGroups, cplPeerGroups, wlpeers, count>>

Tracked == DOMAIN peerGroups

FilterInit ==
    /\ peerGroups = [p \in {} |-> <<>>]
    /\ cplPeerGroups = [c \in {} |-> <<>>]
    /\ wlpeers = {}
    /\ count = [c \in 0..MaxCpl |-> [k \in GroupKey |-> 0]]

-----------------------------------------------------------------------------
Allow(cpl, key) == count[cpl][key] < Limit

\* Where, and so how often, a key occurs in a list of groups.
Positions(key, groups) == {i \in DOMAIN groups : groups[i] = key}

Occurrences(key, groups) == Cardinality(Positions(key, groups))

\* PeerIPGroupFilter.Increment, or Decrement, for each of a peer's groups.
Counted(cpl, groups, by) ==
    [count EXCEPT ![cpl] = [k \in GroupKey |-> @[k] + by * Occurrences(k, groups)]]

\* A map with an entry set, with one deleted, and its entry, empty if absent.
With(f, x, e) == [y \in DOMAIN f \cup {x} |-> IF y = x THEN e ELSE f[y]]

Without(f, x) == [y \in DOMAIN f \ {x} |-> f[y]]

Entry(f, x) == IF x \in DOMAIN f THEN f[x] ELSE <<>>

\* TryAdd looks at one address after the other and gives up at the first that
\* has no key or is not allowed.  Good(i): it gets past address i.
Good_KeyOnly(p, addrs, i) == addrs[i] # NoKey

Good(p, addrs, i) == addrs[i] # NoKey /\ Allow(Cpl[p], addrs[i])

Acceptable(p, addrs) ==
    addrs # <<>> /\ \A i \in DOMAIN addrs : Good(p, addrs, i)

\* TryAdd = true, without a record.
PassWhitelisted(p) ==
    /\ p \in wlpeers
    /\ UNCHANGED filterVars

\* TryAdd = true.
Accept(p, addrs) ==
    /\ p \notin wlpeers
    /\ Acceptable(p, addrs)
    /\ peerGroups' = With(peerGroups, p, Entry(peerGroups, p) \o addrs)
    /\ LET peers == Entry(cplPeerGroups, Cpl[p])
       IN  cplPeerGroups' =
              With(cplPeerGroups, Cpl[p], With(peers, p, Entry(peers, p) \o addrs))
    /\ count' = Counted(Cpl[p], addrs, 1)
    /\ UNCHANGED wlpeers

\* TryAdd = false.
Refuse(p, addrs) ==
    /\ p \notin wlpeers
    /\ ~Acceptable(p, addrs)
    /\ UNCHANGED filterVars

\* cplPeerGroups once p is taken out; a Cpl without peers is taken out too.
StatsWithout_EmptyCpl(p) ==
    IF Cpl[p] \in DOMAIN cplPeerGroups
    THEN [cplPeerGroups EXCEPT ![Cpl[p]] = Without(@, p)]
    ELSE cplPeerGroups

StatsWithout(p) ==
    LET rest == Without(Entry(cplPeerGroups, Cpl[p]), p)
    IN  IF DOMAIN rest = {} THEN Without(cplPeerGroups, Cpl[p])
        ELSE [cplPeerGroups EXCEPT ![Cpl[p]] = rest]

FilterRemove_OncePerGroup(p) ==
    /\ peerGroups' = Without(peerGroups, p)
    /\ cplPeerGroups' = StatsWithout(p)
    /\ count' = [count EXCEPT ![Cpl[p]] =
                    [k \in GroupKey |->
                        @[k] - IF k \in Range(Entry(peerGroups, p)) THEN 1 ELSE 0]]
    /\ UNCHANGED wlpeers

FilterRemove(p) ==
    /\ peerGroups' = Without(peerGroups, p)
    /\ cplPeerGroups' = StatsWithout(p)
    /\ count' = Counted(Cpl[p], Entry(peerGroups, p), -1)
    /\ UNCHANGED wlpeers

WhitelistPeers(peers) ==
    /\ wlpeers' = wlpeers \cup peers
    /\ UNCHANGED <<peerGroups, cplPeerGroups, count>>

FilterTryAdd(p) ==
    \/ PassWhitelisted(p)
    \/ \E addrs \in AddressList : Accept(p, addrs) \/ Refuse(p, addrs)

FilterNext ==
    \E p \in Peer : FilterTryAdd(p) \/ FilterRemove(p) \/ WhitelistPeers({p})

FilterSpec == FilterInit /\ [][FilterNext]_filterVars

-----------------------------------------------------------------------------
\* GetDiversityStats: the groups of the peers of each Cpl, sorted by Cpl
\* (sort.Ints: a Cpl comes after as many as there are that are less).
GetDiversityStats_Unsorted ==
    LET cpls == DOMAIN cplPeerGroups
        At(i) == CHOOSE c \in cpls : Cardinality({d \in cpls : d > c}) = i - 1
    IN  [i \in 1..Cardinality(cpls) |-> [cpl |-> At(i), peers |-> cplPeerGroups[At(i)]]]

GetDiversityStats ==
    LET cpls == DOMAIN cplPeerGroups
        At(i) == CHOOSE c \in cpls : Cardinality({d \in cpls : d < c}) = i - 1
    IN  [i \in 1..Cardinality(cpls) |-> [cpl |-> At(i), peers |-> cplPeerGroups[At(i)]]]

-----------------------------------------------------------------------------
\* The records of the filter that make up the count of a group of a Cpl: a
\* tracked peer of the Cpl and the place of the group in the peer's list.
Recorded(cpl, key) ==
    UNION {{<<p, i>> : i \in Positions(key, peerGroups[p])} :
              p \in {q \in Tracked : Cpl[q] = cpl}}

(***************************************************************************)
(* The policy's counts never drift: each is the number of times the group  *)
(* occurs in what the filter has recorded for the tracked peers of that    *)
(* Cpl, whatever was accepted, refused, removed or whitelisted before.     *)
(***************************************************************************)
CountsMatchGroups ==
    \A c \in 0..MaxCpl, k \in GroupKey :
        count[c][k] = Cardinality(Recorded(c, k))

(***************************************************************************)
(* The two maps of the filter agree: the one by Cpl, which the statistics  *)
(* are taken from, has the tracked peers and their groups, each under its  *)
(* Cpl, and no Cpl without peers.  (Remove deletes from both.)             *)
(***************************************************************************)
StatsMatchGroups ==
    /\ DOMAIN cplPeerGroups = {Cpl[p] : p \in Tracked}
    /\ \A c \in DOMAIN cplPeerGroups :
          cplPeerGroups[c] = [p \in {q \in Tracked : Cpl[q] = c} |-> peerGroups[p]]

(***************************************************************************)
(* "GetDiversityStats returns the diversity stats for each CPL and is      *)
(* sorted by the CPL": every tracked peer is in exactly one entry, with    *)
(* the groups the filter will take back when the peer is removed, and the  *)
(* entries come in the order of their Cpls, although a map has no order.   *)
(***************************************************************************)
StatsReportTracked ==
    LET stats == GetDiversityStats
    IN  /\ \A i, j \in DOMAIN stats : i < j => stats[i].cpl < stats[j].cpl
        /\ \A i \in DOMAIN stats : \A p \in DOMAIN stats[i].peers :
              /\ p \in Tracked
              /\ Cpl[p] = stats[i].cpl
              /\ stats[i].peers[p] = peerGroups[p]
        /\ \A p \in Tracked : \E i \in DOMAIN stats : p \in DOMAIN stats[i].peers

(***************************************************************************)
(* No more than Limit peers of a Cpl are in the same IP group.  The count  *)
(* itself may exceed Limit, by a peer with several addresses in one group: *)
(* each address is allowed before any is counted.                          *)
(***************************************************************************)
PeersPerGroupLimited ==
    \A c \in 0..MaxCpl, k \in GroupKey :
        Cardinality({p \in Tracked : Cpl[p] = c /\ k \in Range(peerGroups[p])}) <= Limit
=============================================================================
