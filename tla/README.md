# A verification of go-libp2p-kbucket

This directory holds TLA+ models of the Kademlia routing table of
`go-libp2p-kbucket`, TLC runs that check them on small instances, and proofs
that TLAPS checks for every value of the constants. Line numbers are those of
the repository at the commit this was written for.

## 1. Inventory

| Component (source) | State | Operations | What is hard | What makes it correct |
|---|---|---|---|---|
| Bucket structure (`table.go`, `bucket.go`) | `rt.buckets`, a slice of lists | `nextBucket`, `bucket.split`, the collapse loop of `removePeer`, `bucketIdForPeer` | recursion until the newest bucket has room; holes left by removals; buckets change number | every peer is where `bucketIdForPeer` looks for it; unfolding ends |
| Routing table (`table.go`) | buckets, the `PeerInfo` of each peer | `TryAddPeer`, `RemovePeer`, `MarkAllPeersIrreplaceable`, `UpdateLastUsefulAt`, `UpdateLastSuccessfulOutboundQueryAt`, `UsefulNewPeer`, `NPeersForCpl`, `ListPeers`, `GetPeerInfos`, `Size`, `maxCommonPrefix` | unfolding before eviction; new peer goes in before the old one goes out; the same decision is coded twice (`addPeer`, `UsefulNewPeer`) | it behaves as a table with one fixed k-bucket per common prefix length; callbacks mirror it; nobody is evicted who should not be |
| Peer diversity filter (`peerdiversity/filter.go`) | `peerGroups`, `cplPeerGroups`, `wlpeers`; behind it the policy's counts | `TryAdd`, `Remove`, `WhitelistPeers`, `GetDiversityStats` | addresses change between `TryAdd` and `Remove`; two addresses in one group; all addresses are allowed before one is counted | its two maps and the policy's counts say the same; no group exceeds its limit |
| Table with filter | both | `addPeer`, `removePeer` call `TryAdd`, `Remove` | the filter has a mutex of its own: `addPeer` is not atomic for its users; a rejection after acceptance | the filter tracks exactly the peers of the table |
| IP grouping (`peerdiversity/filter.go:203-229`) | none | `IPGroupKey` | boundaries of the legacy classes, unknown ASNs | one key per documented group |
| Nearest peers, XOR key space (`table.go:421-504`, `sorting.go`, `util.go`, `keyspace/`) | none | `NearestPeers`, `NearestPeer`, `Find`, `CommonPrefixLen`, `Closer`, `SortByDistance` | two packages that sort; which buckets may be left out | the `count` nearest peers, in order |
| Refresh tracking (`table_refresh.go`) | `cplRefreshedAt`, under `cplRefreshLk` | `GetTrackedCplsForRefresh`, `ResetCplRefreshedAtForID` | two locks taken one after the other; three limits that have to agree; times taken before | every Cpl with peers is tracked, and no Cpl stays overdue through a round of refreshing |
| Locks and callbacks (`table.go`, `table_refresh.go`, `peerdiversity/filter.go`) | `tabLock`, `cplRefreshLk`, the filter's `mu` | every public method; `PeerAdded`, `PeerRemoved` run under `tabLock`, the policy under `mu` | readers behind a waiting writer; the filter's lock inside the table's | no data race; no two callers wait for each other; every call returns |
| Key generation (`table_refresh.go:48-76`, `util.go:66-92`) | none | `GenRandPeerID`, `GenRandomKey`, `GenRandPeerIDWithCPL` | bit boundaries | the key generated has the Cpl asked for |
| Prefix map and its generator (`bucket_prefixmap.go`, `generate/main.go`) | the search: `ids`, `found`, `count`; then a constant array | the search loop | 0 is a candidate and the default; the candidate is encoded once more in `util.go` | a preimage for every 16-bit prefix, always the same one |

**How they interact.** An application calls the table; the table locks
`tabLock` and calls the metrics (`LatencyEWMA`), the filter (`TryAdd`,
`Remove`) and the callbacks (`PeerAdded`, `PeerRemoved`) synchronously. The
filter locks its own mutex and calls the policy (`Allow`, `Increment`,
`Decrement`, `PeerAddresses`). The refresh methods read the table through
`maxCommonPrefix` and then their own map under a lock of its own. Nothing is
sent, persisted or retried, and the table starts no goroutine: `ctx` is
cancelled by `Close` and nobody waits on it. Concurrency is therefore that of
the callers.

The hazards, each with its line and the properties that watch it, are listed in
`PROJECT.json`.

## 2. Modules

```
PeerCpl <- KBuckets <- RoutingTable                  peers, structure, table
IdealTable    <= RoutingTable <= ListTable           (<= "is implemented by")
PeerCpl                       <- DiversityFilter
RoutingTable, DiversityFilter <- FilteredTable       table and filter composed
KeySpace <- KeyDistance
RoutingTable, KeyDistance     <- NearestPeers        lookups over IDs of bits
RoutingTable                  <- RefreshTracking     refresh times beside the table
KeySpace <- PrefixMap         <- KeyGeneration
Sha256                        <- KeyPrefixMap        numbers of bucket_prefixmap.go
Locks, IPGrouping                                    on their own

KBuckets_proofs <- RoutingTable_proofs               also RefreshTracking
RoutingTable_proofs <- ListTable_proofs              as an instance: lists as sets
RoutingTable_proofs <- PeerDiversity_proofs          filter, filtered table, grouping
RoutingTable_proofs, KeySpace_proofs <- NearestPeers_proofs
KeySpace_proofs <- KeyGeneration_proofs              Locks_proofs
```

A definition with an underscore in its name (`HasRoom_OffByOne`, say) is no part
of a model. It is a faulty version of the definition that follows it, the way
someone might plausibly break that piece of code, and it is kept beside it to
show that a property notices the difference; `PROJECT.json` ("mutants") pairs them.

### PeerCpl, KBuckets

The structure, without any behaviour. A table is a sequence of buckets, a bucket
a set of peers. A peer is opaque: all that the structure, and the filter, ask of
it is `CommonPrefixLen(ConvertPeerID(p), rt.local)`, the constant function `Cpl`
of PeerCpl.
The code's bucket `i` is `bs[i + 1]`. Several peers may have one Cpl, as two
IDs may share their first bits. `MaxCpl` is the length of an ID in bits; the
only ID with that Cpl is the local one, and nothing in `addPeer` refuses it, so
the model does not either.

`NextBucket` and `Collapse` say in closed form what the recursion and the loop
of the code compute. That they do is proved, not assumed: see ListTable.

### RoutingTable

One action per outcome of each public method. A public method holds `tabLock`
from its first line to its last, so it is one atomic step (the exception, the
filter under its own lock, is what FilteredTable is about).

| Code | Model |
|---|---|
| `rt.buckets` | `buckets` |
| the `PeerInfo` values in the lists | `info`, a function on the peers in the table |
| what a user of `PeerAdded` and `PeerRemoved` has been told | `notified` |
| result of `TryAddPeer` | `reply` |
| `time.Now()` | `now`, moved by `Tick` up to `MaxTime` |
| `addPeer`: already present (209-217) | `AddExisting` |
| latency too high (219-223), filter says no (225-232) | `TurnAway` |
| `nextBucket` and its condition (248-254) | `Candidate` |
| room in the bucket (234-246, 255-267) | `AddNew` |
| a replaceable peer is evicted (270-297) | `AddReplacing` |
| no room, out of the filter again (299-303) | `RejectNoCapacity` |
| `removePeer` with its collapse (375-404) | `RemovePeer`, `RemoveFrom`, `Collapse` |
| `UsefulNewPeer`, `NPeersForCpl`, `maxCommonPrefix` | operators of those names |

Any peer may be turned away by latency or diversity at any time: the model
allows every metric and every policy. The two Update methods take any time, the
zero time among them (`TimesOrNever`).

`KeepsRecord` is what the comment on `TryAddPeer` says of a peer that is added
again (`table.go:172`), and of the others too: adding a peer changes nobody's
record, but to note the first usefulness of that peer.

A user asks `UsefulNewPeer` first and calls `TryAddPeer` later, and `tabLock` is
free in between. `UsefulnessIsStable` says what the answer is still worth then: a
yes stands until a peer of the same Cpl joins or all are marked irreplaceable, a no
until a peer of that Cpl leaves. Peers of other Cpls never matter, though they unfold
and collapse the very bucket that was asked about.

### IdealTable

What the routing table promises, with no buckets that unfold: for every Cpl a
group of at most `BucketSize` peers. A peer joins if its group has room,
otherwise in place of a replaceable member, otherwise it is rejected.
`ImplementsIdealTable` maps `group[c]` to the peers of Cpl `c`, wherever they
are kept. That this holds is the real content of lazy unfolding: however many
Cpls share the last bucket, nobody is evicted or rejected who would not have
been with a bucket for each Cpl.

### ListTable

The same table as the code writes it: buckets are lists with the newest peer
in front, `nextBucket` is recursive, `removePeer` loops, and `bucket.min` scans
with the comparator `addPeer` gives it (which is not an order: it only asks
whether its first argument is replaceable). Recursion and loops are recursive
functions, on lists of lists or on positions, and not RECURSIVE operators, so
that they can be proved about. `ImplementsRoutingTable` maps each
list to its set and is the whole specification of RoutingTable. `Size`,
`ListPeers` and `maxCommonPrefix` walk the lists here; `ListsShowTable` says that
they see every peer once. `ListsKeepRecords` is `KeepsRecord` over the lists.

### DiversityFilter

`peerGroups` and `cplPeerGroups` as in the code; `count` is the policy behind
`PeerIPGroupFilter`, external, modelled as a limit on each group, as in
`peerdiversity/filter_test.go`. Each `TryAdd` takes any list of addresses from
`AddressList`, since a peer's addresses change; an address is the key of its
group or no IP address at all. `FilterRemove` uses the
groups recorded then. `GetDiversityStats` changes nothing and is an operator,
which sorts as `sort.Ints` does: a Cpl comes after those that are less;
`StatsReportTracked` says what it reports in every state.

### FilteredTable

RoutingTable with the real filter. `addPeer` takes two steps: `PassFilter`
(`TryAdd` has returned true) and `FinishAdd` (the peer joins, replaces another,
or is rejected and removed from the filter). Between the two, only things that
do not need `tabLock` can happen: `Whitelist` (the filter's `WhitelistPeers`). `adding` holds the call in
progress, at most one because of `tabLock`.
`Tick` and the methods that only touch a `PeerInfo` are left out: they
change neither who is in the table nor the filter.

### KeySpace, NearestPeers

KeySpace is the XOR metric: an ID is a function from bit numbers to bits,
`CommonPrefixLen` the number of zeros before the first one of `Xor(a, b)`, and
`Less` compares two IDs at the first bit in which they differ, which is what
comparing them byte by byte does. NearestPeers gives every peer an ID and ties
`Cpl` to it (`DhtIdAssumption`: IDs are hashes and distinct). `Gathered` is the
set of the peers NearestPeers looks at: the target's bucket, all buckets to the
right of it if that one is short, then buckets to the left, one by one, until
there are `count` peers. None of the three methods changes state, so they are
operators, which the invariants evaluate in every reachable table, for every
target. KeyDistance is the other sorter of the repository, `SortByDistance` of
the keyspace package, whose distance is a number; `SortersAgree` compares the two.

### PrefixMap, KeyGeneration

PrefixMap is the loop of `generate/main.go`, a round at a time: the hash of the
next candidate, its prefix, and the number kept if the prefix is new. SHA-256
is the constant `Hash`, any function that leads to every prefix
(`HashAssumption`; for another one the loop would not end). An index of the
array is the function of its bits, as an ID is. `MaxUint32`, the width of the
counter, and `PrefixBits` are parameters. `keyPrefixMap` is the outcome; the
numbers themselves depend on SHA-256 and are KeyPrefixMap's business.

KeyGeneration is `GenRandomKey` and `GenRandPeerIDWithCPL` on the bits of an ID,
with the map once it is written; `ByteBits` and `MaxInt` are 8 and 2^63 - 1 (or
2^31 - 1) in the code and parameters here. A mask is the set of the bits that
are one in it. The check of `GenRandomKey` is on machine integers, sum and
conversion included. `PeerIDFor` is the peer ID that `util.go` makes of a number
of the map, `Candidate` the one the generator hashed: two pieces of code that
share nothing, which `GeneratedHasCpl` needs to be the same. Wherever random bytes
are read there may be none: the outcome is an error then.

### Sha256, KeyPrefixMap

`bucket_prefixmap.go` is checked in, and nothing in the repository generates or
tests it anew: if the search, the encoding of a candidate or the prefix that is
taken of a hash changed, the array would be stale and every peer ID that
`GenRandPeerIDWithCPL` makes would have the wrong Cpl. KeyPrefixMap therefore
holds numbers of the file itself against SHA-256. Sha256 computes the hash of a
message that fits in one block; a word is a pair of halves, since TLC's integers
have 32 bits and a sign. The numbers are four stretches of 150 rows, 9600 of the
65536 entries, spread over the file, its last entry among them. A step goes on to the
next entry of a stretch, as a caller would who makes a peer ID of each, and
hashes one candidate of the search beside it. `FileHoldsFirstCandidates` says
that each entry has its own index as its prefix and that no candidate below 9600 is
an earlier preimage of an entry than the one in the file. What is not checked is
that between 9600 and an entry there is none; for any hash PrefixMap has that.

### RefreshTracking

RoutingTable and beside it `cplRefreshedAt`. `GetTrackedCplsForRefresh` takes
two locks, one after the other, so it is two actions, `ReadMaxCpl` and
`ReturnTimes`; `getting` is the call between them and `tracked` what the last
call has returned. Both remember the peers that were in the table during the
whole call, for the property that is about them. `TableStep` is any step of
RoutingTable.

What the times are for is a round of refreshing, which is the caller's business:
it takes the Cpls of an answer that are not fresh (`round`), and for one after
the other makes an ID (`GenRandPeerID`, whose limit is in `RefreshCpl`), looks it up
and resets its Cpl. An ID is known by its Cpl, which KeyGeneration shows to be the one asked
for. Beside the round anyone may call `ResetCplRefreshedAtForID` for any ID with any
time, one that was read long before or none at all. `RoundLeavesNoneOverdue` says that
nothing but such an older time leaves a Cpl overdue when the round is through: not
the peers that come and go meanwhile, nor a limit that is one off in one of the three places.

### Locks

What entitles the other modules to take a method as one step. A caller is a
process; `call[c]` holds the lock operations and critical sections it has still
to go through. Each public method is such a sequence (`addPeer` and
`removePeer` a set of them, one for each way through; `Gone` is the part of
`removePeer` after the peer is found, which `addPeer` goes through for an evicted peer). `tabLock` and
`cplRefreshLk` are `sync.RWMutex`: a writer first announces itself, which keeps
new readers out, then enters when the readers before it have left. The filter's
`mu` is used as a writer only. Callbacks and policy hooks are steps that end.
`PeerAdded` and `PeerRemoved` may call what does not take `tabLock`
(`WhitelistPeers`, `GetDiversityStats`, `ResetCplRefreshedAtForID`). A callback
that calls any other method of the table waits for ever, and no comment says
that it must not; it is excluded, and no property is about it.

### IPGrouping

`IPGroupKey` on what it looks at: the form of an address (4 bytes or 16), the
bytes of an IPv4 address, the AS and the first 32 bits of an IPv6 address. The
networks and the AS table are parameters, so that the result does not depend on
their contents. `keyOf` collects the keys of the addresses asked for.


## 3. Runs

| Run | Instance | What it shows |
|---|---|---|
| RoutingTable_k2 | 8 peers: three of Cpl 0, three of Cpl 1, one each of 2 and 3; buckets of 2; two instants; 5126 states | types; every peer is where lookups go; capacity; the read methods; irreplaceable peers stay; how long an answer of `UsefulNewPeer` stands; refinement of IdealTable, and with it who may be evicted |
| RoutingTable_overdue | 2 peers, buckets of 1, two instants, every peer added as queried (`queryPeer`); **violation** | finding 1 |
| ListTable_lists | 4 peers, three of Cpl 1 and one of 2, buckets of 2, two instants; 10254 states | recursion, loop and scan implement RoutingTable; every peer is in one list, once; lists are ordered by age (three peers of one Cpl, so that a reversal in a split shows); the oldest replaceable peer is evicted; adding leaves the records alone |
| DiversityFilter_accounting | 4 peers, 2 groups, at most 2 peers of a group in a Cpl, six lists of addresses; 33060 states | counts, groups, statistics and what is reported of them agree; limits hold |
| FilteredTable_mirror | 4 peers, buckets of 2, 2 groups, limit 1; 57556 states | the filter tracks exactly the table; a peer is refused only for peers in the table; nothing leaks |
| NearestPeers_exact | 6 peers with 3-bit IDs, buckets of 2, every target, counts 1 to 4; 3362 states | lookups are exact; both sorters agree |
| KeyGeneration_exact | 32 candidates, 4-bit prefixes, IDs of two 3-bit bytes, `MaxInt` 7; every local ID, Cpl and random bytes, or none; 8512 states | the search ends with the first candidate of every prefix; keys and peer IDs have the Cpl asked for; all are possible; the check keeps slices in range |
| KeyPrefixMap_file | the numbers in the model; 9600 states | each number leads to the prefix it stands at, and no candidate tried leads there earlier |
| RefreshTracking_locks | 3 peers of Cpls 1, 1 and 3, buckets of 1, refreshed up to Cpl 1, two instants; 232875 states | the answer still covers the table though it changed between the locks; a round leaves no Cpl overdue; unfolding through empty buckets ends; callbacks tell who is in the table though each replacement needs its order |
| Locks_callers | 3 callers, every method, callbacks that call methods; 106853 states | no race, no deadlock, every call returns |
| IPGrouping_groups | 4 byte values, 2 legacy networks, 2 prefixes, 2 ASes and none: 518 addresses, pairs; 134422 states | one key exactly for one group |
| IPGrouping_unknown | the same; **violation** | finding 2 |

**Bounds.** The structure depends on three things: how many peers share a
Cpl compared with `BucketSize`, how many Cpls share the last bucket, and which
buckets are empty. Eight peers in buckets of two, three of them of Cpl 0 and
three of Cpl 1, overflow two groups and leave holes at each of four buckets;
buckets of one with Cpls 1, 1 and 3 (RefreshTracking) make `nextBucket` unfold
through an empty bucket, and a replacement would empty the bucket, and have it dropped,
if the old peer went out before the new one came in. A `MaxCpl` of 3 gives the three kinds of bucket: first,
inner, last. `MaxTime` bounds the clock: 2 where times matter (ListTable, overdue, refreshing)
or the clock's step shall be seen (k2), 1 otherwise. A time can be older than the
round of refreshing, of it, or none; a peer can be added again at a later instant.
The filter needs three peers of one Cpl to pass a limit of two and a second Cpl
to keep apart from the first. Three callers of Locks are the fewest with which
a reader, a waiting writer and a second reader can meet, which is the case of
`RLock` taken twice. `MaxGrouped = 2`: the property is about pairs.
The hash of KeyGeneration repeats the prefix of candidate 0 (at 5) before the
last prefix comes (at 22 of 32), so that the flags of the search and the width
of its counter both matter. The
greatest of these bounds are those with which TLC ends within two minutes or
so; what is proved (section 4) has none of them.

**Symmetry** is declared among peers of one Cpl, which these models never tell
apart (no constant, property or refinement mapping names one of them). The
runs that use it check invariants, action properties and refinements of
specifications without fairness, all safety properties, and permuting the peers
maps the abstract states as well. The run with a liveness property, Locks, uses
none; nor does NearestPeers, whose peers have IDs.

**View.** RoutingTable_k2 and NearestPeers_exact have a VIEW, all of the state but the times in the
records. No guard or lookup depends on them, nor does what a step does to the rest; none of the
runs' properties is about them but `TypeOK`, which the proof has for all times.
Times are told apart in ListTable, which implements the same actions, and in
RoutingTable_overdue. ListTable_lists leaves out one of the times, that of the
last successful query, on which nothing depends, and of its properties only the
refinement is about it, step by step. RefreshTracking_locks leaves out the times in the records
and, of the answer in `tracked`, the times: they are used at once, for
`round`, which is in the view.

**Fairness.** Locks and KeyGeneration assume some. The library starts no
goroutine, so every step of the other models is a caller's choice, and what
repeats (`nextBucket`, the collapse loop) does so within one step. The search of
the generator is a loop of one thread, which goes on (`WF` of `Search`); that it
ends (`MapIsWritten`) is then up to its counter and its flags. In Locks a caller that can go on
does (`WF` of `Continue`): a running goroutine gets its turn. Acquiring a lock
has strong fairness (`SF` of `Acquire`), because the wait may be interrupted by
others again and again: `sync.Mutex` hands itself over to a waiter that has
waited for a millisecond, and `sync.RWMutex` lets the readers that wait in when
its writer leaves. Nobody has to begin a call.

## 4. Proofs

TLAPS checks every theorem below for all values of the constants, under the
assumptions named in the modules: `BucketSizeAssumption` (positive),
`CplAssumption` (every peer has a Cpl in `0..MaxCpl`), `MaxTimeAssumption`,
`QueryPeerArgAssumption` (the values of the argument `queryPeer`, at least one);
for the lookups `IdBitsAssumption`,
`DhtIdAssumption`, `LookupAssumption`; for keys `KeyGenerationAssumption`,
`PrefixMapAssumption` and `HashAssumption` (the last only for `SearchIsNotInVain`
and `SearchGoesForward`); for the filter `GroupKeyAssumption`,
`AddressListAssumption` and `LimitAssumption`; for refreshing
`RefreshAssumption`; for groups `IPGroupingAssumption`; for lists
`ListTableAssumption`, which is those of the table. `Locks` assumes nothing
of its constant, the set of callers. TLC evaluates each
of them in the runs. `Peer` may be infinite, and so may `Caller`.

**The routing table** (`RoutingTable_proofs`, on the lemmas of
`KBuckets_proofs`). The inductive invariant is

    IInv == TypeOK /\ Placement /\ Capacity /\ CallbacksMirrorTable /\ UnfoldingBounded

None of the parts is inductive alone. `Capacity` needs `Placement`: after an
unfolding the candidate bucket holds only peers of one Cpl or has room, and
that is known only of a table in which every peer is where its Cpl leads.
`UnfoldingBounded` needs both, since unfolding ends because the peers of a full
last bucket beyond the last Cpl would all share it. `CallbacksMirrorTable`
needs `Placement` because `getPeer` looks into one bucket only: were a peer
elsewhere, it would be added, and announced, twice. `KBuckets_proofs` shows
what `NextBucket`, `Push`, `Collapse` and `RemoveFrom` do to a well placed
table: they keep it well placed, they keep or change its set of peers by the
one peer, and they bound its length.

| Theorem | States |
|---|---|
| `TypeCorrect`, `PlacementHolds`, `CapacityHolds`, `CallbacksMirrorTableHolds`, `UnfoldingIsBounded` | the parts of `IInv` |
| `UsefulNewPeerExactHolds` | `UsefulNewPeer` and `addPeer` decide alike |
| `NPeersForCplExactHolds`, `MaxCommonPrefixExactHolds` | the read methods are exact though Cpls share the last bucket and buckets are empty |
| `EvictionIsJustified` (which the runs check as part of the refinement), `IrreplaceableIsFinalHolds`, `ReAddKeepsRecordHolds` | what no step ever does, as action properties |
| `UsefulnessIsStableHolds` | what changes an answer of `UsefulNewPeer`, and what never does |
| `Refinement` | `Spec => ImplementsIdealTable` |
| `ImplementsTable` | ListTable's `Spec => ImplementsRoutingTable`: recursion, loop and scan are what the sets say |
| `ListsImplementIdealTable`, `ListsKeepInvariants` | the lists implement the ideal table, and have the invariants of the table |
| `ListsStayOrdered`, `EvictionRule`, `ListsAgreeWithTable`, `ListsKeepRecordsHolds` | lists stay ordered by age; who of the replaceable is evicted; the methods that walk the lists see every peer once; adding leaves the records alone |
| `NearestPeersExactHolds`, `FindExactHolds` | lookups are exact, for any IDs, bucket size and count |
| `SortersAgreeHolds` | the two sorters of the repository agree, for IDs of any width |
| `CountsMatchGroupsHolds`, `StatsMatchGroupsHolds`, `StatsReportTrackedHolds`, `PeersPerGroupLimitedHolds` | the filter's accounting and what is reported of it, for any addresses and limit |
| `FilterTracksTableHolds`, `TableIsDiverseHolds`, `RefusesForTableOnlyHolds`, `EmptyTableCountsNothingHolds` | table and filter agree, and nothing leaks |
| `FilteredIsTable`, `FilteredIsFilter`, `FilteredRefinement` | the table with its filter is a table, its filter is a filter, and both together implement the ideal table |
| `RefreshedIsTable` | the table beside the refresh methods is a table |
| `TrackedCoverTableHolds`, `RoundLeavesNoneOverdueHolds` | refreshing covers the table in spite of two locks, and a round leaves no Cpl overdue, for any greatest Cpl to refresh |
| `GeneratedHasCplHolds`, `EveryKeyIsPossibleHolds`, `EveryPrefixIsPossibleHolds`, `PanicsOnlyOnOverflowHolds` | keys and peer IDs, for any width of bytes, words, prefixes and IDs |
| `MapHasLeastPreimagesHolds` | the prefix map, for any hash |
| `SearchIsNotInVain`, `SearchGoesForward` | until the map is written there is a candidate ahead with a missing prefix, and every round takes the next one |
| `OneKeyPerGroupHolds` | grouping, for any networks and AS table |
| `LockTypesHold`, `NoRaceHolds`, `LockOrderHolds`, `NoDeadlock` | no data race, one order of the locks, and somebody can always go on, for any number of callers and any nesting of the calls modelled |

**The refinement.** The ideal group of a Cpl is the set of the table's peers of
that Cpl. A step maps to the ideal one because a bucket is full for a new peer,
after unfolding, exactly if its group is (`RoomForGroup`), and the peers among
which a victim is sought are then exactly its group. All other methods stutter
or touch only what is replaceable.

**Lists** (`ListTable_proofs`). `ListIInv` says that no list has a peer twice
and each is ordered by `addedAt`, the newest in front, that the table as sets
is one in which every peer is in its place and no bucket is too full
(`GoodTable`), and that nobody was added in the future. None can be
left out: `split` puts the farther peers into two lists as they come, so only
the order before it gives the order after it; a new peer goes in front, which
is its place only because no time is later than now; unlinking a peer once
takes it out only if it is there once; and the length of a list
is the size of its set, by which buckets are full, only if nobody is in it
twice. The scan finds the last replaceable
peer of a list (`ScanFindsLast`), which the order makes the oldest.
`ListsImplementIdealTable` composes the two refinements: `Sets` instantiates
RoutingTable and its proofs with the lists as sets for the buckets, where the theorems
of the sets are facts about the lists (`ListsAreSets`). The constants of the
refresh methods, which the instance also asks for, are given some value;
nothing that is used depends on them.

**How long an answer stands.** The answer of `UsefulNewPeer` for a peer depends on
the group of its Cpl only: whether the peer is in it, whether it has room, whether a
member is replaceable. So a step that leaves the group and its records alone leaves the
answer alone (`OtherCplStands`), whatever it does to the buckets. `AddNew` has
nobody leave; `AddReplacing` takes place only in a full group, and leaves it full;
`RemovePeer` leaves a group with room (`GroupFits`). It rests on `Placement` and
`Capacity`: by them a group is the part of one bucket, and no larger than
`BucketSize`.

**Recursion.** A recursive function of TLA+ is chosen among the functions that
satisfy its equation, so that there is one has to be proved first. The
lemmas of `KBuckets_proofs` do it twice, by the least number for which a claim
fails (`LeastNat`) instead of an induction theorem: `IndexRecursion` for
functions on `0..n` and the like (scans, sums, filters), `Recursion` for
functions on a set with a measure that every call decreases. The measure of
`nextBucket` is how many Cpls there are still to split off (`SplitsEnd`: in a last
bucket for `MaxCpl` nothing moves), and of the loop of `removePeer` the number of
the buckets. Induction on the same measure (`MeasureInduction`) then shows that
`nextBucket` and the loop compute the sets of KBuckets and keep every order of
the lists (`NextListIsNextBucket`, `DropEmptyIsCollapse`).

**Locks** (`Locks_proofs`). Who has which lock is spread over `readers`,
`writer` and what each caller has still to do. `LockIInv` says that there are
holdings, one for each caller, that explain all three: the rest of each
call can be taken from its holdings to none, step by step (`Runs`), readers and
writer are as the holdings say, and there is one writer, which excludes
readers once it is in. `Runs` carries the discipline: a lock is asked for only
by someone who has no other but `tabLock`, a section is entered only
with its lock. Each method is shown to run from nothing to nothing, and to be
composed of parts that do, so that a callback that calls methods is one more
part (`ClosedConcat`). Then `NoRace` and `LockOrder` are read off the next step
of a caller, and `NoDeadlock` from the order: whoever waits for `cplRefreshLk`
or `mu` waits for somebody who waits for nothing, and the writer that has announced
itself first waits only for readers who are in. TLC says the same of three callers by
checking for deadlock, and, with fairness, that every call returns.

**The lookups.** `LeftOutIsFarther`: each peer in a bucket that is left out is
farther from the target than each one gathered, because they differ from the
target at an earlier bit (`NearerThanLeft`, `NearerThanRight`). Sorting is by
rank: the number of peers that are nearer is a bijection on a finite set
(`Ranks`, `ByDistanceSorts`), for which nearness has to be a strict total order
(`NearerIsOrder`), which it is because IDs are distinct. `SortByDistance` compares numbers: the
order of two numbers is that of the first bit in which they differ, by
induction on the place (`NearerByNumber`), so it agrees with `Less` on IDs of any length.

**The filter** (`PeerDiversity_proofs`). `FilterIInv` is the types, the agreement
of the two maps (`StatsMatchGroups`) and of the counts (`CountsMatchGroups`),
and `PeersPerGroupLimited`. A count is the cardinality of the set of recorded
positions with that group, over all tracked peers of the Cpl (`Recorded`): no
fold, so that `TryAdd` adds and `Remove` takes away a set that is disjoint from
the rest, of the size of the peer's own positions. That a group has no more
peers than the limit follows although its count may pass it: a peer enters only
if the count, which is at least the number of the peers, is below the limit.
That the statistics are sorted and complete is a fact about finite sets of numbers,
of which the rank is a bijection (`SortedNumbers`).

**Table and filter** (`PeerDiversity_proofs`). `FilteredIInv` is the table's `IInv`, the
filter's `FilterIInv` and `Linked`: between two calls the filter tracks the
table's peers, and within `addPeer` the one being added as well. Each step of
the composition is a step of the table, of the filter, or of both, so the two
invariants are kept by the lemmas proved for the parts, and only `Linked` is new.
That the composition is a table and a filter is a theorem too (`FilteredIsTable`,
`FilteredIsFilter`): `PassFilter` stutters in the table, `FinishAdd` is the step of
`TryAddPeer`, and every use of the filter is one of its own actions. So
the theorems about the parts hold of the whole, the refinement among them, and
likewise for the table beside the refresh methods (`RefreshedIsTable`), under whose
specification the runs check `UnfoldingBounded` and `CallbacksMirrorTable`.
`RefreshIInv` (`RoutingTable_proofs`) adds to the table's invariant that the peers remembered by a call
that is under way, or is over, have a Cpl no greater than the one it read, and that each Cpl of
the last answer is still to do in the round, has been given an older time since, or is
recorded as refreshed since the round began (`RoundReaches`). A step of the round takes a
Cpl from the first case to the third; a caller with an older time takes it from any to the second.

**The prefix map** (`KeyGeneration_proofs`). `SearchIInv` counts the prefixes that
are found, says that each has its least candidate, and that no candidate before
the counter leads to one that is not found (after the counter wraps around this
says nothing, and nothing is needed). There are `2^PrefixBits` prefixes, each the
characteristic function of a set (`PrefixesCounted`), so that when the count is
reached all are found. The other way round, a count that is not reached leaves a prefix
missing (`SomeIsMissing`); its candidate, which `HashAssumption` gives, was not
tried before, so it lies ahead (`CandidateAhead`), and the counter, which is exactly as
wide as the candidates, need not wrap around to reach it. `MaxUint32 - number` thus
decreases with every round; that a loop with such a variant ends is liveness,
and `MapIsWritten` stays with TLC.

**Only model-checked.** The liveness properties `EveryCallReturns` and
`MapIsWritten`, which are out of the prover's reach; `FileHoldsFirstCandidates`,
which is about 9600 particular numbers and needs a computation, not a proof;
and the two properties that do not hold (section 5). What the provers are not
asked: ENABLED, and so that the fairness assumed can be had.

## 5. Findings

Two runs end in a violation, on purpose: each checks what a comment says.

1. **Any replaceable peer is evicted, overdue or not** (RoutingTable_overdue).
   The comment on `TryAddPeer` (`table.go:182-184`) promises to replace only a
   peer whose last successful query is above the allowed threshold. The code
   looks only at `replaceable` (`table.go:274-278`); `usefulnessGracePeriod` is
   stored and never read. In the run every peer is added as queried
   (`queryPeer` TRUE), and one is evicted at that very instant.
2. **All IPv6 addresses of no known AS are one group** (IPGrouping_unknown).
   `filter.go:210` says the /32 prefix is used; line 213 formats the mask
   itself instead of the masked address.

Seen while modelling, and modelled as the code has it, but without runs:

- `LastSuccessfulOutboundQueryAt` is set to now for every new peer
  (`table.go:239`, `260`, `287`), where the comment (`table.go:177-179`) says that one
  that was not queried has none.
- `Allow` is called for each address in turn (`filter.go:171`), so also for a peer
  whose next address then fails a check; its comment (`filter.go:64-66`) says
  only after all checks.
- `table.go:491` and `sorting.go:10` speak of the distance to the local peer; peers
  are sorted by the distance to the target (`sorting.go:35`), as they should be.
- `GenRandomKey` refuses Cpl 255 of a 256-bit key, for which a key exists
  (`table_refresh.go:49`); the error speaks of a Cpl greater than the key length.
- For a Cpl from the greatest `int` upwards the sum in the same check becomes
  negative (or zero), the check passes and a slice expression panics, where
  `table_refresh_test.go:49` says that every Cpl from 256 on is an error.
  `PanicsOnlyOnOverflow` states that nothing smaller does.

## 6. What is not modelled, and the plan

**Not modelled.** The other 55936 numbers of `bucket_prefixmap.go`: the file is 4101
of the repository's 5587 lines of code, all of them alike, and TLC hashes no more in
a reasonable time. SHA-256 on messages of more than one block. `keyspace.Key` (hashes) and `Equal` (compares
bytes). `Close` (cancels a context nobody waits for), `Print` (writes what
`ListPeers` shows), `GetPeerInfos` (what `ListPeers` returns, with the records). Callbacks that call a method that takes `tabLock`, which wait for ever: the one
hazard without a property (`table.go:292`). Bytes, formats and logging. Times given to `ResetCplRefreshedAtForID`
and to the Update methods may be older than those recorded, in the models too; that a recorded time
goes back then is what the code does, and only what it may cost a round of
refreshing is stated.

**Plan.** Written so far, in this order: the structure and the table with its
refinement, the filter and the composition, lists, lookups, keys, refreshing,
locks, grouping; then the prefix map, what the lists show, callbacks that call
methods, and the proofs about the filter, the compositions and the search; then
the recursion of the lists, the locks, both sorters and the statistics proved,
and the file of the prefix map checked; then what an answer of `UsefulNewPeer` is
worth, the refinements composed (lists to ideal table, compositions to their
parts), and the progress of the search; then rounds of refreshing with times that
callers took before, what adding does to records, and the order of push and remove in
buckets of one. Next: what users of the table have to keep to, stated as assumptions
about them, in the first place which methods a callback may call; the repository says
nothing of it so far.
