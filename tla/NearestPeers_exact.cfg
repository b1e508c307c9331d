SPECIFICATION Spec
CONSTANTS
    Peer = {1, 2, 3, 4, 5, 7}
    BucketSize = 2
    MaxCpl = 3
    IdBits = 3
    Cpl <- MCCpl
    MaxTime = 1
    QueryPeerArg = {TRUE}
    Local <- MCLocal
    DhtId <- MCDhtId
    Count = {1, 2, 3, 4}
    NoPeer = NoPeer
VIEW TimelessView
INVARIANTS
    NearestPeersExact
    FindExact
    SortersAgree
