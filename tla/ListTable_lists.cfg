SPECIFICATION Spec
CONSTANTS
    a1 = a1  b1 = b1  c1 = c1  a2 = a2
    Peer = {a1, b1, c1, a2}
    BucketSize = 2
    MaxCpl = 2
    Cpl <- MCCpl
    MaxTime = 2
    QueryPeerArg = {TRUE}
SYMMETRY SameCplSymmetry
VIEW QueryTimesLeftOut
INVARIANTS
    NewestFirst
    ListsShowTable
PROPERTIES
    EvictsOldestReplaceable
    ListsKeepRecords
    ImplementsRoutingTable
