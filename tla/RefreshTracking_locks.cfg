SPECIFICATION RefreshSpec
CONSTANTS
    a1 = a1  b1 = b1  a3 = a3
    Peer = {a1, b1, a3}
    BucketSize = 1
    MaxCpl = 3
    Cpl <- MCCpl
    MaxTime = 2
    QueryPeerArg = {TRUE}
    MaxCplForRefresh = 1
SYMMETRY SameCplSymmetry
VIEW RoundView
INVARIANTS
    TrackedCoverTable
    RoundLeavesNoneOverdue
    UnfoldingBounded
    CallbacksMirrorTable
