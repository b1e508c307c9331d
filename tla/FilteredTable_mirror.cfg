SPECIFICATION FilteredSpec
CONSTANTS
    p0 = p0  q0 = q0  r0 = r0  p1 = p1
    k1 = k1  k2 = k2
    Peer = {p0, q0, r0, p1}
    BucketSize = 2
    MaxCpl = 1
    Cpl <- MCCpl
    MaxTime = 1
    QueryPeerArg = {TRUE}
    GroupKey = {k1, k2}
    NoKey = NoKey
    AddressList <- MCAddressList
    Limit = 1
SYMMETRY Cpl0Symmetry
INVARIANTS
    FilterTracksTable
    TableIsDiverse
    RefusesForTableOnly
    EmptyTableCountsNothing
