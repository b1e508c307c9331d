SPECIFICATION Spec
CONSTANTS
    a0 = a0  b0 = b0  c0 = c0
    a1 = a1  b1 = b1  c1 = c1
    a2 = a2  b2 = b2  c2 = c2
    a3 = a3
    Peer = {a0, b0}
    BucketSize = 1
    MaxCpl = 3
    Cpl <- MCCpl
    MaxTime = 2
    QueryPeerArg = {TRUE}
PROPERTIES
    EvictsOnlyOverduePeers
