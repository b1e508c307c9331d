SPECIFICATION FilterSpec
CONSTANTS
    p0 = p0  q0 = q0  r0 = r0  p1 = p1
    k1 = k1  k2 = k2
    Peer = {p0, q0, r0, p1}
    MaxCpl = 1
    Cpl <- MCCpl
    GroupKey = {k1, k2}
    NoKey = NoKey
    AddressList <- MCAddressList
    Limit = 2
SYMMETRY Cpl0Symmetry
INVARIANTS
    CountsMatchGroups
    StatsMatchGroups
    StatsReportTracked
    PeersPerGroupLimited
