SPECIFICATION Spec
CONSTANTS
    IdBits = 6
    ByteBits = 3
    PrefixBits = 4
    MaxInt = 7
    MaxUint32 = 31
    PeerID <- MCPeerID
    Hash <- MCHash
INVARIANTS
    GeneratedHasCpl
    EveryKeyIsPossible
    EveryPrefixIsPossible
    PanicsOnlyOnOverflow
    MapHasLeastPreimages
PROPERTY
    MapIsWritten
