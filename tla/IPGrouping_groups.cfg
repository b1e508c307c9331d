SPECIFICATION GroupingSpec
CONSTANTS
    Byte = {0, 12, 17, 130}
    LegacyClassA = {12, 17}
    Prefix32 = {"2001:db8", "2a00:1450"}
    Asn = {0, 3320, 7018}
    MaxGrouped = 2
INVARIANTS
    OneKeyPerGroup
CHECK_DEADLOCK FALSE
