SPECIFICATION Spec
CONSTANTS
    c1 = c1  c2 = c2  c3 = c3
    Caller = {c1, c2, c3}
INVARIANTS
    NoRace
    LockOrder
PROPERTIES
    EveryCallReturns
