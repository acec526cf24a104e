SPECIFICATION Spec
CONSTANTS
    c1 = c1
    c2 = c2
    k1 = k1
    k2 = k2
    v1 = v1
    Nil = Nil
    Client = {c1, c2}
    Key = {k1, k2}
    Value = {v1}
    MaxPending = 2
INVARIANTS
    NoDataRace
PROPERTY ImplementsAtomicDictionary
CHECK_DEADLOCK FALSE
