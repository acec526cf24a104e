SPECIFICATION FairScreenSpec
CONSTANTS
    p1 = p1
    p2 = p2
    Provider = {p1, p2}
    Cancelable = {}
    MaxRows = 2
    MaxLoads = 3
INVARIANTS
    StoredTwiceOnlyByOverlap
    SettledTableShowsRealm
PROPERTY SpinnerStopsUnlessFailedOrLost
CHECK_DEADLOCK FALSE
