SPECIFICATION FairSpec
CONSTANTS
    department = department
    atm = atm
    Type = {department, atm}
    TypeOf <- MCTypeOf
    Stations = 2
    MaxLoads = 3
    MaxSelected = 1
INVARIANTS
    StoredTwiceOnlyByOverlap
    BothCompleteUnlessFailedOrKilled
    SettledTableShowsRealm
    OutOfRangeOnlyBeforeShow
PROPERTIES
    SpinnerStopsUnlessFailed
CHECK_DEADLOCK FALSE
