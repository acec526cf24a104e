SPECIFICATION SubwaysFairSpec
CONSTANTS
    LetterOf <- MCLetterOf
    MaxLoads = 2
INVARIANTS
    ListIsGroupedUnlessOverlapped
    CrashOnlyWhileLoading
    SettledTableShowsRealm
PROPERTY SpinnerStops
CHECK_DEADLOCK FALSE
