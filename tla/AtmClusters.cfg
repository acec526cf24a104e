SPECIFICATION ClustersSpec
CONSTANTS
    Site <- MCSite
    User <- MCUser
    Lists <- MCLists
    Reloaded <- MCReloaded
    Atms = 5
    Distances = {24, 48}
    Default = 24
    MaxReloads = 1
    MaxPending = 2
INVARIANTS
    NeverOutOfRange
    EachAtmOnceUnlessCollided
    KeysAreThoseOfValues
    LoneAtmIsFound
    MapShowsGroupingUnlessRedrawn
CHECK_DEADLOCK FALSE
