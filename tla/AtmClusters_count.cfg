SPECIFICATION ClustersSpec
CONSTANTS
    Site <- MCSite
    User <- MCUser
    Lists <- MCLists
    Reloaded <- MCReloaded
    Atms = 5
    Distances = {24, 48}
    Default = 24
    MaxReloads = 1
    MaxPending = 2
INVARIANT CountsAgree
CHECK_DEADLOCK FALSE
