SPECIFICATION FairSpec
CONSTANTS
    Digit = {1, 2}
    PinLength = 2
    MaxLogins = 2
    None = None
INVARIANTS
    RegisteredUserHasPin
    MainOnlyAfterAuthorization
PROPERTY NumPadIsFreedUnlessCovered
CHECK_DEADLOCK FALSE
