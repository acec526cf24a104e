SPECIFICATION Spec
CONSTANTS
    Days = 6
    Month = 3
    NoObjects = NoObjects
INVARIANT StatusStaleOnlySinceLoading
PROPERTY ArrowsFindNearestDay
CHECK_DEADLOCK FALSE
