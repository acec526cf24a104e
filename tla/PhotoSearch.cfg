SPECIFICATION FairSpec
CONSTANTS
    MaxChanges = 2
    MaxPage = 3
    PerPage = 2
    Screen = 2
INVARIANTS
    EachPageAskedOnceInOrder
    ForeignPhotosOnlyByLateAnswer
    OutOfRangeOnlyIfOvertaken
PROPERTY SpinnerStopsUnlessFailed
CHECK_DEADLOCK FALSE
