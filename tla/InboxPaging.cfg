SPECIFICATION PagingSpec
CONSTANTS
    Pages <- MCPages
    MaxFetches = 8
INVARIANTS
    PagesInOrderUnlessOverlapped
    EachRowOnceUnlessDaySpansPages
    SectionsMatchHistory
CHECK_DEADLOCK FALSE
