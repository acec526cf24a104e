SPECIFICATION FairSpec
CONSTANTS
    p1 = p1
    Provider = {p1}
    Cancelable = {p1}
    MaxRows = 3
    NoList = NoList
INVARIANTS
    OutcomeMatchesRealm
    SecondCompletionOnlyAfterCancel
    FinishedIsSeen
PROPERTIES
    WriterInputStable
    ImplementsTransactionLoad
    CompletionUnlessOverwritten
CHECK_DEADLOCK FALSE
