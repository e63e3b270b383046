SPECIFICATION FairSpec
CONSTANTS
    Transfers = {t1}
    Stoppers = {s1}
    MaxNumberOfRequests = 1
    NoTransfer = NoTransfer
CHECK_DEADLOCK FALSE
INVARIANTS RegistryIsPartition IdentifiedArchivedOnce NoLostWakeup
    ReturnsIdUnlessFailed CompletedWasInSession ArchivedContentsAreClosed
PROPERTIES ImplementsRegistry ImplementsStatus StartEnds AcceptedIsArchived StopEnds
