SPECIFICATION Spec
CONSTANTS
    Transfers = {t1}
    Stoppers = {s1}
    MaxNumberOfRequests = 1
    NoTransfer = NoTransfer
CHECK_DEADLOCK FALSE
INVARIANT ReportedAsStoppedIsNotSent
