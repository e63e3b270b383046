SPECIFICATION Spec
CONSTANTS
    Transfers = {t1, t2}
    Stoppers = {}
    MaxNumberOfRequests = 1
    NoTransfer = NoTransfer
CHECK_DEADLOCK FALSE
INVARIANT RunningWithinLimit
