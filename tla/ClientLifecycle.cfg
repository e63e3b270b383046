SPECIFICATION Spec
CONSTANTS
    Requests = {r1, r2, r3}
    Clients = {c1, c2}
    NoClient = NoClient
    Terminator = Terminator
    Nobody = Nobody
    Durations = {1}
    Default = 1
    MaxTime = 2
CHECK_DEADLOCK FALSE
SYMMETRY Symmetry
INVARIANTS ClientIsShared TerminatedAreArchived CleanUpFindsNothing
