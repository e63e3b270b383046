SPECIFICATION Spec
CONSTANTS
    Requests = {r1, r2}
    Clients = {c1}
    NoClient = NoClient
    Terminator = Terminator
    Nobody = Nobody
    Durations = {1}
    Default = 1
    MaxTime = 2
CHECK_DEADLOCK FALSE
PROPERTY HangingAreStopped
