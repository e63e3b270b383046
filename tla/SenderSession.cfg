SPECIFICATION Spec
CONSTANTS
    u1 = u1
    u2 = u2
    a1 = a1
    a2 = a2
    b1 = b1
    Users = {u1, u2}
    Accounts = {a1, a2, b1}
    Owner <- MCOwner
    Requests = {r1, r2, r3}
    Nonces = {n1, n2}
    Garbled = Garbled
    None = None
CHECK_DEADLOCK FALSE
SYMMETRY Symmetry
INVARIANTS SentForOwnUser NonceStandsForOne TypedIsSentAsShown
PROPERTY NonceIsAccepted
