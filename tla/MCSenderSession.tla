-------------------------- MODULE MCSenderSession --------------------------
EXTENDS SenderSession, TLC
CONSTANTS u1, u2, a1, a2, b1
MCOwner == a1 :> u1 @@ a2 :> u1 @@ b1 :> u2
Symmetry == Permutations(Requests) \cup Permutations(Nonces)
=============================================================================
