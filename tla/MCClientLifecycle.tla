--------------------------- MODULE MCClientLifecycle ---------------------------
(* Instances of ClientLifecycle for TLC. *)
EXTENDS ClientLifecycle, TLC

Symmetry == Permutations(Requests) \cup Permutations(Clients)
=============================================================================
