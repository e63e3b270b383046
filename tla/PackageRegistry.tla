--------------------------- MODULE PackageRegistry ---------------------------
(***************************************************************************)
(* What the registry of transfers promises to a user who looks a package   *)
(* up: a send request that was admitted is registered once, is found among *)
(* the running transfers until it is archived, is found in the archive     *)
(* from then on, and never runs again.                                     *)
(***************************************************************************)
CONSTANT Transfers

VARIABLE phase     \* where a lookup finds each transfer

Init == phase = [t \in Transfers |-> "absent"]

Register(t) == /\ phase[t] = "absent"
               /\ phase' = [phase EXCEPT ![t] = "running"]

Archive(t) == /\ phase[t] = "running"
              /\ phase' = [phase EXCEPT ![t] = "archived"]

Next == \E t \in Transfers : Register(t) \/ Archive(t)

Spec == Init /\ [][Next]_phase
=============================================================================
