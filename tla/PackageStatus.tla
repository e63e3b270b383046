---------------------------- MODULE PackageStatus ----------------------------
(***************************************************************************)
(* What a transfer promises to those who look at its status, among them    *)
(* the browser that watches it: it is pending at first and never again; it *)
(* starts at most once, and not after it has completed or failed; once its *)
(* session has been heard of the status is settled, and a transfer that    *)
(* has ended then does not start any more.  Before that, a stopped         *)
(* transfer may still start.  It completes only after it has started.  One *)
(* end may give way to another, since several threads may each have found  *)
(* the transfer to end.                                                    *)
(***************************************************************************)
VARIABLES status,   \* the status of one transfer
          started,  \* TRUE when it has been STARTED
          settled   \* TRUE when the transfer can no longer start

vars == <<status, started, settled>>

Final == {"STOPPED", "FAILED", "COMPLETED"}

Init == status = "PENDING" /\ started = FALSE /\ settled = FALSE

Start == /\ status \in {"PENDING", "STOPPED"} /\ ~started /\ ~settled
         /\ status' = "STARTED"
         /\ started' = TRUE
         /\ settled' = TRUE

(* Only a transfer that has started completes.                             *)
End == /\ status' \in Final
       /\ status' = "COMPLETED" => started
       /\ settled' \in {settled, TRUE}
       /\ UNCHANGED started

(* The session is heard of, or reports something else than its start.      *)
Settle == /\ status # "PENDING"
          /\ settled' = TRUE
          /\ UNCHANGED <<status, started>>

Next == Start \/ End \/ Settle

Spec == Init /\ [][Next]_vars
=============================================================================
