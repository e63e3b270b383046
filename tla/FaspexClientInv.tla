-------------------------- MODULE FaspexClientInv --------------------------
(***************************************************************************)
(* The inductive invariant behind the safety properties of FaspexClient.   *)
(* Each part says how far the threads of one transfer can have come        *)
(* relative to one another.                                                *)
(***************************************************************************)
EXTENDS FaspexClient

(* The threads that work on t. *)
Crew(t) == {RequestThread(t), SpecThread(t), SessionThread(t)}
              \cup {StopThread(s) : s \in {r \in Stoppers : target[r] = t}}

At(t, labels) == \E th \in Crew(t) : pc[th] \in labels

SentLabels == {"wait", "loop", "await", "parked", "woken", "giveUp", "returned", "threw"}
                 \cup StopLabels \cup CompletedLabels

(* The threads appear in order: the spec thread after the request has sent *)
(* the package, the session after the package Id, stop requests after it.  *)
ThreadOrder ==
    \A t \in Transfers :
        /\ pc[SpecThread(t)] # "off" => pc[RequestThread(t)] \in SentLabels
        /\ pc[RequestThread(t)] \in {"loop", "await", "parked", "woken", "giveUp"} \cup StopLabels
                => pc[SpecThread(t)] # "off"
        /\ t \in identified => pc[SpecThread(t)] \notin {"off", "requesting"}
        /\ pc[SpecThread(t)] \in {"starting", "polling"} => t \in identified
        /\ session[t] # "none" => /\ t \in identified
                                  /\ pc[SpecThread(t)] # "starting"
        /\ t \in finished => session[t] # "none"
        /\ pc[SessionThread(t)] # "fresh" => session[t] # "none"
        /\ \A s \in Stoppers : target[s] = t \/ t \in packageIds[s] => t \in identified

(* The archive has a second summary of a transfer only if the transfer got *)
(* no package Id.                                                          *)
ArchiveOrder ==
    /\ RegistryIsPartition
    /\ IdentifiedArchivedOnce
    /\ \A t \in Transfers :
          /\ pc[RequestThread(t)] \in {"registered", "prepared"} => recentArchives[t] = 0
          /\ pc[SpecThread(t)] = "requesting" =>
                \/ recentArchives[t] = 0
                \/ recentArchives[t] = 1 /\ pc[RequestThread(t)] = "threw"

(* A status other than PENDING has a thread behind it that set it.         *)
StatusOrder ==
    /\ CompletedWasInSession
    /\ ReturnsIdUnlessFailed
    /\ \A t \in Transfers :
          /\ status[t] = "STARTED" => session[t] # "none"
          /\ At(t, {"setCompleted"}) => session[t] # "none" /\ status[t] # "PENDING"
          /\ pc[SpecThread(t)] = "off" =>
                /\ status[t] \in {"PENDING", "FAILED"}
                /\ pc[RequestThread(t)] \in {"signalFailed", "wait"} \cup CompletedLabels
                      => status[t] = "FAILED"
          /\ t \notin identified =>
                \/ status[t] \in {"PENDING", "FAILED"}
                \/ /\ status[t] = "STOPPED"
                   /\ pc[RequestThread(t)] \in CompletedLabels \cup {"threw"}

(* A request that waits, or is about to, is signalled for every change of  *)
(* the status but a stop.                                                  *)
WakeupOrder ==
    \A t \in Transfers :
        pc[RequestThread(t)] \in {"await", "parked"} /\ ~SignalPending(t)
            => /\ status[t] \in {"PENDING", "STOPPED"}
               /\ ~At(t, {"setCompleted"})

(* The contents are closed before the transfer is archived, and none are   *)
(* opened afterwards.                                                      *)
ContentsOrder ==
    /\ ArchivedContentsAreClosed
    /\ \A t \in Transfers : At(t, {"setCompleted", "archive"}) => t \notin openContents

(* Until the session is heard of, the transfer is pending or has only been *)
(* stopped: nobody has let it fail, and nobody has found it started.       *)
(* Those who find it started, or complete it, come after the start.        *)
StartOrder(t) ==
    /\ pc[RequestThread(t)] \in {"new", "admitted", "rejected", "registered", "prepared"}
          => status[t] = "PENDING"
    /\ pc[SpecThread(t)] \in {"requesting", "starting"} => status[t] \in {"PENDING", "STOPPED"}
    /\ session[t] # "none" => pc[SpecThread(t)] \notin FailedLabels
    /\ session[t] # "none" /\ pc[SessionThread(t)] \in {"fresh", "setStarted"}
          => /\ status[t] \in {"PENDING", "STOPPED"}
             /\ ~At(t, {"setCompleted"})
    /\ t \in started => Settled(t)
    /\ status[t] \in {"STARTED", "COMPLETED"} => t \in started
    /\ At(t, {"setCompleted"}) => t \in started

StartInv == \A t \in Transfers : StartOrder(t)

(* The inductive invariant of FaspexClient: in every interleaving of the   *)
(* request, spec, session and stop threads the parts above hold together.  *)
Inv == /\ TypeOK
       /\ ThreadOrder
       /\ ArchiveOrder
       /\ StatusOrder
       /\ WakeupOrder
       /\ ContentsOrder
=============================================================================
