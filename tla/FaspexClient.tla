---------------------------- MODULE FaspexClient ----------------------------
(***************************************************************************)
(* The server side of a send: FaspexClient, its registry Transfers, and    *)
(* one Transfer (with its TransferSummary and FaspexTransferListener) per  *)
(* send request.  Four kinds of threads meet in it:                        *)
(*                                                                         *)
(*   request   the service thread that runs FaspexClient.startTransfer,    *)
(*             which waits on the condition `initialized' of its transfer; *)
(*   spec      the Faspex library's HTTP thread, which asks the Faspex     *)
(*             server for a transfer spec, opens the session and reports   *)
(*             onTransferSpecReceived, onError and onDone;                 *)
(*   session   the library's thread that delivers the events of the        *)
(*             session (one at a time: it holds the listener's monitor);   *)
(*   stop      a service thread that runs FaspexClient.stopTransfers or    *)
(*             stopAllTransfers.                                           *)
(*                                                                         *)
(* A step is one access to state that another thread can see: a read of    *)
(* `status', a write of it, a block synchronized on Transfers.lock, a wait *)
(* or a signal.  The methods of Transfer that several threads run are      *)
(* procedures here: an action takes the thread, pc holds its next label.   *)
(***************************************************************************)
EXTENDS Naturals, FiniteSets

CONSTANTS
    Transfers,              \* the send requests; each creates one transfer
    Stoppers,               \* the threads that serve stop requests
    MaxNumberOfRequests,    \* the plug-in parameter maxNumberOfRequests
    NoTransfer              \* null

ASSUME ConstantsAssumption == /\ MaxNumberOfRequests \in Nat
                              /\ NoTransfer \notin Transfers

VARIABLES
    pc,             \* the next label of each thread
    status,         \* TransferSummary.status
    started,        \* the transfers whose status has been STARTED (a history)
    identified,     \* the transfers whose packageId is set
    running,        \* Transfers.transfers
    recentArchives, \* Transfers.recentArchives: how often it holds a summary
    openContents,   \* the transfers whose package holds open input streams
    session,        \* the library's session of each transfer
    finished,       \* the transfers whose session is marked stopped or failed
    packageIds,     \* what each stop request still has to look up
    target,         \* the transfer each stop request is working on
    stopped         \* what each stop request will return as stopped

vars == <<pc, status, started, identified, running, recentArchives, openContents,
          session, finished, packageIds, target, stopped>>

-----------------------------------------------------------------------------
RequestThread(t) == <<"request", t>>
SpecThread(t)    == <<"spec", t>>
SessionThread(t) == <<"session", t>>
StopThread(s)    == <<"stop", s>>

RequestThreads == {RequestThread(t) : t \in Transfers}
SpecThreads    == {SpecThread(t) : t \in Transfers}
SessionThreads == {SessionThread(t) : t \in Transfers}
StopThreads    == {StopThread(s) : s \in Stoppers}
Threads == RequestThreads \cup SpecThreads \cup SessionThreads \cup StopThreads

Statuses == {"PENDING", "STARTED", "STOPPED", "FAILED", "COMPLETED"}

\* The labels of the methods of Transfer that more than one kind of thread runs.
StopLabels      == {"stop", "faspexStop", "setStopped"}
CompletedLabels == {"completed", "setCompleted", "archive"}
StartedLabels   == {"setStarted", "signalStarted"}
FailedLabels    == {"setFailed", "signalFailed"}

RequestLabels ==
    {"new", "admitted", "registered", "prepared", "wait", "loop", "await",
     "parked", "woken", "giveUp", "returned", "threw", "rejected"}
    \cup StopLabels \cup CompletedLabels \cup FailedLabels
SpecLabels == {"off", "requesting", "starting", "polling", "over"}
                 \cup CompletedLabels \cup FailedLabels
SessionLabels == {"fresh", "listening"}
                 \cup StartedLabels \cup CompletedLabels \cup FailedLabels
StopperLabels == {"ready", "next"} \cup StopLabels \cup CompletedLabels

SessionStates == {"none", "live", "cancelled", "closed"}

TypeOK ==
    /\ pc \in [Threads -> RequestLabels \cup SpecLabels
                            \cup SessionLabels \cup StopperLabels]
    /\ \A t \in Transfers : /\ pc[RequestThread(t)] \in RequestLabels
                            /\ pc[SpecThread(t)] \in SpecLabels
                            /\ pc[SessionThread(t)] \in SessionLabels
    /\ \A s \in Stoppers : /\ pc[StopThread(s)] \in StopperLabels
                           /\ pc[StopThread(s)] \in StopLabels \cup CompletedLabels
                                => target[s] \in Transfers
    /\ status \in [Transfers -> Statuses]
    /\ started \subseteq Transfers
    /\ identified \subseteq Transfers
    /\ running \subseteq Transfers
    /\ recentArchives \in [Transfers -> Nat]
    /\ openContents \subseteq Transfers
    /\ session \in [Transfers -> SessionStates]
    /\ finished \subseteq Transfers
    /\ packageIds \in [Stoppers -> SUBSET Transfers]
    /\ target \in [Stoppers -> Transfers \cup {NoTransfer}]
    /\ stopped \in [Stoppers -> SUBSET Transfers]

Init ==
    /\ pc = [th \in Threads |-> CASE th \in RequestThreads -> "new"
                                  [] th \in SpecThreads    -> "off"
                                  [] th \in SessionThreads -> "fresh"
                                  [] OTHER                -> "ready"]
    /\ status = [t \in Transfers |-> "PENDING"]
    /\ started = {}
    /\ identified = {}
    /\ running = {}
    /\ recentArchives = [t \in Transfers |-> 0]
    /\ openContents = {}
    /\ session = [t \in Transfers |-> "none"]
    /\ finished = {}
    /\ packageIds = [s \in Stoppers |-> {}]
    /\ target = [s \in Stoppers |-> NoTransfer]
    /\ stopped = [s \in Stoppers |-> {}]

-----------------------------------------------------------------------------
Goto(th, label) == pc' = [pc EXCEPT ![th] = label]

summary  == <<status, started>>
registry == <<running, recentArchives>>
library  == <<session, finished, identified>>
stopping == <<packageIds, target, stopped>>

\* Variant: the signal is sent without Transfer.lock.
HoldsLockNever(t) == FALSE

(***************************************************************************)
(* Transfer.lock.  Only the request thread keeps it across steps: from the *)
(* entry of waitForSignal to its return, except while it awaits the        *)
(* condition; stop() is called with it when the wait has timed out.        *)
(***************************************************************************)
HoldsLock(t) ==
    \/ pc[RequestThread(t)] \in {"loop", "await", "giveUp"} \cup StopLabels
    \/ /\ pc[RequestThread(t)] \in CompletedLabels
       /\ pc[SpecThread(t)] # "off"

-----------------------------------------------------------------------------
(* onStarted, onFailed: the status first, the signal second. *)

SetStarted(th, t) ==
    /\ pc[th] = "setStarted"
    /\ status' = [status EXCEPT ![t] = "STARTED"]
    /\ started' = started \cup {t}
    /\ Goto(th, "signalStarted")
    /\ UNCHANGED <<registry, openContents, library, stopping>>

SetFailed(th, t) ==
    /\ pc[th] = "setFailed"
    /\ status' = [status EXCEPT ![t] = "FAILED"]
    /\ Goto(th, "signalFailed")
    /\ UNCHANGED <<started, registry, openContents, library, stopping>>

(* sendSignal, by a thread that goes on at label back. *)
SendSignal(th, t, label, back) ==
    /\ pc[th] = label
    /\ ~HoldsLock(t)
    /\ pc' = [x \in Threads |->
                CASE x = th -> back
                  [] x = RequestThread(t) /\ x # th /\ pc[x] = "parked" -> "woken"
                  [] OTHER -> pc[x]]
    /\ UNCHANGED <<summary, registry, openContents, library, stopping>>

OnStarted(th, t, back) == \/ SetStarted(th, t)
                          \/ SendSignal(th, t, "signalStarted", back)

-----------------------------------------------------------------------------
(* onCompleted: the contents are closed and the status is read; it may be  *)
(* set; the callback archives the transfer; the thread goes on at back.    *)

\* Variant: the status is not checked before it is set.
CloseContentsCompletes(th, t) ==
    /\ pc[th] = "completed"
    /\ openContents' = openContents \ {t}
    /\ Goto(th, "setCompleted")
    /\ UNCHANGED <<summary, registry, library, stopping>>

\* Variant: only a started transfer has its contents closed.
CloseContentsIfStarted(th, t) ==
    /\ pc[th] = "completed"
    /\ openContents' = IF status[t] = "STARTED" THEN openContents \ {t} ELSE openContents
    /\ Goto(th, IF status[t] = "STARTED" THEN "setCompleted" ELSE "archive")
    /\ UNCHANGED <<summary, registry, library, stopping>>

CloseContents(th, t) ==
    /\ pc[th] = "completed"
    /\ openContents' = openContents \ {t}
    /\ Goto(th, IF status[t] = "STARTED" THEN "setCompleted" ELSE "archive")
    /\ UNCHANGED <<summary, registry, library, stopping>>

SetCompleted(th, t) ==
    /\ pc[th] = "setCompleted"
    /\ status' = [status EXCEPT ![t] = "COMPLETED"]
    /\ Goto(th, "archive")
    /\ UNCHANGED <<started, registry, openContents, library, stopping>>

\* Variant: the archive is not searched before a summary is added.
ArchivedNever(t) == FALSE

\* getArchivedTransfer finds a summary by package Id, never by a null Id.
Archived(t) == t \in identified /\ recentArchives[t] > 0

\* Variant: the transfer stays in the list of running transfers.
ArchiveTransferKeeps(th, t, back) ==
    /\ pc[th] = "archive"
    /\ recentArchives' = IF Archived(t) THEN recentArchives
                         ELSE [recentArchives EXCEPT ![t] = @ + 1]
    /\ Goto(th, back)
    /\ UNCHANGED <<summary, running, openContents, library, stopping>>

\* Variant: a transfer without a package Id is dropped.
ArchiveTransferDrops(th, t, back) ==
    /\ pc[th] = "archive"
    /\ running' = running \ {t}
    /\ recentArchives' = IF Archived(t) \/ t \notin identified THEN recentArchives
                         ELSE [recentArchives EXCEPT ![t] = @ + 1]
    /\ Goto(th, back)
    /\ UNCHANGED <<summary, openContents, library, stopping>>

ArchiveTransfer(th, t, back) ==
    /\ pc[th] = "archive"
    /\ running' = running \ {t}
    /\ recentArchives' = IF Archived(t) THEN recentArchives
                         ELSE [recentArchives EXCEPT ![t] = @ + 1]
    /\ Goto(th, back)
    /\ UNCHANGED <<summary, openContents, library, stopping>>

OnCompleted(th, t, back) == \/ CloseContents(th, t)
                            \/ SetCompleted(th, t)
                            \/ ArchiveTransfer(th, t, back)

\* Variant: a failure is signalled and nothing else.
OnFailedSignals(th, t, back) == \/ SetFailed(th, t)
                                \/ SendSignal(th, t, "signalFailed", back)

OnFailed(th, t, back) == \/ SetFailed(th, t)
                         \/ SendSignal(th, t, "signalFailed", "completed")
                         \/ OnCompleted(th, t, back)

-----------------------------------------------------------------------------
(* stop() *)

CheckStoppable(th, t) ==
    /\ pc[th] = "stop"
    /\ Goto(th, IF status[t] \in {"PENDING", "STARTED"} THEN "faspexStop"
                ELSE "completed")
    /\ UNCHANGED <<summary, registry, openContents, library, stopping>>

\* Faspex.stop() cancels the sessions it knows: before the session is open it
\* does nothing.
FaspexStop(th, t) ==
    /\ pc[th] = "faspexStop"
    /\ session' = [session EXCEPT ![t] = IF @ = "live" THEN "cancelled" ELSE @]
    /\ Goto(th, "setStopped")
    /\ UNCHANGED <<summary, registry, openContents, finished, identified, stopping>>

\* It fails when it walks the list of sessions that the spec thread extends;
\* the finally clause then runs onCompleted.
FaspexStopFails(th, t) ==
    /\ pc[th] = "faspexStop"
    /\ pc[SpecThread(t)] = "starting"
    /\ Goto(th, "completed")
    /\ UNCHANGED <<summary, registry, openContents, library, stopping>>

SetStopped(th, t) ==
    /\ pc[th] = "setStopped"
    /\ status' = [status EXCEPT ![t] = "STOPPED"]
    /\ stopped' = [s \in Stoppers |-> IF th = StopThread(s) THEN stopped[s] \cup {t}
                                      ELSE stopped[s]]
    /\ Goto(th, "completed")
    /\ UNCHANGED <<started, registry, openContents, library, packageIds, target>>

Stop(th, t, back) == \/ CheckStoppable(th, t)
                     \/ FaspexStop(th, t)
                     \/ FaspexStopFails(th, t)
                     \/ SetStopped(th, t)
                     \/ OnCompleted(th, t, back)

-----------------------------------------------------------------------------
(* The request thread: FaspexClient.startTransfer *)

CheckMaxNumberOfRequests(t) ==
    /\ pc[RequestThread(t)] = "new"
    /\ Goto(RequestThread(t), IF Cardinality(running) >= MaxNumberOfRequests
                              THEN "rejected" ELSE "admitted")
    /\ UNCHANGED <<summary, registry, openContents, library, stopping>>

AddTransfer(t) ==
    /\ pc[RequestThread(t)] = "admitted"
    /\ running' = running \cup {t}
    /\ Goto(RequestThread(t), "registered")
    /\ UNCHANGED <<summary, recentArchives, openContents, library, stopping>>

(* Transfer.start, up to the call of the library.  The status is still     *)
(* PENDING: nobody else can reach a transfer without a package Id.         *)
PrepareContents(t) ==
    /\ pc[RequestThread(t)] = "registered"
    /\ openContents' = openContents \cup {t}
    /\ Goto(RequestThread(t), "prepared")
    /\ UNCHANGED <<summary, registry, library, stopping>>

\* Some of the streams may have been opened when an item cannot be read.
PrepareContentsFails(t) ==
    /\ pc[RequestThread(t)] = "registered"
    /\ openContents' \in {openContents, openContents \cup {t}}
    /\ Goto(RequestThread(t), "threw")
    /\ UNCHANGED <<summary, registry, library, stopping>>

SendPackage(t) ==
    /\ pc[RequestThread(t)] = "prepared"
    /\ pc' = [pc EXCEPT ![RequestThread(t)] = "wait",
                        ![SpecThread(t)] = "requesting"]
    /\ UNCHANGED <<summary, registry, openContents, library, stopping>>

\* The library refuses the package: onError on the calling thread, and return.
SendPackageRefused(t) ==
    /\ pc[RequestThread(t)] = "prepared"
    /\ Goto(RequestThread(t), "setFailed")
    /\ UNCHANGED <<summary, registry, openContents, library, stopping>>

SendPackageFails(t) ==
    /\ pc[RequestThread(t)] = "prepared"
    /\ openContents' = openContents \ {t}
    /\ Goto(RequestThread(t), "threw")
    /\ UNCHANGED <<summary, registry, library, stopping>>

(* waitForSignal *)
CheckPending(t) ==
    /\ pc[RequestThread(t)] \in {"wait", "loop"}
    /\ Goto(RequestThread(t), IF status[t] = "PENDING" THEN "await" ELSE "returned")
    /\ UNCHANGED <<summary, registry, openContents, library, stopping>>

Await(t) ==
    /\ pc[RequestThread(t)] = "await"
    /\ Goto(RequestThread(t), "parked")
    /\ UNCHANGED <<summary, registry, openContents, library, stopping>>

\* Variant: await without a timeout.
AwaitForever(t) == FALSE

AwaitTimesOut(t) ==
    /\ pc[RequestThread(t)] = "parked"
    /\ Goto(RequestThread(t), "giveUp")
    /\ UNCHANGED <<summary, registry, openContents, library, stopping>>

AwaitSignalled(t) ==
    /\ pc[RequestThread(t)] = "woken"
    /\ Goto(RequestThread(t), IF status[t] = "FAILED" THEN "giveUp" ELSE "loop")
    /\ UNCHANGED <<summary, registry, openContents, library, stopping>>

AwaitInterrupted(t) ==
    /\ pc[RequestThread(t)] = "parked"
    /\ Goto(RequestThread(t), "threw")
    /\ UNCHANGED <<summary, registry, openContents, library, stopping>>

\* Variant: a wait that timed out ends like one that was signalled.
GiveUpReturns(t) ==
    /\ pc[RequestThread(t)] = "giveUp"
    /\ Goto(RequestThread(t), IF status[t] = "FAILED" THEN "threw" ELSE "returned")
    /\ UNCHANGED <<summary, registry, openContents, library, stopping>>

GiveUp(t) ==
    /\ pc[RequestThread(t)] = "giveUp"
    /\ Goto(RequestThread(t), IF status[t] = "FAILED" THEN "threw" ELSE "stop")
    /\ UNCHANGED <<summary, registry, openContents, library, stopping>>

\* onFailed runs on this thread only when the library refused the package (the
\* spec thread never started), onCompleted otherwise only at the end of stop().
StartTransfer(t) ==
    \/ AddTransfer(t)
    \/ PrepareContents(t)
    \/ PrepareContentsFails(t)
    \/ SendPackage(t)
    \/ SendPackageRefused(t)
    \/ SendPackageFails(t)
    \/ CheckPending(t)
    \/ Await(t)
    \/ AwaitSignalled(t)
    \/ GiveUp(t)
    \/ pc[SpecThread(t)] = "off" /\ OnFailed(RequestThread(t), t, "wait")
    \/ pc[SpecThread(t)] # "off" /\ Stop(RequestThread(t), t, "threw")

-----------------------------------------------------------------------------
(* The spec thread of the library *)

OnTransferSpecReceived(t) ==
    /\ pc[SpecThread(t)] = "requesting"
    /\ identified' = identified \cup {t}
    /\ Goto(SpecThread(t), "starting")
    /\ UNCHANGED <<summary, registry, openContents, session, finished, stopping>>

TransferSpecFails(t) ==
    /\ pc[SpecThread(t)] \in {"requesting", "starting"}
    /\ Goto(SpecThread(t), "setFailed")
    /\ UNCHANGED <<summary, registry, openContents, library, stopping>>

OpenSession(t) ==
    /\ pc[SpecThread(t)] = "starting"
    /\ session' = [session EXCEPT ![t] = "live"]
    /\ Goto(SpecThread(t), "polling")
    /\ UNCHANGED <<summary, registry, openContents, finished, identified, stopping>>

OnDone(t) ==
    /\ pc[SpecThread(t)] = "polling"
    /\ t \in finished
    /\ Goto(SpecThread(t), "completed")
    /\ UNCHANGED <<summary, registry, openContents, library, stopping>>

TransferSpec(t) == \/ OnTransferSpecReceived(t)
                   \/ TransferSpecFails(t)
                   \/ OpenSession(t)
                   \/ OnDone(t)
                   \/ OnFailed(SpecThread(t), t, "over")

-----------------------------------------------------------------------------
(* The session thread of the library: an event is dropped once the session *)
(* has been cancelled, but one that is being handled is handled to its end *)

Delivers(t, labels) == pc[SessionThread(t)] \in labels /\ session[t] = "live"

OnSessionStart(t) ==
    /\ Delivers(t, {"fresh"})
    /\ Goto(SessionThread(t), "setStarted")
    /\ UNCHANGED <<summary, registry, openContents, library, stopping>>

\* Variant: whatever the status is, a file that starts has started the transfer.
OnFileStartAlways(t) ==
    /\ Delivers(t, {"fresh", "listening"})
    /\ Goto(SessionThread(t), "setStarted")
    /\ UNCHANGED <<summary, registry, openContents, library, stopping>>

OnFileStart(t) ==
    /\ Delivers(t, {"fresh", "listening"})
    /\ Goto(SessionThread(t), IF status[t] = "PENDING" THEN "setStarted" ELSE "listening")
    /\ UNCHANGED <<summary, registry, openContents, library, stopping>>

\* A file that fails marks the session as failed; its events still come.
OnFileError(t) ==
    /\ Delivers(t, {"fresh", "listening"})
    /\ finished' = finished \cup {t}
    /\ Goto(SessionThread(t), "listening")
    /\ UNCHANGED <<summary, registry, openContents, session, identified, stopping>>

OnSessionError(t) ==
    /\ Delivers(t, {"fresh", "listening"})
    /\ finished' = finished \cup {t}
    /\ session' = [session EXCEPT ![t] = "closed"]
    /\ Goto(SessionThread(t), "setFailed")
    /\ UNCHANGED <<summary, registry, openContents, identified, stopping>>

OnSessionStop(t) ==
    /\ Delivers(t, {"fresh", "listening"})
    /\ finished' = finished \cup {t}
    /\ session' = [session EXCEPT ![t] = "closed"]
    /\ Goto(SessionThread(t), "listening")
    /\ UNCHANGED <<summary, registry, openContents, identified, stopping>>

OnTransferEvent(t) ==
    \/ OnStarted(SessionThread(t), t, "listening")
    \/ OnFailed(SessionThread(t), t, "listening")

SessionEnds(t) == OnSessionError(t) \/ OnSessionStop(t)

-----------------------------------------------------------------------------
(* A stop request: FaspexClient.stopTransfers and stopAllTransfers *)

StopTransfers(s) ==
    /\ pc[StopThread(s)] = "ready"
    /\ \E ids \in (SUBSET identified) \ {{}} :
          packageIds' = [packageIds EXCEPT ![s] = ids]
    /\ Goto(StopThread(s), "next")
    /\ UNCHANGED <<summary, registry, openContents, library, target, stopped>>

\* getPackageIds; stopTransfers skips the null Ids of the transfers without one.
\* The list is walked without its lock: when it changes meanwhile the request
\* ends with an exception and nothing is done, a step that changes nothing here.
StopAllTransfers(s) ==
    /\ pc[StopThread(s)] = "ready"
    /\ packageIds' = [packageIds EXCEPT ![s] = running \cap identified]
    /\ Goto(StopThread(s), "next")
    /\ UNCHANGED <<summary, registry, openContents, library, target, stopped>>

\* Variant: a package that is not running is looked up again.
StopNextRetries(s) ==
    /\ pc[StopThread(s)] = "next"
    /\ \E t \in packageIds[s] :
          IF t \in running
          THEN /\ packageIds' = [packageIds EXCEPT ![s] = @ \ {t}]
               /\ Goto(StopThread(s), "stop")
               /\ target' = [target EXCEPT ![s] = t]
          ELSE UNCHANGED <<pc, packageIds, target>>
    /\ UNCHANGED <<summary, registry, openContents, library, stopped>>

\* getTransfer(id), under Transfers.lock.
StopNext(s) ==
    /\ pc[StopThread(s)] = "next"
    /\ \E t \in packageIds[s] :
          /\ packageIds' = [packageIds EXCEPT ![s] = @ \ {t}]
          /\ IF t \in running
             THEN Goto(StopThread(s), "stop") /\ target' = [target EXCEPT ![s] = t]
             ELSE UNCHANGED <<pc, target>>
    /\ UNCHANGED <<summary, registry, openContents, library, stopped>>

StopReturns(s) ==
    /\ pc[StopThread(s)] = "next"
    /\ packageIds[s] = {}
    /\ target' = [target EXCEPT ![s] = NoTransfer]
    /\ stopped' = [stopped EXCEPT ![s] = {}]
    /\ Goto(StopThread(s), "ready")
    /\ UNCHANGED <<summary, registry, openContents, library, packageIds>>

ServeStop(s) == \/ StopNext(s)
                \/ StopReturns(s)
                \/ \E t \in Transfers :
                      target[s] = t /\ Stop(StopThread(s), t, "next")

-----------------------------------------------------------------------------
Next ==
    \/ \E t \in Transfers : \/ CheckMaxNumberOfRequests(t)
                            \/ StartTransfer(t)
                            \/ AwaitTimesOut(t)
                            \/ AwaitInterrupted(t)
                            \/ TransferSpec(t)
                            \/ OnSessionStart(t)
                            \/ OnFileStart(t)
                            \/ OnFileError(t)
                            \/ SessionEnds(t)
                            \/ OnTransferEvent(t)
    \/ \E s \in Stoppers : \/ StopTransfers(s)
                           \/ StopAllTransfers(s)
                           \/ ServeStop(s)

Spec == Init /\ [][Next]_vars
-----------------------------------------------------------------------------
(***************************************************************************)
(* Fairness.  A thread that can run, runs; a timed wait ends; the Faspex   *)
(* server answers a request for a transfer spec one way or the other.      *)
(* Nothing is assumed of the arrival of requests, of interrupts, and of    *)
(* the events of a session: one that is opened may say nothing for ever.   *)
(***************************************************************************)
Fairness ==
    /\ \A t \in Transfers : /\ WF_vars(StartTransfer(t))
                            /\ WF_vars(AwaitTimesOut(t))
                            /\ WF_vars(TransferSpec(t))
                            /\ WF_vars(OnTransferEvent(t))
    /\ \A s \in Stoppers : WF_vars(ServeStop(s))

FairSpec == Spec /\ Fairness

-----------------------------------------------------------------------------
(* Safety *)

Registered(t) == pc[RequestThread(t)] \notin {"new", "admitted", "rejected"}

(* Transfers: from addTransfer on, a transfer is in exactly one of the two *)
(* lists, whatever stops, fails, completes or times out around it; before, *)
(* it is in none.  A lookup therefore never misses a registered package    *)
(* and never reports one as both running and archived.                     *)
RegistryIsPartition ==
    \A t \in Transfers :
        /\ Registered(t) <=> t \in running \/ recentArchives[t] > 0
        /\ t \in running => recentArchives[t] = 0

(* Transfers.archiveTransfer: a package that has an Id is listed once in   *)
(* the archive, although onCompleted runs on up to four threads and a      *)
(* transfer may be archived before it gets its Id.                         *)
IdentifiedArchivedOnce ==
    \A t \in identified : recentArchives[t] <= 1

SignalPending(t) ==
    \/ pc[SpecThread(t)] = "signalFailed"
    \/ pc[SessionThread(t)] \in {"signalStarted", "signalFailed"}

(* Transfer.waitForSignal, sendSignal: no wakeup is lost.  A request that  *)
(* is parked on `initialized' although its transfer has started, failed or *)
(* completed is about to be signalled, in every order of the status write, *)
(* the status check, the wait and the signal.  (A stop does not signal.)   *)
NoLostWakeup ==
    \A t \in Transfers :
        pc[RequestThread(t)] = "parked" /\ status[t] \in {"STARTED", "FAILED", "COMPLETED"}
            => SignalPending(t)

(* Transfer.start: a request returns without an exception only when its    *)
(* transfer has a package Id to return, or has failed.                     *)
ReturnsIdUnlessFailed ==
    \A t \in Transfers :
        pc[RequestThread(t)] = "returned" => t \in identified \/ status[t] = "FAILED"

(* Transfer.onCompleted: it runs after errors, timeouts and stops too, yet *)
(* COMPLETED is only ever reported for a package that has an Id and whose  *)
(* session was opened.                                                     *)
CompletedWasInSession ==
    \A t \in Transfers :
        status[t] = "COMPLETED" => session[t] # "none" /\ t \in identified

(* Transfer.onCompleted closes the contents before the callback: what the  *)
(* archive holds has no open input stream, although preparing, failing,    *)
(* timing out and stopping run on different threads.                       *)
ArchivedContentsAreClosed ==
    \A t \in Transfers : recentArchives[t] > 0 => t \notin openContents

-----------------------------------------------------------------------------
(* The registry implements its abstraction. *)

Phase == [t \in Transfers |-> IF t \in running THEN "running"
                              ELSE IF recentArchives[t] > 0 THEN "archived"
                              ELSE "absent"]

Registry == INSTANCE PackageRegistry WITH phase <- Phase

(* Every step of every thread moves each package along absent, running,    *)
(* archived, or leaves it: Transfers never loses a package, never revives  *)
(* an archived one and moves one at a time.                                *)
ImplementsRegistry == Registry!Spec

(* The session has been heard of, and it is too late for a start.          *)
Settled(t) == /\ status[t] # "PENDING"
              /\ pc[SessionThread(t)] \notin {"fresh", "setStarted"}

Status(t) == INSTANCE PackageStatus
    WITH status <- status[t], started <- t \in started, settled <- Settled(t)

(* TransferSummary.status is written by four kinds of threads, each after  *)
(* it has read an earlier value, and yet a transfer starts at most once,   *)
(* never goes back to PENDING, completes only when it has started, and     *)
(* does not start again once it has ended after the start of its session.  *)
ImplementsStatus ==
    /\ \A t \in Transfers : Status(t)!Init
    /\ [][\A t \in Transfers : [Status(t)!Next]_(Status(t)!vars)]_vars

-----------------------------------------------------------------------------
(* Liveness *)

(* Transfer.start: a request that has registered its transfer ends, with a *)
(* package Id or an exception, whatever the library and stop requests do.  *)
StartEnds ==
    \A t \in Transfers :
        pc[RequestThread(t)] = "registered" ~> pc[RequestThread(t)] \in {"returned", "threw"}

(* Transfer.onCompleted: a package that the library accepted is eventually *)
(* archived, which frees its place below maxNumberOfRequests, even when    *)
(* the request that sent it was interrupted, unless its session, once      *)
(* open, neither ends nor is cancelled: a package whose session hangs      *)
(* keeps its place.                                                        *)
AcceptedIsArchived ==
    \A t \in Transfers :
        []<>(session[t] # "live")
            => (pc[SpecThread(t)] = "requesting" ~> recentArchives[t] > 0)

(* FaspexClient.stopTransfers: a stop request ends, although it may meet   *)
(* transfers that fail to stop, complete or are archived meanwhile.        *)
StopEnds ==
    \A s \in Stoppers : pc[StopThread(s)] = "next" ~> pc[StopThread(s)] = "ready"

-----------------------------------------------------------------------------
(* What the documentation says and the code does not keep. *)

(* SendService: "An error is returned if [...] the maximum number of       *)
(* concurrent requests configured in the plug-in configuration page has    *)
(* been reached."  The running transfers never exceed the limit.           *)
RunningWithinLimit == Cardinality(running) <= MaxNumberOfRequests

(* FaspexClient.stopTransfer: "true if the transfer was stopped".  When a  *)
(* stop request returns, no package it reports as stopped is being sent.   *)
ReportedAsStoppedIsNotSent ==
    \A s \in Stoppers :
        pc[StopThread(s)] = "next" /\ packageIds[s] = {}
            => \A t \in stopped[s] : session[t] # "live"
=============================================================================
