---------------------------- MODULE ClientLifecycle ----------------------------
(***************************************************************************)
(* The one instance of FaspexClient: getInstance, which constructs it and  *)
(* cleans its transfers up, and terminate, which stops the transfers and   *)
(* drops it.  Both are synchronized on the class.  What a request does     *)
(* with the client afterwards is not: it may still register a transfer     *)
(* with a client that has been dropped.                                    *)
(*                                                                         *)
(* The threads of one transfer are the module FaspexClient; here a         *)
(* transfer goes on in steps of its own, and every change of its status    *)
(* or its progress takes the time.                                         *)
(***************************************************************************)
EXTENDS Integers

CONSTANTS
    Requests,   \* the service requests; each sends at most one package
    Clients,    \* the instances that can be constructed
    NoClient,   \* null
    Terminator, \* the thread that runs applicationTerminate
    Nobody,     \* the owner of a monitor that is free
    Durations,  \* archiveDurationMinutes and progressTimeoutSeconds, in ticks
    Default,    \* DEFAULT_ARCHIVE_DURATION_MINUTES, DEFAULT_PROGRESS_TIMEOUT_SECONDS
    MaxTime     \* bound of the clock

\* No duration is negative: the code takes any int, the documentation names none.
ASSUME LifecycleAssumption ==
    /\ NoClient \notin Clients
    /\ Terminator \notin Requests /\ Nobody \notin Requests \cup {Terminator}
    /\ Durations \subseteq Nat /\ Default \in Nat
    /\ MaxTime \in Nat

VARIABLES
    now,        \* Instant.now()
    monitor,    \* the thread inside synchronized (FaspexClient.class)
    client,     \* FaspexClient.client
    archiveDuration, progressTimeout,   \* the fields of each client
    constructed, \* the clients that have been constructed
    terminated, \* the clients that terminate has dropped
    pc,         \* what each request does next
    held,       \* the client each request has got
    list,       \* which list of its client holds the transfer of a request
    status,     \* TransferSummary.status
    updatedOn,  \* TransferSummary.updatedOn
    identified, \* the transfers whose packageId is set
    packageIds, \* the Ids that terminate has read
    left        \* those it has not worked on yet

times     == <<archiveDuration, progressTimeout>>
transfers == <<list, status, updatedOn>>
stopping  == <<packageIds, left>>
vars == <<now, monitor, client, times, constructed, terminated, pc, held, transfers,
          identified, stopping>>
lifetimes == <<client, times, constructed, terminated>>

Labels == {"new", "construct", "cleanUp", "holding", "sending", "done", "threw"}
Lists == {"none", "running", "archived", "purged"}
Statuses == {"PENDING", "STARTED", "STOPPED", "FAILED", "COMPLETED"}

Init ==
    /\ now = 0
    /\ monitor = Nobody
    /\ client = NoClient
    /\ archiveDuration = [c \in Clients |-> 0]
    /\ progressTimeout = [c \in Clients |-> 0]
    /\ constructed = {} /\ terminated = {}
    /\ pc = [r \in Requests |-> "new"]
    /\ held = [r \in Requests |-> NoClient]
    /\ list = [r \in Requests |-> "none"]
    /\ status = [r \in Requests |-> "PENDING"]
    /\ updatedOn = [r \in Requests |-> 0]
    /\ identified = {}
    /\ packageIds = {} /\ left = {}

Tick ==
    /\ now < MaxTime
    /\ now' = now + 1
    /\ UNCHANGED <<monitor, lifetimes, pc, held, transfers, identified, stopping>>

Goto(r, label) == pc' = [pc EXCEPT ![r] = label]

-----------------------------------------------------------------------------
(* getInstance *)

\* Variant: the client is read before the monitor is entered.
GetInstanceUnlocked(r) ==
    /\ pc[r] = "new"
    /\ Goto(r, IF client = NoClient THEN "construct" ELSE "cleanUp")
    /\ UNCHANGED <<now, monitor, lifetimes, held, transfers, identified, stopping>>

GetInstance(r) ==
    /\ pc[r] = "new"
    /\ monitor = Nobody
    /\ monitor' = r
    /\ Goto(r, IF client = NoClient THEN "construct" ELSE "cleanUp")
    /\ UNCHANGED <<now, lifetimes, held, transfers, identified, stopping>>

\* An option that is absent or not a number has its default value.
IntegerConfigValues == Durations \cup {Default}

\* Variant: the cut-off time of the clean-up lies a duration ahead.
CutOffAhead(duration) == now + duration

CutOff(duration) == now - duration

(* The constructor takes the current time: the fields are points in time, and final. *)
GetNewInstance(r) ==
    /\ pc[r] = "construct"
    /\ \E c \in Clients \ constructed :
          /\ client' = c
          /\ constructed' = constructed \cup {c}
          /\ \E d \in IntegerConfigValues :
                archiveDuration' = [archiveDuration EXCEPT ![c] = CutOff(d)]
          /\ \E d \in IntegerConfigValues :
                progressTimeout' = [progressTimeout EXCEPT ![c] = CutOff(d)]
    /\ Goto(r, "cleanUp")
    /\ UNCHANGED <<now, monitor, terminated, held, transfers, identified, stopping>>

\* The configuration cannot be loaded or parsed.
GetNewInstanceFails(r) ==
    /\ pc[r] = "construct"
    /\ monitor' = Nobody
    /\ Goto(r, "threw")
    /\ UNCHANGED <<now, lifetimes, held, transfers, identified, stopping>>

(* Transfers.getHangingTransfers and the archives that purgeExpiredArchives removes *)
Hanging(c) ==
    {r \in Requests : /\ held[r] = c /\ list[r] = "running"
                      /\ status[r] = "STARTED" /\ updatedOn[r] < progressTimeout[c]}
Expired(c) ==
    {r \in Requests : /\ held[r] = c /\ list[r] = "archived"
                      /\ updatedOn[r] < archiveDuration[c]}

(* cleanUpTransfers and the end of getInstance.  What hangs is stopped and  *)
(* archived with the current time, so that it does not expire at once.      *)
CleanUpTransfers(r) ==
    /\ pc[r] = "cleanUp"
    /\ LET hanging == Hanging(client)
           expired == Expired(client)
       IN /\ list' = [t \in Requests |-> IF t \in hanging THEN "archived"
                                        ELSE IF t \in expired THEN "purged"
                                        ELSE list[t]]
          /\ status' = [t \in Requests |-> IF t \in hanging THEN "STOPPED" ELSE status[t]]
          /\ updatedOn' = [t \in Requests |-> IF t \in hanging THEN now ELSE updatedOn[t]]
    /\ held' = [held EXCEPT ![r] = client]
    /\ monitor' = Nobody
    /\ Goto(r, "holding")
    /\ UNCHANGED <<now, lifetimes, identified, stopping>>

-----------------------------------------------------------------------------
(* A request and its transfer *)

\* A request that looks packages up or stops them registers no transfer.
Return(r) ==
    /\ pc[r] = "holding"
    /\ Goto(r, "done")
    /\ UNCHANGED <<now, monitor, lifetimes, held, transfers, identified, stopping>>

AddTransfer(r) ==
    /\ pc[r] = "holding"
    /\ list' = [list EXCEPT ![r] = "running"]
    /\ updatedOn' = [updatedOn EXCEPT ![r] = now]
    /\ Goto(r, "sending")
    /\ UNCHANGED <<now, monitor, lifetimes, held, status, identified, stopping>>

OnTransferSpecReceived(r) ==
    /\ pc[r] = "sending"
    /\ r \notin identified
    /\ identified' = identified \cup {r}
    /\ UNCHANGED <<now, monitor, lifetimes, pc, held, transfers, stopping>>

UpdateStatus(r, s) ==
    /\ status' = [status EXCEPT ![r] = s]
    /\ updatedOn' = [updatedOn EXCEPT ![r] = now]

\* The session may start while the transfer is being stopped or archived.
OnStarted(r) ==
    /\ r \in identified
    /\ status[r] \in {"PENDING", "STOPPED"}
    /\ UpdateStatus(r, "STARTED")
    /\ UNCHANGED <<now, monitor, lifetimes, pc, held, list, identified, stopping>>

\* Bytes have been transferred.
OnProgress(r) ==
    /\ status[r] = "STARTED"
    /\ updatedOn' = [updatedOn EXCEPT ![r] = now]
    /\ UNCHANGED <<now, monitor, lifetimes, pc, held, list, status, identified, stopping>>

ArchiveTransfer(r) == list' = [list EXCEPT ![r] = "archived"]

(* A transfer completes, fails, times out or is stopped by a user. *)
OnCompleted(r) ==
    /\ pc[r] = "sending"
    /\ \/ status[r] = "STARTED" /\ UpdateStatus(r, "COMPLETED")
       \/ status[r] \in {"PENDING", "STARTED"}
          /\ \E s \in {"FAILED", "STOPPED"} : UpdateStatus(r, s)
    /\ ArchiveTransfer(r)
    /\ UNCHANGED <<now, monitor, lifetimes, pc, held, identified, stopping>>

-----------------------------------------------------------------------------
(* terminate *)

\* stopAllTransfers reads the Ids; a transfer without one is skipped.
Terminate ==
    /\ monitor = Nobody
    /\ client # NoClient
    /\ monitor' = Terminator
    /\ packageIds' = {r \in identified : held[r] = client /\ list[r] = "running"}
    /\ left' = packageIds'
    /\ UNCHANGED <<now, lifetimes, pc, held, transfers, identified>>

\* Variant: a transfer that cannot be stopped is left where it is.
StopTransferOrLeave(r) ==
    /\ monitor = Terminator
    /\ r \in left
    /\ left' = left \ {r}
    /\ IF list[r] = "running"
       THEN \/ /\ UpdateStatus(r, "STOPPED")
               /\ ArchiveTransfer(r)
            \/ UNCHANGED transfers
       ELSE UNCHANGED transfers
    /\ UNCHANGED <<now, monitor, lifetimes, pc, held, identified, packageIds>>

(* getTransfer finds running transfers only.  One whose session cannot be  *)
(* cancelled is completed and archived like one that was stopped.          *)
StopTransfer(r) ==
    /\ monitor = Terminator
    /\ r \in left
    /\ left' = left \ {r}
    /\ IF list[r] = "running"
       THEN /\ \/ UpdateStatus(r, "STOPPED")
               \/ status[r] = "STARTED" /\ UpdateStatus(r, "COMPLETED")
               \/ status[r] # "STARTED" /\ UNCHANGED <<status, updatedOn>>
            /\ ArchiveTransfer(r)
       ELSE UNCHANGED transfers
    /\ UNCHANGED <<now, monitor, lifetimes, pc, held, identified, packageIds>>

DropClient ==
    /\ monitor = Terminator
    /\ left = {}
    /\ monitor' = Nobody
    /\ terminated' = terminated \cup {client}
    /\ client' = NoClient
    /\ UNCHANGED <<now, times, constructed, pc, held, transfers, identified, stopping>>

Next ==
    \/ Tick
    \/ \E r \in Requests :
          \/ GetInstance(r) \/ GetNewInstance(r) \/ GetNewInstanceFails(r)
          \/ CleanUpTransfers(r) \/ Return(r)
          \/ AddTransfer(r) \/ OnTransferSpecReceived(r) \/ OnStarted(r)
          \/ OnProgress(r) \/ OnCompleted(r) \/ StopTransfer(r)
    \/ Terminate
    \/ DropClient

Spec == Init /\ [][Next]_vars

-----------------------------------------------------------------------------
TypeOK ==
    /\ now \in 0..MaxTime
    /\ monitor \in Requests \cup {Terminator, Nobody}
    /\ client \in Clients \cup {NoClient}
    /\ archiveDuration \in [Clients -> Int] /\ progressTimeout \in [Clients -> Int]
    /\ terminated \subseteq Clients /\ constructed \subseteq Clients
    /\ pc \in [Requests -> Labels]
    /\ held \in [Requests -> Clients \cup {NoClient}]
    /\ list \in [Requests -> Lists]
    /\ status \in [Requests -> Statuses]
    /\ updatedOn \in [Requests -> Int]
    /\ identified \subseteq Requests
    /\ left \subseteq packageIds /\ packageIds \subseteq Requests

(* FaspexClient.getInstance: the client is a singleton.  However requests  *)
(* and terminate overlap, and although a construction may fail, a client   *)
(* that has been constructed is the current one or has been terminated:    *)
(* the limit on requests counts all transfers, and terminate reaches the   *)
(* client of every request that is not served by a terminated one.         *)
ClientIsShared == constructed \ terminated \subseteq {client}

(* FaspexClient.terminate: a transfer whose Id it has read is in the       *)
(* archive when the client is dropped, and stays out of the running list,  *)
(* although it starts, progresses, fails or completes at the same time and *)
(* the library may fail to stop it.                                        *)
TerminatedAreArchived ==
    \A r \in packageIds :
        held[r] \in terminated => list[r] # "running"

(* FaspexClient.cleanUpTransfers: the cut-off times are points in time     *)
(* before the client existed, and every transfer of the client is younger. *)
(* The clean-up of a request never finds a transfer to stop or an archive  *)
(* to purge, however long the one hangs or the other is kept.              *)
CleanUpFindsNothing ==
    \A r \in Requests :
        pc[r] = "cleanUp" => Hanging(client) = {} /\ Expired(client) = {}

-----------------------------------------------------------------------------
(* What the documentation says and the code does not keep. *)

HangsTooLong(t) ==
    /\ list[t] = "running" /\ status[t] = "STARTED"
    /\ \A d \in IntegerConfigValues : now - updatedOn[t] > d

(* FaspexClient.cleanUpTransfers: "Stops hanging transfers and purses      *)
(* recently sent packages that are older than 30 minutes."  After the      *)
(* clean-up no transfer of the client is running that has made no progress *)
(* for longer than every timeout that can be configured.                   *)
HangingAreStopped ==
    [][\A r, t \in Requests :
          CleanUpTransfers(r) /\ held[t] = client /\ HangsTooLong(t)
              => list'[t] # "running"]_vars
=============================================================================
