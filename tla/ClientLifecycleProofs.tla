------------------------- MODULE ClientLifecycleProofs -------------------------
(***************************************************************************)
(* The client is shared, terminate leaves none of the transfers whose Ids  *)
(* it read, and the clean-up finds nothing: for any requests, clients,     *)
(* durations and times.                                                    *)
(***************************************************************************)
EXTENDS ClientLifecycle, TLAPS

\* The thread in the monitor knows whether there is a client.
MonitorInv ==
    /\ \A r \in Requests : pc[r] \in {"construct", "cleanUp"} => monitor = r
    /\ \A r \in Requests : pc[r] = "construct" => client = NoClient
    /\ \A r \in Requests : pc[r] = "cleanUp" => client # NoClient
    /\ monitor = Terminator => client # NoClient

\* At most one client has been constructed and not terminated: the current one.
ClientInv ==
    /\ terminated \subseteq constructed
    /\ constructed \ terminated \subseteq {client}
    /\ client # NoClient => client \in constructed \ terminated

\* A request has a client before its transfer goes anywhere.
ProgressInv ==
    \A r \in Requests :
        /\ held[r] # NoClient => held[r] \in constructed
        /\ pc[r] \in {"holding", "sending"} => held[r] # NoClient
        /\ pc[r] # "sending" => /\ list[r] = "none" /\ status[r] = "PENDING"
                                /\ r \notin identified
        /\ pc[r] = "sending" => list[r] # "none"

\* The cut-off times of a client lie before all that happens to it.
TimeInv ==
    /\ \A c \in constructed : archiveDuration[c] <= now /\ progressTimeout[c] <= now
    /\ \A r \in Requests : list[r] # "none" =>
          archiveDuration[held[r]] <= updatedOn[r] /\ progressTimeout[held[r]] <= updatedOn[r]

\* terminate works on transfers of the client that it will drop.
StopInv ==
    /\ packageIds \subseteq identified
    /\ \A r \in packageIds \ left : list[r] # "running"
    /\ \A r \in left : monitor = Terminator /\ held[r] = client

Inv == TypeOK /\ MonitorInv /\ ClientInv /\ ProgressInv /\ TimeInv /\ StopInv

USE LifecycleAssumption

-----------------------------------------------------------------------------
LEMMA InitInv == Init => Inv
  BY DEF Init, Inv, TypeOK, MonitorInv, ClientInv, ProgressInv, TimeInv, StopInv,
         Labels, Lists, Statuses

\* The clock goes on.
LEMMA TickStep ==
  ASSUME Inv, Tick
  PROVE  Inv'
<1> USE DEF Inv
<1>1. TypeOK' /\ now <= now'
  BY DEF Tick, TypeOK, lifetimes, times, transfers, stopping
<1>2. MonitorInv' /\ ClientInv' /\ ProgressInv' /\ StopInv'
  BY DEF Tick, lifetimes, times, transfers, stopping,
         MonitorInv, ClientInv, ProgressInv, StopInv
<1>3. TimeInv'
  <2>1. \A c \in constructed' : archiveDuration'[c] <= now' /\ progressTimeout'[c] <= now'
    BY <1>1 DEF Tick, lifetimes, times, TimeInv, TypeOK
  <2> QED BY <2>1 DEF Tick, lifetimes, times, transfers, TimeInv
<1> QED BY <1>1, <1>2, <1>3

\* A request enters the monitor.
LEMMA GetInstanceStep ==
  ASSUME Inv, NEW s \in Requests, GetInstance(s)
  PROVE  Inv'
<1> USE DEF Inv
<1>1. TypeOK'
  BY DEF GetInstance, Goto, TypeOK, Labels, lifetimes, times, transfers, stopping
<1>2. MonitorInv'
  BY DEF GetInstance, Goto, TypeOK, MonitorInv, lifetimes
<1>3. ClientInv' /\ TimeInv'
  BY DEF GetInstance, lifetimes, times, transfers, ClientInv, TimeInv
<1>4. ProgressInv'
  BY DEF GetInstance, Goto, TypeOK, lifetimes, transfers, ProgressInv
<1>5. StopInv'
  BY DEF GetInstance, lifetimes, transfers, stopping, StopInv
<1> QED BY <1>1, <1>2, <1>3, <1>4, <1>5

\* A client is constructed.
LEMMA NewInstanceStep ==
  ASSUME Inv, NEW s \in Requests, GetNewInstance(s)
  PROVE  Inv'
<1> USE DEF Inv
<1>1. PICK c \in Clients \ constructed, d \in IntegerConfigValues, e \in IntegerConfigValues :
        /\ client' = c
        /\ constructed' = constructed \cup {c}
        /\ archiveDuration' = [archiveDuration EXCEPT ![c] = CutOff(d)]
        /\ progressTimeout' = [progressTimeout EXCEPT ![c] = CutOff(e)]
  BY DEF GetNewInstance
<1>2. /\ pc[s] = "construct" /\ client = NoClient /\ monitor = s
      /\ pc' = [pc EXCEPT ![s] = "cleanUp"]
      /\ UNCHANGED <<now, monitor, terminated, held, transfers, identified, stopping>>
  BY DEF GetNewInstance, Goto, MonitorInv
<1>3. /\ CutOff(d) \in Int /\ CutOff(d) <= now
      /\ CutOff(e) \in Int /\ CutOff(e) <= now
  BY DEF CutOff, IntegerConfigValues, TypeOK
<1>4. TypeOK'
  BY <1>1, <1>2, <1>3 DEF TypeOK, Labels, transfers, stopping
<1>5. MonitorInv'
  BY <1>1, <1>2 DEF TypeOK, MonitorInv
<1>6. ClientInv'
  BY <1>1, <1>2 DEF TypeOK, ClientInv
<1>7. ProgressInv'
  BY <1>1, <1>2 DEF TypeOK, ProgressInv, transfers
<1>8. TimeInv'
  <2>1. \A x \in constructed' : archiveDuration'[x] <= now' /\ progressTimeout'[x] <= now'
    BY <1>1, <1>2, <1>3 DEF TypeOK, TimeInv
  <2>2. ASSUME NEW r \in Requests, list'[r] # "none"
        PROVE  /\ archiveDuration'[held'[r]] <= updatedOn'[r]
               /\ progressTimeout'[held'[r]] <= updatedOn'[r]
    <3>1. held[r] \in constructed /\ held[r] # c
      BY <1>2, <2>2 DEF ProgressInv, transfers
    <3> QED BY <1>1, <1>2, <2>2, <3>1 DEF TypeOK, TimeInv, transfers
  <2> QED BY <2>1, <2>2 DEF TimeInv
<1>9. StopInv'
  BY <1>2 DEF StopInv, transfers, stopping
<1> QED BY <1>4, <1>5, <1>6, <1>7, <1>8, <1>9

\* The construction fails.
LEMMA NewInstanceFailsStep ==
  ASSUME Inv, NEW s \in Requests, GetNewInstanceFails(s)
  PROVE  Inv'
<1> USE DEF Inv
<1>0. monitor = s BY DEF GetNewInstanceFails, MonitorInv
<1>1. TypeOK'
  BY DEF GetNewInstanceFails, Goto, TypeOK, Labels, lifetimes, times, transfers, stopping
<1>2. MonitorInv'
  BY <1>0 DEF GetNewInstanceFails, Goto, TypeOK, MonitorInv, lifetimes
<1>3. ClientInv' /\ TimeInv'
  BY DEF GetNewInstanceFails, lifetimes, times, transfers, ClientInv, TimeInv
<1>4. ProgressInv'
  BY DEF GetNewInstanceFails, Goto, TypeOK, lifetimes, transfers, ProgressInv
<1>5. StopInv'
  BY <1>0 DEF GetNewInstanceFails, lifetimes, transfers, stopping, StopInv, TypeOK
<1> QED BY <1>1, <1>2, <1>3, <1>4, <1>5

\* The clean-up has nothing to do.
LEMMA NothingToCleanUp ==
  ASSUME Inv, NEW c \in Clients
  PROVE  Hanging(c) = {} /\ Expired(c) = {}
<1>1. ASSUME NEW r \in Requests, held[r] = c, list[r] # "none"
      PROVE  ~(updatedOn[r] < progressTimeout[c]) /\ ~(updatedOn[r] < archiveDuration[c])
  BY <1>1 DEF Inv, TimeInv, TypeOK
<1> QED BY <1>1 DEF Hanging, Expired

LEMMA CleanUpStep ==
  ASSUME Inv, NEW s \in Requests, CleanUpTransfers(s)
  PROVE  Inv'
<1> USE DEF Inv
<1>1. pc[s] = "cleanUp" /\ client \in Clients /\ monitor = s /\ client \in constructed
  BY DEF CleanUpTransfers, MonitorInv, ClientInv, TypeOK
<1>2. Hanging(client) = {} /\ Expired(client) = {}
  BY <1>1, NothingToCleanUp
<1>3. UNCHANGED transfers
  BY <1>2 DEF CleanUpTransfers, TypeOK, transfers
<1>4. /\ held' = [held EXCEPT ![s] = client]
      /\ pc' = [pc EXCEPT ![s] = "holding"]
      /\ monitor' = Nobody
      /\ UNCHANGED <<now, lifetimes, identified, stopping>>
  BY DEF CleanUpTransfers, Goto
<1>5. TypeOK'
  BY <1>1, <1>3, <1>4 DEF TypeOK, Labels, lifetimes, times, transfers, stopping
<1>6. MonitorInv'
  BY <1>1, <1>4 DEF TypeOK, MonitorInv, lifetimes
<1>7. ClientInv'
  BY <1>4 DEF ClientInv, lifetimes
<1>8. ProgressInv'
  BY <1>1, <1>3, <1>4 DEF TypeOK, ProgressInv, lifetimes, transfers
<1>9. list[s] = "none"
  BY <1>1 DEF ProgressInv
<1>10. TimeInv'
  BY <1>3, <1>4, <1>9 DEF TypeOK, TimeInv, lifetimes, times, transfers
<1>11. StopInv'
  BY <1>1, <1>3, <1>4 DEF TypeOK, StopInv, lifetimes, transfers, stopping
<1> QED BY <1>5, <1>6, <1>7, <1>8, <1>10, <1>11

\* A request returns or registers its transfer.
LEMMA RequestStep ==
  ASSUME Inv, NEW s \in Requests, Return(s) \/ AddTransfer(s)
  PROVE  Inv'
<1> USE DEF Inv
<1>1. held[s] \in constructed /\ list[s] = "none" /\ s \notin identified
  BY DEF Return, AddTransfer, ProgressInv
<1>2. TypeOK'
  BY DEF Return, AddTransfer, Goto, TypeOK, Labels, Lists, lifetimes, times, transfers, stopping
<1>3. MonitorInv'
  BY DEF Return, AddTransfer, Goto, TypeOK, MonitorInv, lifetimes
<1>4. ClientInv'
  BY DEF Return, AddTransfer, ClientInv, lifetimes
<1>5. ProgressInv'
  BY DEF Return, AddTransfer, Goto, TypeOK, ProgressInv, lifetimes, transfers
<1>6. TimeInv'
  <2>1. CASE Return(s)
    BY <2>1 DEF Return, TimeInv, lifetimes, times, transfers
  <2>2. CASE AddTransfer(s)
    BY <1>1, <2>2 DEF AddTransfer, TypeOK, TimeInv, lifetimes, times
  <2> QED BY <2>1, <2>2
<1>7. StopInv'
  BY <1>1 DEF Return, AddTransfer, TypeOK, StopInv, lifetimes, transfers, stopping
<1> QED BY <1>2, <1>3, <1>4, <1>5, <1>6, <1>7

\* What every step of a transfer keeps.
TransferStep(r) ==
    OnTransferSpecReceived(r) \/ OnStarted(r) \/ OnProgress(r) \/ OnCompleted(r)

LEMMA TransferStepInv ==
  ASSUME Inv, NEW s \in Requests, TransferStep(s)
  PROVE  Inv'
<1> USE DEF Inv
<1>1. pc[s] = "sending" /\ held[s] \in constructed /\ list[s] # "none"
  BY DEF TransferStep, OnTransferSpecReceived, OnStarted, OnProgress, OnCompleted, ProgressInv
<1>2. /\ UNCHANGED <<now, monitor, lifetimes, pc, held, stopping>>
      /\ identified \subseteq identified' /\ identified' \subseteq identified \cup {s}
      /\ \A r \in Requests \ {s} : /\ list'[r] = list[r] /\ status'[r] = status[r]
                                   /\ updatedOn'[r] = updatedOn[r]
      /\ updatedOn'[s] \in {updatedOn[s], now}
      /\ list'[s] \in {list[s], "archived"}
  BY DEF TransferStep, OnTransferSpecReceived, OnStarted, OnProgress, OnCompleted,
         UpdateStatus, ArchiveTransfer, TypeOK, transfers
<1>3. TypeOK'
  <2>1. /\ list' \in [Requests -> Lists] /\ status' \in [Requests -> Statuses]
        /\ updatedOn' \in [Requests -> Int] /\ identified' \subseteq Requests
    BY DEF TransferStep, OnTransferSpecReceived, OnStarted, OnProgress, OnCompleted,
           UpdateStatus, ArchiveTransfer, TypeOK, Lists, Statuses, transfers
  <2> QED BY <1>2, <2>1 DEF TypeOK, lifetimes, times, stopping
<1>4. MonitorInv' /\ ClientInv'
  BY <1>2 DEF MonitorInv, ClientInv, lifetimes
<1>5. ProgressInv'
  BY <1>1, <1>2 DEF ProgressInv, lifetimes
<1>6. TimeInv'
  <2>1. archiveDuration[held[s]] <= updatedOn'[s] /\ progressTimeout[held[s]] <= updatedOn'[s]
    BY <1>1, <1>2 DEF TimeInv
  <2> QED BY <1>2, <2>1 DEF TimeInv, lifetimes, times
<1>7. StopInv'
  BY <1>2 DEF StopInv, TypeOK, lifetimes, stopping
<1> QED BY <1>3, <1>4, <1>5, <1>6, <1>7

\* terminate reads the Ids.
LEMMA TerminateStep ==
  ASSUME Inv, Terminate
  PROVE  Inv'
<1> USE DEF Inv
<1>1. TypeOK'
  BY DEF Terminate, TypeOK, lifetimes, times, transfers
<1>2. MonitorInv'
  BY DEF Terminate, MonitorInv, lifetimes
<1>3. ClientInv' /\ ProgressInv' /\ TimeInv'
  BY DEF Terminate, ClientInv, ProgressInv, TimeInv, lifetimes, times, transfers
<1>4. StopInv'
  BY DEF Terminate, StopInv, lifetimes, transfers
<1> QED BY <1>1, <1>2, <1>3, <1>4

\* terminate stops one of the transfers.
LEMMA StopTransferStep ==
  ASSUME Inv, NEW s \in Requests, StopTransfer(s)
  PROVE  Inv'
<1> USE DEF Inv
<1>1. /\ s \in left /\ s \in identified /\ pc[s] = "sending"
      /\ held[s] \in constructed /\ list[s] # "none"
  BY DEF StopTransfer, StopInv, ProgressInv, TypeOK
<1>2. /\ UNCHANGED <<now, monitor, lifetimes, pc, held, identified, packageIds>>
      /\ left' = left \ {s}
      /\ \A r \in Requests \ {s} : /\ list'[r] = list[r] /\ status'[r] = status[r]
                                   /\ updatedOn'[r] = updatedOn[r]
      /\ updatedOn'[s] \in {updatedOn[s], now}
      /\ list'[s] \in {list[s], "archived"} /\ list'[s] # "running"
  BY DEF StopTransfer, UpdateStatus, ArchiveTransfer, TypeOK, transfers
<1>3. TypeOK'
  <2>1. /\ list' \in [Requests -> Lists] /\ status' \in [Requests -> Statuses]
        /\ updatedOn' \in [Requests -> Int]
    BY DEF StopTransfer, UpdateStatus, ArchiveTransfer, TypeOK, Lists, Statuses, transfers
  <2> QED BY <1>2, <2>1 DEF TypeOK, lifetimes, times
<1>4. MonitorInv' /\ ClientInv'
  BY <1>2 DEF MonitorInv, ClientInv, lifetimes
<1>5. ProgressInv'
  BY <1>1, <1>2 DEF ProgressInv, lifetimes
<1>6. TimeInv'
  <2>1. archiveDuration[held[s]] <= updatedOn'[s] /\ progressTimeout[held[s]] <= updatedOn'[s]
    BY <1>1, <1>2 DEF TimeInv
  <2> QED BY <1>2, <2>1 DEF TimeInv, lifetimes, times
<1>7. StopInv'
  BY <1>1, <1>2 DEF StopInv, TypeOK, lifetimes
<1> QED BY <1>3, <1>4, <1>5, <1>6, <1>7

\* terminate drops the client.
LEMMA DropClientStep ==
  ASSUME Inv, DropClient
  PROVE  Inv'
<1> USE DEF Inv
<1>1. TypeOK'
  BY DEF DropClient, TypeOK, MonitorInv, times, transfers, stopping
<1>2. MonitorInv'
  BY DEF DropClient, MonitorInv
<1>3. ClientInv'
  BY DEF DropClient, MonitorInv, ClientInv
<1>4. ProgressInv' /\ TimeInv'
  BY DEF DropClient, ProgressInv, TimeInv, times, transfers
<1>5. StopInv'
  BY DEF DropClient, StopInv, transfers, stopping
<1> QED BY <1>1, <1>2, <1>3, <1>4, <1>5

-----------------------------------------------------------------------------
\* Inv holds in every reachable state.
THEOREM Invariance == Spec => []Inv
<1>1. Inv /\ [Next]_vars => Inv'
  <2> SUFFICES ASSUME Inv, [Next]_vars PROVE Inv'
    OBVIOUS
  <2>1. CASE Next
    <3>1. ASSUME NEW r \in Requests, Return(r) \/ AddTransfer(r) PROVE Inv'
      BY <3>1, RequestStep
    <3>2. ASSUME NEW r \in Requests, TransferStep(r) PROVE Inv'
      BY <3>2, TransferStepInv
    <3> QED BY <2>1, <3>1, <3>2, TickStep, GetInstanceStep, NewInstanceStep,
               NewInstanceFailsStep, CleanUpStep, TerminateStep, StopTransferStep,
               DropClientStep DEF Next, TransferStep
  <2>2. CASE UNCHANGED vars
    BY <2>2 DEF vars, times, transfers, stopping, Inv, TypeOK, MonitorInv, ClientInv,
                ProgressInv, TimeInv, StopInv
  <2> QED BY <2>1, <2>2
<1> QED BY <1>1, InitInv, PTL DEF Spec

\* Type correctness.
THEOREM TypeCorrectness == Spec => []TypeOK
<1>1. Inv => TypeOK BY DEF Inv
<1> QED BY <1>1, Invariance, PTL

\* The client is a singleton, also while it is constructed or terminated.
THEOREM SharedClient == Spec => []ClientIsShared
<1>1. Inv => ClientIsShared BY DEF Inv, ClientInv, ClientIsShared
<1> QED BY <1>1, Invariance, PTL

\* No transfer whose Id terminate has read is left running by a dropped client.
THEOREM TerminationArchives == Spec => []TerminatedAreArchived
<1>1. Inv => TerminatedAreArchived
  BY DEF Inv, TypeOK, MonitorInv, ClientInv, StopInv, TerminatedAreArchived
<1> QED BY <1>1, Invariance, PTL

\* The clean-up never has anything to stop or to purge.
THEOREM CleanUpIsIdle == Spec => []CleanUpFindsNothing
<1>1. Inv => CleanUpFindsNothing
  BY NothingToCleanUp DEF Inv, TypeOK, MonitorInv, CleanUpFindsNothing
<1> QED BY <1>1, Invariance, PTL
=============================================================================
