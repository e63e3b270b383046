------------------------- MODULE FaspexClientProofs -------------------------
(***************************************************************************)
(* The invariant Inv of FaspexClientInv is preserved by every step of      *)
(* every thread, for any number of transfers and stop requests and any     *)
(* limit; the safety properties of FaspexClient and the refinement of      *)
(* PackageRegistry and PackageStatus follow from it.                       *)
(***************************************************************************)
EXTENDS FaspexClientInv, TLAPS

\* The names of sets of labels and of groups of variables are expanded throughout.
USE DEF StopLabels, CompletedLabels, StartedLabels, FailedLabels, SentLabels,
        summary, registry, library, stopping

(* No thread is of two kinds, or runs for two transfers. *)
LEMMA ThreadsDiffer ==
    /\ \A t \in Transfers : /\ RequestThread(t) \in Threads
                            /\ SpecThread(t) \in Threads
                            /\ SessionThread(t) \in Threads
    /\ \A s \in Stoppers : StopThread(s) \in Threads
    /\ \A t, u : /\ RequestThread(t) # SpecThread(u)
                 /\ RequestThread(t) # SessionThread(u)
                 /\ SpecThread(t) # SessionThread(u)
                 /\ StopThread(t) # RequestThread(u)
                 /\ StopThread(t) # SpecThread(u)
                 /\ StopThread(t) # SessionThread(u)
                 /\ RequestThread(t) = RequestThread(u) => t = u
                 /\ SpecThread(t) = SpecThread(u) => t = u
                 /\ SessionThread(t) = SessionThread(u) => t = u
                 /\ StopThread(t) = StopThread(u) => t = u
  BY DEF RequestThread, SpecThread, SessionThread, StopThread, Threads,
         RequestThreads, SpecThreads, SessionThreads, StopThreads

-----------------------------------------------------------------------------
(* A thread works on one transfer. *)
LEMMA CrewsDiffer ==
    /\ \A t \in Transfers : Crew(t) \subseteq Threads
    /\ \A t, u : \A th \in Crew(t) : th \in Crew(u) => t = u
  <1>1. \A t \in Transfers : Crew(t) \subseteq Threads
    BY ThreadsDiffer DEF Crew
  <1>2. ASSUME NEW t, NEW u, NEW th \in Crew(t), th \in Crew(u)
        PROVE  t = u
    <2>1. CASE th \in {RequestThread(t), SpecThread(t), SessionThread(t)}
      BY <1>2, <2>1, ThreadsDiffer DEF Crew
    <2>2. CASE \E s \in Stoppers : th = StopThread(s) /\ target[s] = t
      BY <1>2, <2>2, ThreadsDiffer DEF Crew
    <2> QED BY <1>2, <2>1, <2>2 DEF Crew
  <1> QED BY <1>1, <1>2

(* A step that moves one thread to a label moves nobody else there.        *)
LEMMA AtAfterGoto ==
    ASSUME TypeOK, NEW t \in Transfers, NEW th \in Crew(t), NEW label, Goto(th, label),
           UNCHANGED target
    PROVE  /\ pc'[th] = label
           /\ \A x \in Threads : x # th => pc'[x] = pc[x]
           /\ \A u : Crew(u)' = Crew(u)
           /\ \A u \in Transfers : \A labels :
                 At(u, labels)' => At(u, labels) \/ (u = t /\ label \in labels)
  <1>1. th \in Threads
    BY CrewsDiffer
  <1>2. pc'[th] = label /\ \A x \in Threads : x # th => pc'[x] = pc[x]
    BY <1>1 DEF TypeOK, Goto
  <1>3. \A u : Crew(u)' = Crew(u)
    BY DEF Crew
  <1>4. ASSUME NEW u \in Transfers, NEW labels, At(u, labels)'
        PROVE  At(u, labels) \/ (u = t /\ label \in labels)
    <2>1. PICK x \in Crew(u) : pc'[x] \in labels
      BY <1>3, <1>4 DEF At
    <2>2. CASE x = th
      BY <2>1, <2>2, <1>2, CrewsDiffer
    <2>3. CASE x # th
      BY <2>1, <2>3, <1>2, CrewsDiffer DEF At
    <2> QED BY <2>2, <2>3
  <1> QED BY <1>2, <1>3, <1>4
-----------------------------------------------------------------------------
(* onCompleted.  It runs on every kind of thread; goes on where the caller *)
(* of that thread does.                                                    *)

GoesOn(th, t, back) ==
    \/ th = RequestThread(t) /\ pc[SpecThread(t)] # "off" /\ back = "threw"
    \/ th = RequestThread(t) /\ pc[SpecThread(t)] = "off" /\ back = "wait"
    \/ th = SpecThread(t) /\ back = "over"
    \/ th = SessionThread(t) /\ back = "listening"
    \/ \E s \in Stoppers : th = StopThread(s) /\ target[s] = t /\ back = "next"

LEMMA CloseContentsStep ==
    ASSUME Inv, NEW t \in Transfers, NEW th \in Crew(t), CloseContents(th, t)
    PROVE  Inv'
  <1>1. PICK label \in {"setCompleted", "archive"} :
           /\ Goto(th, label)
           /\ label = "setCompleted" => status[t] = "STARTED"
    BY DEF CloseContents
  <1>2. /\ pc'[th] = label
        /\ \A x \in Threads : x # th => pc'[x] = pc[x]
        /\ \A u \in Transfers : \A labels :
              At(u, labels)' => At(u, labels) \/ (u = t /\ label \in labels)
    BY <1>1, AtAfterGoto DEF Inv, CloseContents
  <1>3. TypeOK'
    BY <1>1, <1>2, ThreadsDiffer DEF Inv, TypeOK, CloseContents, Goto,
       RequestLabels, SpecLabels, SessionLabels, StopperLabels
  <1>4. ThreadOrder'
    BY <1>1, <1>2, ThreadsDiffer DEF Inv, CloseContents, ThreadOrder
  <1>5. ArchiveOrder'
    BY <1>1, <1>2, ThreadsDiffer DEF Inv, CloseContents,
       ArchiveOrder, RegistryIsPartition, Registered, IdentifiedArchivedOnce
  <1>6. StatusOrder'
    BY <1>1, <1>2, ThreadsDiffer DEF Inv, CloseContents,
       StatusOrder, CompletedWasInSession, ReturnsIdUnlessFailed
  <1>7. WakeupOrder'
    BY <1>1, <1>2, ThreadsDiffer DEF Inv, CloseContents, WakeupOrder, SignalPending
  <1>8. ContentsOrder'
    BY <1>1, <1>2, ThreadsDiffer DEF Inv, TypeOK, CloseContents, ContentsOrder, ArchivedContentsAreClosed
  <1> QED BY <1>3, <1>4, <1>5, <1>6, <1>7, <1>8 DEF Inv

LEMMA SetCompletedStep ==
    ASSUME Inv, NEW t \in Transfers, NEW th \in Crew(t), SetCompleted(th, t)
    PROVE  Inv'
  <1>1. /\ Goto(th, "archive")
        /\ pc'[th] = "archive"
        /\ \A x \in Threads : x # th => pc'[x] = pc[x]
        /\ \A u \in Transfers : \A labels :
              At(u, labels)' => At(u, labels) \/ (u = t /\ "archive" \in labels)
    BY AtAfterGoto DEF Inv, SetCompleted
  <1>2. TypeOK'
    BY <1>1, ThreadsDiffer DEF Inv, TypeOK, SetCompleted, Goto, Statuses,
       RequestLabels, SpecLabels, SessionLabels, StopperLabels
  <1>3. ThreadOrder'
    BY <1>1, ThreadsDiffer DEF Inv, SetCompleted, ThreadOrder
  <1>4. ArchiveOrder'
    BY <1>1, ThreadsDiffer DEF Inv, SetCompleted,
       ArchiveOrder, RegistryIsPartition, Registered, IdentifiedArchivedOnce
  <1>5. At(t, {"setCompleted"})
    BY DEF At, SetCompleted
  <1>6. StatusOrder'
    BY <1>1, <1>5, ThreadsDiffer DEF Inv, TypeOK, SetCompleted, ThreadOrder,
       StatusOrder, CompletedWasInSession, ReturnsIdUnlessFailed
  <1>7. WakeupOrder'
    BY <1>1, <1>5, ThreadsDiffer DEF Inv, TypeOK, SetCompleted, WakeupOrder, SignalPending
  <1>8. ContentsOrder'
    <2>1. t \notin openContents
      BY <1>5 DEF Inv, ContentsOrder, At
    <2> QED BY <1>1, <2>1 DEF Inv, SetCompleted, ContentsOrder, ArchivedContentsAreClosed
  <1> QED BY <1>2, <1>3, <1>4, <1>6, <1>7, <1>8 DEF Inv

(* A thread that archives works on a transfer that is registered. *)
LEMMA ArchiverIsRegistered ==
    ASSUME Inv, NEW t \in Transfers, NEW th \in Crew(t), pc[th] = "archive"
    PROVE  t \in running \/ recentArchives[t] > 0
  BY ThreadsDiffer DEF Inv, TypeOK, ThreadOrder, ArchiveOrder, RegistryIsPartition, Registered, Crew

(* Each kind of thread goes on at a label of its own. *)
LEMMA GoesOnByKind ==
    ASSUME NEW t, NEW th, NEW back, GoesOn(th, t, back)
    PROVE  /\ \A u : th = RequestThread(u) =>
                 /\ u = t
                 /\ back = IF pc[SpecThread(t)] = "off" THEN "wait" ELSE "threw"
           /\ \A u : th = SpecThread(u) => u = t /\ back = "over"
           /\ \A u : th = SessionThread(u) => u = t /\ back = "listening"
           /\ \A s \in Stoppers : th = StopThread(s) => back = "next"
  <1>1. CASE th = RequestThread(t)
    BY <1>1, ThreadsDiffer DEF GoesOn
  <1>2. CASE th = SpecThread(t) /\ back = "over"
    BY <1>2, ThreadsDiffer
  <1>3. CASE th = SessionThread(t) /\ back = "listening"
    BY <1>3, ThreadsDiffer
  <1>4. CASE \E s \in Stoppers : th = StopThread(s) /\ target[s] = t /\ back = "next"
    BY <1>4, ThreadsDiffer
  <1> QED BY <1>1, <1>2, <1>3, <1>4 DEF GoesOn

LEMMA ArchiveTransferStep ==
    ASSUME Inv, NEW t \in Transfers, NEW th \in Crew(t), NEW back, GoesOn(th, t, back),
           ArchiveTransfer(th, t, back)
    PROVE  Inv'
  <1>1. /\ Goto(th, back)
        /\ pc'[th] = back
        /\ \A x \in Threads : x # th => pc'[x] = pc[x]
        /\ \A u \in Transfers : \A labels :
              At(u, labels)' => At(u, labels) \/ (u = t /\ back \in labels)
    BY AtAfterGoto DEF Inv, ArchiveTransfer
  <1>2. back \in {"threw", "wait", "over", "listening", "next"}
    BY DEF GoesOn
  <1>3. /\ \A u : th = RequestThread(u) =>
              u = t /\ back = IF pc[SpecThread(t)] = "off" THEN "wait" ELSE "threw"
        /\ \A u : th = SpecThread(u) => u = t /\ back = "over"
        /\ \A u : th = SessionThread(u) => u = t /\ back = "listening"
        /\ \A s \in Stoppers : th = StopThread(s) => back = "next"
    BY GoesOnByKind
  <1>4. TypeOK'
    <2>1. /\ pc' \in [Threads -> RequestLabels \cup SpecLabels
                                    \cup SessionLabels \cup StopperLabels]
          /\ recentArchives' \in [Transfers -> Nat]
      BY <1>1, <1>2, ThreadsDiffer, CrewsDiffer DEF Inv, TypeOK, ArchiveTransfer, Goto,
         RequestLabels, SpecLabels, SessionLabels, StopperLabels
    <2>2. \A u \in Transfers : /\ pc'[RequestThread(u)] \in RequestLabels
                               /\ pc'[SpecThread(u)] \in SpecLabels
                               /\ pc'[SessionThread(u)] \in SessionLabels
      BY <1>3, <1>1, ThreadsDiffer DEF Inv, TypeOK, RequestLabels, SpecLabels, SessionLabels
    <2>3. \A s \in Stoppers : /\ pc'[StopThread(s)] \in StopperLabels
                              /\ pc'[StopThread(s)] \in StopLabels \cup CompletedLabels
                                    => target[s] \in Transfers
      BY <1>3, <1>1, ThreadsDiffer DEF Inv, TypeOK, StopperLabels
    <2> QED BY <2>1, <2>2, <2>3 DEF Inv, TypeOK, ArchiveTransfer
  <1>5. ThreadOrder'
    BY <1>3, <1>1, ThreadsDiffer DEF Inv, ArchiveTransfer, ThreadOrder
  <1>6. ArchiveOrder'
    <2>1. recentArchives'[t] > 0 /\ t \notin running'
      BY DEF Inv, TypeOK, ArchiveTransfer, Archived
    <2>2. \A u \in Transfers : u # t => /\ recentArchives'[u] = recentArchives[u]
                                        /\ u \in running' <=> u \in running
      BY DEF Inv, TypeOK, ArchiveTransfer
    <2>3. \A u \in Transfers : Registered(u)' <=> Registered(u)
      <3>1. CASE th = RequestThread(t)
        BY <1>3, <1>1, <3>1, ThreadsDiffer DEF ArchiveTransfer, Registered
      <3>2. CASE th # RequestThread(t)
        BY <1>3, <1>1, <3>2, ThreadsDiffer DEF Registered
      <3> QED BY <3>1, <3>2
    <2>4. RegistryIsPartition'
      BY <2>1, <2>2, <2>3, ArchiverIsRegistered DEF Inv, ArchiveOrder, RegistryIsPartition, ArchiveTransfer
    <2>5. IdentifiedArchivedOnce'
      BY <2>2 DEF Inv, TypeOK, ArchiveTransfer, Archived, ArchiveOrder, IdentifiedArchivedOnce
    <2>6. ASSUME NEW u \in Transfers,
                 pc'[RequestThread(u)] \in {"registered", "prepared"}
          PROVE  recentArchives'[u] = 0
      <3>1. pc[RequestThread(u)] \in {"registered", "prepared"}
        BY <1>1, <1>3, <2>6, ThreadsDiffer
      <3>2. pc[RequestThread(t)] \notin {"registered", "prepared"}
        BY ThreadsDiffer DEF Inv, ThreadOrder, Crew, ArchiveTransfer
      <3> QED BY <2>2, <3>1, <3>2 DEF Inv, ArchiveOrder
    <2>7. ASSUME NEW u \in Transfers, pc'[SpecThread(u)] = "requesting"
          PROVE  \/ recentArchives'[u] = 0
                 \/ recentArchives'[u] = 1 /\ pc'[RequestThread(u)] = "threw"
      <3>1. CASE u # t
        BY <1>3, <1>1, <2>2, <2>7, <3>1, ThreadsDiffer DEF Inv, ArchiveOrder
      <3>2. CASE u = t
        <4>1. pc[SpecThread(t)] = "requesting"
          BY <1>1, <1>3, <2>7, <3>2, ThreadsDiffer
        <4>2. th = RequestThread(t)
          BY <4>1, ThreadsDiffer DEF Inv, ThreadOrder, Crew, ArchiveTransfer
        <4>3. pc'[RequestThread(t)] = "threw"
          BY <1>1, <1>3, <4>1, <4>2
        <4>4. recentArchives[t] = 0
          BY <4>1, <4>2 DEF Inv, ArchiveOrder, ArchiveTransfer
        <4> QED BY <3>2, <4>3, <4>4 DEF Inv, TypeOK, ArchiveTransfer, Archived
      <3> QED BY <3>1, <3>2
    <2> QED BY <2>4, <2>5, <2>6, <2>7 DEF ArchiveOrder
  <1>7. StatusOrder'
    BY <1>3, <1>1, <1>2, ThreadsDiffer DEF Inv, ArchiveTransfer,
       StatusOrder, CompletedWasInSession, ReturnsIdUnlessFailed
  <1>8. WakeupOrder'
    BY <1>3, <1>1, <1>2, ThreadsDiffer DEF Inv, ArchiveTransfer, WakeupOrder, SignalPending
  <1>9. ContentsOrder'
    <2>1. t \notin openContents
      BY DEF Inv, ContentsOrder, At, ArchiveTransfer
    <2> QED BY <1>3, <1>1, <1>2, <2>1
            DEF Inv, TypeOK, ArchiveTransfer, ContentsOrder, ArchivedContentsAreClosed
  <1> QED BY <1>4, <1>5, <1>6, <1>7, <1>8, <1>9 DEF Inv

-----------------------------------------------------------------------------
(* onStarted and onFailed.  In this and the following lemmas all the parts *)
(* of Inv are expanded: a step of one thread is checked against all.       *)

(* The signal wakes the request if it is parked, and moves nobody else but *)
(* the signalling thread.                                                  *)
LEMMA SendSignalMoves ==
    ASSUME Inv, NEW t \in Transfers, NEW th \in Crew(t), NEW label, NEW back,
           SendSignal(th, t, label, back)
    PROVE  /\ pc[th] = label /\ pc'[th] = back
           /\ th # RequestThread(t) =>
                 pc'[RequestThread(t)] = IF pc[RequestThread(t)] = "parked" THEN "woken"
                                         ELSE pc[RequestThread(t)]
           /\ \A x \in Threads : x \notin {th, RequestThread(t)} => pc'[x] = pc[x]
           /\ \A u : Crew(u)' = Crew(u)
  <1>1. th \in Threads /\ RequestThread(t) \in Threads
    BY CrewsDiffer, ThreadsDiffer
  <1> QED BY <1>1 DEF SendSignal, Crew

LEMMA SendSignalStep ==
    ASSUME Inv, NEW t \in Transfers, NEW th \in Crew(t), NEW label, NEW back,
           SendSignal(th, t, label, back),
           \/ th = SessionThread(t) /\ label = "signalStarted" /\ back = "listening"
           \/ th = SessionThread(t) /\ label = "signalFailed" /\ back = "completed"
           \/ th = SpecThread(t) /\ label = "signalFailed" /\ back = "completed"
           \/ th = RequestThread(t) /\ label = "signalFailed" /\ back = "completed"
              /\ pc[SpecThread(t)] = "off"
    PROVE  Inv'
  <1>1. /\ pc[th] = label /\ pc'[th] = back
        /\ th # RequestThread(t) =>
              pc'[RequestThread(t)] = IF pc[RequestThread(t)] = "parked" THEN "woken"
                                      ELSE pc[RequestThread(t)]
        /\ \A x \in Threads : x \notin {th, RequestThread(t)} => pc'[x] = pc[x]
        /\ \A u : Crew(u)' = Crew(u)
    BY SendSignalMoves
  <1>2. UNCHANGED <<summary, registry, openContents, library, stopping>>
    BY DEF SendSignal
  <1>3. \A u \in Transfers : \A x \in Crew(u)' :
           /\ x \in Crew(u) /\ x \in Threads
           /\ pc'[x] \in {"setCompleted", "archive"} => pc[x] = pc'[x]
    BY <1>1, CrewsDiffer, ThreadsDiffer
  <1>4. \A u \in Transfers : \A labels \in SUBSET {"setCompleted", "archive"} :
           At(u, labels)' => At(u, labels)
    BY <1>3 DEF At
  <1>5. TypeOK'
    <2>1. pc' \in [Threads -> RequestLabels \cup SpecLabels
                                 \cup SessionLabels \cup StopperLabels]
      BY ThreadsDiffer DEF Inv, TypeOK, SendSignal,
         RequestLabels, SpecLabels, SessionLabels, StopperLabels
    <2>2. \A u \in Transfers : /\ pc'[RequestThread(u)] \in RequestLabels
                               /\ pc'[SpecThread(u)] \in SpecLabels
                               /\ pc'[SessionThread(u)] \in SessionLabels
      BY <1>1, ThreadsDiffer DEF Inv, TypeOK, RequestLabels, SpecLabels, SessionLabels
    <2>3. \A s \in Stoppers : pc'[StopThread(s)] = pc[StopThread(s)]
      BY <1>1, ThreadsDiffer
    <2> QED BY <1>2, <2>1, <2>2, <2>3 DEF Inv, TypeOK
  <1>6. ThreadOrder'
    BY <1>1, <1>2, ThreadsDiffer DEF Inv, ThreadOrder
  <1>7. ArchiveOrder'
    BY <1>1, <1>2, ThreadsDiffer DEF Inv, ThreadOrder,
       ArchiveOrder, RegistryIsPartition, Registered, IdentifiedArchivedOnce
  <1>8. StatusOrder'
    BY <1>1, <1>2, <1>4, ThreadsDiffer DEF Inv, ThreadOrder,
       StatusOrder, CompletedWasInSession, ReturnsIdUnlessFailed
  <1>9. WakeupOrder'
    <2> SUFFICES ASSUME NEW u \in Transfers,
                        pc'[RequestThread(u)] \in {"await", "parked"}, ~SignalPending(u)'
                 PROVE  status'[u] \in {"PENDING", "STOPPED"} /\ ~At(u, {"setCompleted"})'
      BY DEF WakeupOrder
    <2>1. CASE u = t
      \* The lock keeps the signal from a request between its check and its wait,
      \* and a parked request is woken.
      <3>1. pc[RequestThread(t)] # "await"
        BY DEF SendSignal, HoldsLock
      <3> QED BY <1>1, <2>1, <3>1
    <2>2. CASE u # t
      <3>1. pc[RequestThread(u)] = pc'[RequestThread(u)] /\ ~SignalPending(u)
        BY <1>1, <2>2, ThreadsDiffer DEF SignalPending
      <3> QED BY <1>2, <1>4, <3>1 DEF Inv, WakeupOrder
    <2> QED BY <2>1, <2>2
  <1>10. ContentsOrder'
    BY <1>2, <1>4 DEF Inv, ContentsOrder, ArchivedContentsAreClosed
  <1> QED BY <1>5, <1>6, <1>7, <1>8, <1>9, <1>10 DEF Inv

LEMMA OnStartedStep ==
    ASSUME Inv, NEW t \in Transfers, OnStarted(SessionThread(t), t, "listening")
    PROVE  Inv'
  <1> USE ThreadsDiffer
      DEF Inv, TypeOK, RequestLabels, SpecLabels, SessionLabels, StopperLabels, Statuses,
          SessionStates, ThreadOrder, ArchiveOrder, RegistryIsPartition, Registered,
          IdentifiedArchivedOnce, StatusOrder, CompletedWasInSession, ReturnsIdUnlessFailed,
          WakeupOrder, SignalPending, ContentsOrder, ArchivedContentsAreClosed, At, Crew, Goto
  <1>1. CASE SetStarted(SessionThread(t), t)
    BY <1>1 DEF SetStarted
  <1>2. CASE SendSignal(SessionThread(t), t, "signalStarted", "listening")
    BY <1>2, SendSignalStep
  <1> QED BY <1>1, <1>2 DEF OnStarted

(* The threads that report a failure. *)
FailedCaller(th, t) ==
    \/ th = RequestThread(t) /\ pc[SpecThread(t)] = "off"
    \/ th \in {SpecThread(t), SessionThread(t)}

LEMMA SetFailedStep ==
    ASSUME Inv, NEW t \in Transfers, NEW th, FailedCaller(th, t),
           SetFailed(th, t) \/ SendSignal(th, t, "signalFailed", "completed")
    PROVE  Inv'
  <1> USE ThreadsDiffer
      DEF Inv, TypeOK, RequestLabels, SpecLabels, SessionLabels, StopperLabels, Statuses,
          SessionStates, ThreadOrder, ArchiveOrder, RegistryIsPartition, Registered,
          IdentifiedArchivedOnce, StatusOrder, CompletedWasInSession, ReturnsIdUnlessFailed,
          WakeupOrder, SignalPending, ContentsOrder, ArchivedContentsAreClosed, At, Crew, Goto
  <1>1. CASE SetFailed(th, t)
    BY <1>1 DEF SetFailed, FailedCaller
  <1>2. CASE SendSignal(th, t, "signalFailed", "completed")
    BY <1>2, SendSignalStep DEF FailedCaller
  <1> QED BY <1>1, <1>2

LEMMA OnCompletedStep ==
    ASSUME Inv, NEW t \in Transfers, NEW th \in Crew(t), NEW back, GoesOn(th, t, back),
           OnCompleted(th, t, back)
    PROVE  Inv'
  BY CloseContentsStep, SetCompletedStep, ArchiveTransferStep DEF OnCompleted

LEMMA OnFailedStep ==
    ASSUME Inv, NEW t \in Transfers, NEW th, FailedCaller(th, t), NEW back, GoesOn(th, t, back),
           OnFailed(th, t, back)
    PROVE  Inv'
  <1>1. th \in Crew(t)
    BY DEF FailedCaller, Crew
  <1> QED BY <1>1, SetFailedStep, OnCompletedStep DEF OnFailed

-----------------------------------------------------------------------------
(* stop() *)

StopCaller(th, t) ==
    \/ th = RequestThread(t) /\ pc[SpecThread(t)] # "off"
    \/ \E s \in Stoppers : th = StopThread(s) /\ target[s] = t

LEMMA StopStep ==
    ASSUME Inv, NEW t \in Transfers, NEW th, StopCaller(th, t), NEW back, GoesOn(th, t, back),
           Stop(th, t, back)
    PROVE  Inv'
  <1>1. th \in Crew(t)
    BY DEF StopCaller, Crew
  <1>2. CASE OnCompleted(th, t, back)
    BY <1>1, <1>2, OnCompletedStep
  <1>3. CASE ~OnCompleted(th, t, back)
    <2> USE ThreadsDiffer
        DEF Inv, TypeOK, RequestLabels, SpecLabels, SessionLabels, StopperLabels, Statuses,
            SessionStates, ThreadOrder, ArchiveOrder, RegistryIsPartition, Registered,
            IdentifiedArchivedOnce, StatusOrder, CompletedWasInSession, ReturnsIdUnlessFailed,
            WakeupOrder, SignalPending, ContentsOrder, ArchivedContentsAreClosed, At, Crew, Goto
    <2>1. CASE CheckStoppable(th, t)
      BY <2>1 DEF CheckStoppable, StopCaller
    <2>2. CASE FaspexStop(th, t)
      BY <2>2 DEF FaspexStop, StopCaller
    <2>3. CASE FaspexStopFails(th, t)
      BY <2>3 DEF FaspexStopFails, StopCaller
    <2>4. CASE SetStopped(th, t)
      BY <2>4 DEF SetStopped, StopCaller
    <2> QED BY <1>3, <2>1, <2>2, <2>3, <2>4 DEF Stop
  <1> QED BY <1>2, <1>3

-----------------------------------------------------------------------------
(* The request thread *)

LEMMA RequestStep ==
    ASSUME Inv, NEW t \in Transfers,
           \/ CheckMaxNumberOfRequests(t)
           \/ StartTransfer(t)
           \/ AwaitTimesOut(t)
           \/ AwaitInterrupted(t)
    PROVE  Inv'
  <1>1. CASE pc[SpecThread(t)] = "off" /\ OnFailed(RequestThread(t), t, "wait")
    BY <1>1, OnFailedStep DEF FailedCaller, GoesOn
  <1>2. CASE pc[SpecThread(t)] # "off" /\ Stop(RequestThread(t), t, "threw")
    BY <1>2, StopStep DEF StopCaller, GoesOn
  <1>3. CASE \/ CheckMaxNumberOfRequests(t)
             \/ AwaitTimesOut(t)
             \/ AwaitInterrupted(t)
             \/ AddTransfer(t) \/ PrepareContents(t) \/ PrepareContentsFails(t)
             \/ SendPackage(t) \/ SendPackageRefused(t) \/ SendPackageFails(t)
             \/ CheckPending(t) \/ Await(t) \/ AwaitSignalled(t) \/ GiveUp(t)
    <2> USE ThreadsDiffer
        DEF Inv, TypeOK, RequestLabels, SpecLabels, SessionLabels, StopperLabels, Statuses,
            SessionStates, ThreadOrder, ArchiveOrder, RegistryIsPartition, Registered,
            IdentifiedArchivedOnce, StatusOrder, CompletedWasInSession, ReturnsIdUnlessFailed,
            WakeupOrder, SignalPending, ContentsOrder, ArchivedContentsAreClosed, At, Crew, Goto
    <2>1. CASE CheckMaxNumberOfRequests(t)
      BY <2>1 DEF CheckMaxNumberOfRequests
    <2>2. CASE AwaitTimesOut(t)
      BY <2>2 DEF AwaitTimesOut
    <2>3. CASE AwaitInterrupted(t)
      BY <2>3 DEF AwaitInterrupted
    <2>4. CASE AddTransfer(t)
      BY <2>4 DEF AddTransfer
    <2>5. CASE PrepareContents(t)
      BY <2>5 DEF PrepareContents
    <2>6. CASE PrepareContentsFails(t)
      BY <2>6 DEF PrepareContentsFails
    <2>7. CASE SendPackage(t)
      <3> USE <2>7 DEF SendPackage
      <3>1. TypeOK'
        BY SMTT(30)
      <3>2. ThreadOrder' /\ ArchiveOrder'
        BY SMTT(30)
      <3>3. StatusOrder'
        BY SMTT(30)
      <3>4. WakeupOrder' /\ ContentsOrder'
        BY SMTT(30)
      <3> QED
        BY <3>1, <3>2, <3>3, <3>4
    <2>8. CASE SendPackageRefused(t)
      BY <2>8 DEF SendPackageRefused
    <2>9. CASE SendPackageFails(t)
      BY <2>9 DEF SendPackageFails
    <2>10. CASE CheckPending(t)
      BY <2>10 DEF CheckPending
    <2>11. CASE Await(t)
      BY <2>11 DEF Await
    <2>12. CASE AwaitSignalled(t)
      BY <2>12 DEF AwaitSignalled
    <2>13. CASE GiveUp(t)
      BY <2>13 DEF GiveUp
    <2> QED BY <1>3, <2>1, <2>2, <2>3, <2>4, <2>5, <2>6, <2>7, <2>8, <2>9, <2>10, <2>11, <2>12, <2>13
  <1> QED BY <1>1, <1>2, <1>3 DEF StartTransfer

-----------------------------------------------------------------------------
(* The threads of the library *)

LEMMA TransferSpecStep ==
    ASSUME Inv, NEW t \in Transfers, TransferSpec(t)
    PROVE  Inv'
  <1>1. CASE OnFailed(SpecThread(t), t, "over")
    BY <1>1, OnFailedStep DEF FailedCaller, GoesOn
  <1>2. CASE ~OnFailed(SpecThread(t), t, "over")
    <2> USE ThreadsDiffer
        DEF Inv, TypeOK, RequestLabels, SpecLabels, SessionLabels, StopperLabels, Statuses,
            SessionStates, ThreadOrder, ArchiveOrder, RegistryIsPartition, Registered,
            IdentifiedArchivedOnce, StatusOrder, CompletedWasInSession, ReturnsIdUnlessFailed,
            WakeupOrder, SignalPending, ContentsOrder, ArchivedContentsAreClosed, At, Crew, Goto
    <2>1. CASE OnTransferSpecReceived(t)
      BY <2>1 DEF OnTransferSpecReceived
    <2>2. CASE TransferSpecFails(t)
      BY <2>2 DEF TransferSpecFails
    <2>3. CASE OpenSession(t)
      BY <2>3 DEF OpenSession
    <2>4. CASE OnDone(t)
      BY <2>4 DEF OnDone
    <2> QED BY <1>2, <2>1, <2>2, <2>3, <2>4 DEF TransferSpec
  <1> QED BY <1>1, <1>2

LEMMA SessionStep ==
    ASSUME Inv, NEW t \in Transfers,
           \/ OnSessionStart(t) \/ OnFileStart(t) \/ OnFileError(t)
           \/ OnSessionError(t) \/ OnSessionStop(t)
    PROVE  Inv'
  <1> USE ThreadsDiffer
      DEF Inv, TypeOK, RequestLabels, SpecLabels, SessionLabels, StopperLabels, Statuses,
          SessionStates, ThreadOrder, ArchiveOrder, RegistryIsPartition, Registered,
          IdentifiedArchivedOnce, StatusOrder, CompletedWasInSession, ReturnsIdUnlessFailed,
          WakeupOrder, SignalPending, ContentsOrder, ArchivedContentsAreClosed, At, Crew, Goto
  <1>1. CASE OnSessionStart(t)
    BY <1>1 DEF OnSessionStart, Delivers
  <1>2. CASE OnFileStart(t)
    BY <1>2 DEF OnFileStart, Delivers
  <1>3. CASE OnFileError(t)
    BY <1>3 DEF OnFileError, Delivers
  <1>4. CASE OnSessionError(t)
    BY <1>4 DEF OnSessionError, Delivers
  <1>5. CASE OnSessionStop(t)
    BY <1>5 DEF OnSessionStop, Delivers
  <1> QED BY <1>1, <1>2, <1>3, <1>4, <1>5

LEMMA TransferEventStep ==
    ASSUME Inv, NEW t \in Transfers, OnTransferEvent(t)
    PROVE  Inv'
  BY OnStartedStep, OnFailedStep DEF OnTransferEvent, FailedCaller, GoesOn

-----------------------------------------------------------------------------
(* Stop requests *)

(* Between two transfers a stop request takes up the next or leaves the    *)
(* last; it disturbs nothing else.                                         *)
LEMMA TargetStep ==
    ASSUME Inv, NEW s \in Stoppers, pc[StopThread(s)] \in {"ready", "next"},
           NEW label \in {"ready", "next", "stop"}, Goto(StopThread(s), label),
           NEW new \in Transfers \cup {NoTransfer}, target' = [target EXCEPT ![s] = new],
           new \in Transfers => new \in identified,
           label = "stop" => new \in Transfers,
           packageIds' \in [Stoppers -> SUBSET identified],
           stopped' \in [Stoppers -> SUBSET Transfers],
           UNCHANGED <<summary, registry, openContents, library>>
    PROVE  Inv'
  <1>1. /\ pc'[StopThread(s)] = label
        /\ \A x \in Threads : x # StopThread(s) => pc'[x] = pc[x]
        /\ target'[s] = new
        /\ \A r \in Stoppers : r # s => target'[r] = target[r]
    BY ThreadsDiffer DEF Inv, TypeOK, Goto
  <1>2. \A u \in Transfers : \A x \in Crew(u)' :
           x \in Threads /\ (x = StopThread(s) \/ x \in Crew(u))
    BY <1>1, ThreadsDiffer DEF Crew
  <1>3. \A u \in Transfers : \A labels \in SUBSET {"setCompleted", "archive"} :
           At(u, labels)' => At(u, labels)
    BY <1>1, <1>2 DEF At
  <1>4. TypeOK'
    <2>1. pc' \in [Threads -> RequestLabels \cup SpecLabels
                                 \cup SessionLabels \cup StopperLabels]
      BY ThreadsDiffer DEF Inv, TypeOK, Goto, StopperLabels
    <2>2. \A u \in Transfers : /\ pc'[RequestThread(u)] = pc[RequestThread(u)]
                               /\ pc'[SpecThread(u)] = pc[SpecThread(u)]
                               /\ pc'[SessionThread(u)] = pc[SessionThread(u)]
      BY <1>1, ThreadsDiffer
    <2>3. ASSUME NEW r \in Stoppers
          PROVE  /\ pc'[StopThread(r)] \in StopperLabels
                 /\ pc'[StopThread(r)] \in StopLabels \cup CompletedLabels
                       => target'[r] \in Transfers
      <3>1. CASE r = s
        BY <1>1, <3>1 DEF StopperLabels
      <3>2. CASE r # s
        <4>1. pc'[StopThread(r)] = pc[StopThread(r)] /\ target'[r] = target[r]
          BY <1>1, <3>2, ThreadsDiffer
        <4> QED BY <4>1 DEF Inv, TypeOK
      <3> QED BY <3>1, <3>2
    <2>4. target' \in [Stoppers -> Transfers \cup {NoTransfer}]
      BY DEF Inv, TypeOK
    <2>5. packageIds' \in [Stoppers -> SUBSET Transfers]
      BY DEF Inv, TypeOK
    <2> QED BY <2>1, <2>2, <2>3, <2>4, <2>5 DEF Inv, TypeOK
  <1>5. ThreadOrder'
    <2>1. ASSUME NEW u \in Transfers, NEW r \in Stoppers,
                 target'[r] = u \/ u \in packageIds'[r]
          PROVE  u \in identified
      <3>1. CASE u \in packageIds'[r]
        BY <2>1, <3>1
      <3>2. CASE target'[r] = u /\ r = s
        BY <1>1, <2>1, <3>2
      <3>3. CASE target'[r] = u /\ r # s
        BY <1>1, <2>1, <3>3 DEF Inv, ThreadOrder
      <3> QED BY <2>1, <3>1, <3>2, <3>3
    <2>2. \A u \in Transfers : /\ pc'[RequestThread(u)] = pc[RequestThread(u)]
                               /\ pc'[SpecThread(u)] = pc[SpecThread(u)]
                               /\ pc'[SessionThread(u)] = pc[SessionThread(u)]
      BY <1>1, ThreadsDiffer
    <2> QED BY <2>1, <2>2 DEF Inv, ThreadOrder
  <1>6. ArchiveOrder'
    BY <1>1, ThreadsDiffer
       DEF Inv, ArchiveOrder, RegistryIsPartition, Registered, IdentifiedArchivedOnce
  <1>7. StatusOrder'
    BY <1>1, <1>3, ThreadsDiffer DEF Inv, StatusOrder, CompletedWasInSession, ReturnsIdUnlessFailed
  <1>8. WakeupOrder'
    BY <1>1, <1>3, ThreadsDiffer DEF Inv, WakeupOrder, SignalPending
  <1>9. ContentsOrder'
    BY <1>3 DEF Inv, ContentsOrder, ArchivedContentsAreClosed
  <1> QED BY <1>4, <1>5, <1>6, <1>7, <1>8, <1>9 DEF Inv

LEMMA StopNextStep ==
    ASSUME Inv, NEW s \in Stoppers, StopNext(s)
    PROVE  Inv'
  <1>1. PICK t \in packageIds[s] :
           /\ packageIds' = [packageIds EXCEPT ![s] = @ \ {t}]
           /\ IF t \in running
              THEN Goto(StopThread(s), "stop") /\ target' = [target EXCEPT ![s] = t]
              ELSE UNCHANGED <<pc, target>>
    BY DEF StopNext
  <1>2. t \in Transfers /\ packageIds' \in [Stoppers -> SUBSET identified]
    <2>1. packageIds \in [Stoppers -> SUBSET Transfers]
      BY DEF Inv, TypeOK
    <2>2. packageIds \in [Stoppers -> SUBSET identified]
      BY <2>1 DEF Inv, ThreadOrder
    <2> QED BY <1>1, <2>1, <2>2
  <1>3. CASE t \in running
    <2>1. t \in identified
      BY <1>1, <1>2 DEF Inv, ThreadOrder
    <2> QED BY <1>1, <1>2, <1>3, <2>1, TargetStep DEF Inv, TypeOK, StopNext
  <1>4. CASE t \notin running
    BY <1>1, <1>2, <1>4
       DEF StopNext, Inv, TypeOK, ThreadOrder, ArchiveOrder, RegistryIsPartition, Registered,
           IdentifiedArchivedOnce, StatusOrder, CompletedWasInSession, ReturnsIdUnlessFailed,
           WakeupOrder, SignalPending, ContentsOrder, ArchivedContentsAreClosed, At, Crew
  <1> QED BY <1>3, <1>4

LEMMA StopRequestStep ==
    ASSUME Inv, NEW s \in Stoppers,
           StopTransfers(s) \/ StopAllTransfers(s) \/ StopReturns(s)
    PROVE  Inv'
  <1>0. packageIds \in [Stoppers -> SUBSET identified]
    <2>1. packageIds \in [Stoppers -> SUBSET Transfers]
      BY DEF Inv, TypeOK
    <2> QED BY <2>1 DEF Inv, ThreadOrder
  <1>1. target \in [Stoppers -> Transfers \cup {NoTransfer}]
    BY DEF Inv, TypeOK
  <1>2. CASE StopTransfers(s)
    <2>1. packageIds' \in [Stoppers -> SUBSET identified]
      BY <1>0, <1>2 DEF StopTransfers
    <2>2. target' = [target EXCEPT ![s] = target[s]]
      BY <1>1, <1>2 DEF StopTransfers
    <2> QED BY <1>1, <1>2, <2>1, <2>2, TargetStep DEF StopTransfers, Inv, TypeOK, ThreadOrder
  <1>3. CASE StopAllTransfers(s)
    <2>1. packageIds' \in [Stoppers -> SUBSET identified]
      BY <1>0, <1>3 DEF StopAllTransfers
    <2>2. target' = [target EXCEPT ![s] = target[s]]
      BY <1>1, <1>3 DEF StopAllTransfers
    <2> QED BY <1>1, <1>3, <2>1, <2>2, TargetStep DEF StopAllTransfers, Inv, TypeOK, ThreadOrder
  <1>4. CASE StopReturns(s)
    <2>1. stopped' \in [Stoppers -> SUBSET Transfers]
      BY <1>4 DEF StopReturns, Inv, TypeOK
    <2> QED BY <1>0, <1>4, <2>1, TargetStep, ConstantsAssumption DEF StopReturns, Inv, TypeOK
  <1> QED BY <1>2, <1>3, <1>4

-----------------------------------------------------------------------------
(* No thread has moved: no part of the invariant can be violated yet. *)
LEMMA InitStep ==
    ASSUME Init
    PROVE  Inv
  <1>1. /\ \A t \in Transfers : /\ pc[RequestThread(t)] = "new"
                                /\ pc[SpecThread(t)] = "off"
                                /\ pc[SessionThread(t)] = "fresh"
        /\ \A s \in Stoppers : pc[StopThread(s)] = "ready"
        /\ pc \in [Threads -> {"new", "off", "fresh", "ready"}]
    <2>1. /\ \A t : /\ RequestThread(t) \notin SpecThreads \cup SessionThreads \cup StopThreads
                    /\ SpecThread(t) \notin RequestThreads \cup SessionThreads \cup StopThreads
                    /\ SessionThread(t) \notin RequestThreads \cup SpecThreads \cup StopThreads
                    /\ StopThread(t) \notin RequestThreads \cup SpecThreads \cup SessionThreads
      BY ThreadsDiffer DEF RequestThreads, SpecThreads, SessionThreads, StopThreads
    <2>2. /\ \A t \in Transfers : /\ RequestThread(t) \in RequestThreads
                                  /\ SpecThread(t) \in SpecThreads
                                  /\ SessionThread(t) \in SessionThreads
          /\ \A s \in Stoppers : StopThread(s) \in StopThreads
      BY DEF RequestThreads, SpecThreads, SessionThreads, StopThreads
    <2>3. \A t \in Transfers : pc[RequestThread(t)] = "new"
      BY <2>1, <2>2 DEF Init, Threads
    <2>4. \A t \in Transfers : pc[SpecThread(t)] = "off"
      BY <2>1, <2>2 DEF Init, Threads
    <2>5. \A t \in Transfers : pc[SessionThread(t)] = "fresh"
      BY <2>1, <2>2 DEF Init, Threads
    <2>6. \A s \in Stoppers : pc[StopThread(s)] = "ready"
      BY <2>1, <2>2 DEF Init, Threads
    <2>7. ASSUME NEW th \in Threads PROVE pc[th] \in {"new", "off", "fresh", "ready"}
      BY <2>3, <2>4, <2>5, <2>6
         DEF Threads, RequestThreads, SpecThreads, SessionThreads, StopThreads
    <2> QED BY <2>3, <2>4, <2>5, <2>6, <2>7 DEF Init
  <1>2. TypeOK
    BY <1>1, ConstantsAssumption
       DEF Init, TypeOK, RequestLabels, SpecLabels, SessionLabels, StopperLabels,
           Statuses, SessionStates
  <1>3. ThreadOrder
    BY <1>1, ConstantsAssumption DEF Init, ThreadOrder
  <1>4. ArchiveOrder
    BY <1>1 DEF Init, ArchiveOrder, RegistryIsPartition, Registered, IdentifiedArchivedOnce
  <1>5. \A t \in Transfers, labels \in SUBSET {"setCompleted", "archive"} : ~At(t, labels)
    BY <1>1 DEF At, Crew
  <1>6. StatusOrder
    BY <1>1, <1>5 DEF Init, StatusOrder, CompletedWasInSession, ReturnsIdUnlessFailed
  <1>7. WakeupOrder
    BY <1>1 DEF Init, WakeupOrder
  <1>8. ContentsOrder
    BY <1>5 DEF Init, ContentsOrder, ArchivedContentsAreClosed
  <1> QED BY <1>2, <1>3, <1>4, <1>6, <1>7, <1>8 DEF Inv

(* Every step of every thread preserves the invariant. *)
LEMMA NextStep ==
    ASSUME Inv, Next
    PROVE  Inv'
  <1>1. CASE \E t \in Transfers :
                \/ CheckMaxNumberOfRequests(t) \/ StartTransfer(t)
                \/ AwaitTimesOut(t) \/ AwaitInterrupted(t)
    BY <1>1, RequestStep
  <1>2. CASE \E t \in Transfers : TransferSpec(t)
    BY <1>2, TransferSpecStep
  <1>3. CASE \E t \in Transfers :
                OnSessionStart(t) \/ OnFileStart(t) \/ OnFileError(t) \/ SessionEnds(t)
    BY <1>3, SessionStep DEF SessionEnds
  <1>4. CASE \E t \in Transfers : OnTransferEvent(t)
    BY <1>4, TransferEventStep
  <1>5. CASE \E s \in Stoppers : StopTransfers(s) \/ StopAllTransfers(s)
    BY <1>5, StopRequestStep
  <1>6. CASE \E s \in Stoppers : ServeStop(s)
    <2>1. PICK s \in Stoppers : ServeStop(s)
      BY <1>6
    <2>2. CASE StopNext(s) \/ StopReturns(s)
      BY <2>2, StopNextStep, StopRequestStep
    <2>3. CASE \E t \in Transfers : target[s] = t /\ Stop(StopThread(s), t, "next")
      BY <2>3, StopStep DEF StopCaller, GoesOn
    <2> QED BY <2>1, <2>2, <2>3 DEF ServeStop
  <1> QED BY <1>1, <1>2, <1>3, <1>4, <1>5, <1>6 DEF Next

(* A step that changes nothing preserves the invariant. *)
LEMMA StutterStep ==
    ASSUME Inv, UNCHANGED vars
    PROVE  Inv'
  BY DEF vars, Inv, TypeOK, ThreadOrder, ArchiveOrder, RegistryIsPartition, Registered,
     IdentifiedArchivedOnce, StatusOrder, CompletedWasInSession, ReturnsIdUnlessFailed,
     WakeupOrder, SignalPending, ContentsOrder, ArchivedContentsAreClosed, At, Crew

(* In every interleaving of the request, spec, session and stop threads of *)
(* any number of transfers, the threads of each transfer keep the order    *)
(* that the parts of Inv describe.                                         *)
THEOREM Invariance == Spec => []Inv
  <1>1. Init => Inv
    BY InitStep
  <1>2. Inv /\ [Next]_vars => Inv'
    BY NextStep, StutterStep
  <1> QED BY <1>1, <1>2, PTL DEF Spec

(* Every variable of the server keeps its type; in particular a stop       *)
(* request never works on a transfer that getTransfer did not find.        *)
THEOREM TypeCorrectness == Spec => []TypeOK
  <1>1. Inv => TypeOK
    BY DEF Inv
  <1> QED BY <1>1, Invariance, PTL

(* addTransfer and archiveTransfer: a registered transfer is in exactly    *)
(* one of the two lists of Transfers.                                      *)
THEOREM RegistrySafety == Spec => []RegistryIsPartition
  <1>1. Inv => RegistryIsPartition
    BY DEF Inv, ArchiveOrder
  <1> QED BY <1>1, Invariance, PTL

(* archiveTransfer: a package with an Id is archived at most once, however *)
(* many threads run onCompleted for it.                                    *)
THEOREM ArchiveSafety == Spec => []IdentifiedArchivedOnce
  <1>1. Inv => IdentifiedArchivedOnce
    BY DEF Inv, ArchiveOrder
  <1> QED BY <1>1, Invariance, PTL

(* waitForSignal and sendSignal: no request is left parked by a change of  *)
(* status whose signal was sent too early.                                 *)
THEOREM WakeupSafety == Spec => []NoLostWakeup
  <1>1. Inv => NoLostWakeup
    BY DEF Inv, WakeupOrder, NoLostWakeup
  <1> QED BY <1>1, Invariance, PTL

(* start: it returns normally with a package Id or for a failed transfer.  *)
THEOREM ReturnSafety == Spec => []ReturnsIdUnlessFailed
  <1>1. Inv => ReturnsIdUnlessFailed
    BY DEF Inv, StatusOrder
  <1> QED BY <1>1, Invariance, PTL

(* onCompleted: COMPLETED is reported only for a package that was in a     *)
(* session.                                                                *)
THEOREM CompletionSafety == Spec => []CompletedWasInSession
  <1>1. Inv => CompletedWasInSession
    BY DEF Inv, StatusOrder
  <1> QED BY <1>1, Invariance, PTL

(* onCompleted: what is archived has no open input stream.                 *)
THEOREM ContentsSafety == Spec => []ArchivedContentsAreClosed
  <1>1. Inv => ArchivedContentsAreClosed
    BY DEF Inv, ContentsOrder
  <1> QED BY <1>1, Invariance, PTL

-----------------------------------------------------------------------------
(* The registry implements its abstraction. *)

(* Two kinds of steps write the registry. *)
LEMMA RegistryWriters ==
    ASSUME Next
    PROVE  \/ UNCHANGED registry
           \/ \E t \in Transfers : AddTransfer(t)
           \/ \E t \in Transfers : \E th \in Crew(t) : \E back : ArchiveTransfer(th, t, back)
  <1> DEFINE Archives(t) == \E th \in Crew(t) : \E back : ArchiveTransfer(th, t, back)
  <1>1. ASSUME NEW t \in Transfers, NEW th \in Crew(t), NEW back,
               OnFailed(th, t, back) \/ OnCompleted(th, t, back)
        PROVE  UNCHANGED registry \/ Archives(t)
    <2>1. CASE ArchiveTransfer(th, t, back)
      BY <2>1
    <2>2. CASE ~ArchiveTransfer(th, t, back)
      BY <1>1, <2>2 DEF OnFailed, OnCompleted, SetFailed, SendSignal, CloseContents, SetCompleted
    <2> QED BY <2>1, <2>2
  <1>2. ASSUME NEW t \in Transfers, NEW th \in Crew(t), NEW back, Stop(th, t, back)
        PROVE  UNCHANGED registry \/ Archives(t)
    <2>1. CASE OnCompleted(th, t, back)
      BY <1>1, <2>1
    <2>2. CASE ~OnCompleted(th, t, back)
      BY <1>2, <2>2 DEF Stop, CheckStoppable, FaspexStop, FaspexStopFails, SetStopped
    <2> QED BY <2>1, <2>2
  <1>3. ASSUME NEW t \in Transfers, StartTransfer(t)
        PROVE  UNCHANGED registry \/ AddTransfer(t) \/ Archives(t)
    <2>1. RequestThread(t) \in Crew(t)
      BY DEF Crew
    <2>2. CASE OnFailed(RequestThread(t), t, "wait") \/ Stop(RequestThread(t), t, "threw")
      BY <1>1, <1>2, <2>1, <2>2
    <2>3. CASE ~(OnFailed(RequestThread(t), t, "wait") \/ Stop(RequestThread(t), t, "threw"))
      BY <1>3, <2>3
         DEF StartTransfer, PrepareContents, PrepareContentsFails, SendPackage,
             SendPackageRefused, SendPackageFails, CheckPending, Await, AwaitSignalled, GiveUp
    <2> QED BY <2>2, <2>3
  <1>4. ASSUME NEW t \in Transfers, TransferSpec(t) \/ OnTransferEvent(t)
        PROVE  UNCHANGED registry \/ Archives(t)
    <2>1. SpecThread(t) \in Crew(t) /\ SessionThread(t) \in Crew(t)
      BY DEF Crew
    <2>2. CASE OnFailed(SpecThread(t), t, "over") \/ OnFailed(SessionThread(t), t, "listening")
      BY <1>1, <2>1, <2>2
    <2>3. CASE ~(OnFailed(SpecThread(t), t, "over") \/ OnFailed(SessionThread(t), t, "listening"))
      BY <1>4, <2>3
         DEF TransferSpec, OnTransferEvent, OnTransferSpecReceived, TransferSpecFails,
             OpenSession, OnDone, OnStarted, SetStarted, SendSignal
    <2> QED BY <2>2, <2>3
  <1>5. ASSUME NEW s \in Stoppers, ServeStop(s)
        PROVE  UNCHANGED registry \/ \E t \in Transfers : Archives(t)
    <2>1. CASE StopNext(s) \/ StopReturns(s)
      BY <2>1 DEF StopNext, StopReturns
    <2>2. CASE \E t \in Transfers : target[s] = t /\ Stop(StopThread(s), t, "next")
      <3>1. PICK t \in Transfers : target[s] = t /\ Stop(StopThread(s), t, "next")
        BY <2>2
      <3>2. StopThread(s) \in Crew(t)
        BY <3>1 DEF Crew
      <3> QED BY <1>2, <3>1, <3>2
    <2> QED BY <1>5, <2>1, <2>2 DEF ServeStop
  <1>6. CASE \E t \in Transfers : \/ StartTransfer(t) \/ TransferSpec(t) \/ OnTransferEvent(t)
    BY <1>3, <1>4, <1>6
  <1>7. CASE \E s \in Stoppers : ServeStop(s)
    BY <1>5, <1>7
  <1>8. CASE \/ \E t \in Transfers : \/ CheckMaxNumberOfRequests(t) \/ AwaitTimesOut(t)
                                     \/ AwaitInterrupted(t) \/ OnSessionStart(t)
                                     \/ OnFileStart(t) \/ OnFileError(t) \/ SessionEnds(t)
             \/ \E s \in Stoppers : StopTransfers(s) \/ StopAllTransfers(s)
    BY <1>8
       DEF CheckMaxNumberOfRequests, AwaitTimesOut, AwaitInterrupted, OnSessionStart,
           OnFileStart, OnFileError, SessionEnds, OnSessionError, OnSessionStop,
           StopTransfers, StopAllTransfers
  <1> QED BY <1>6, <1>7, <1>8 DEF Next

(* addTransfer registers an absent transfer; archiveTransfer archives a    *)
(* running one or finds it archived.                                       *)
LEMMA RegistryStep ==
    ASSUME Inv, [Next]_vars
    PROVE  [Registry!Next]_Phase
  <1>1. CASE UNCHANGED registry
    BY <1>1 DEF Phase
  <1>2. ASSUME NEW t \in Transfers, AddTransfer(t)
        PROVE  Registry!Register(t)
    <2>1. t \notin running /\ recentArchives[t] = 0 /\ recentArchives \in [Transfers -> Nat]
      BY <1>2 DEF AddTransfer, Inv, TypeOK, ArchiveOrder, RegistryIsPartition, Registered
    <2>2. Phase[t] = "absent"
      BY <2>1 DEF Phase
    <2>3. Phase' = [Phase EXCEPT ![t] = "running"]
      BY <1>2, <2>1 DEF AddTransfer, Phase
    <2> QED BY <2>2, <2>3 DEF Registry!Register
  <1>3. ASSUME NEW t \in Transfers, NEW th \in Crew(t), NEW back, ArchiveTransfer(th, t, back)
        PROVE  Registry!Archive(t) \/ UNCHANGED Phase
    <2>1. t \in running \/ recentArchives[t] > 0
      BY <1>3, ArchiverIsRegistered DEF ArchiveTransfer
    <2>2. recentArchives \in [Transfers -> Nat]
      BY DEF Inv, TypeOK
    <2>3. CASE t \in running
      <3>1. recentArchives[t] = 0
        BY <2>3 DEF Inv, ArchiveOrder, RegistryIsPartition
      <3>2. recentArchives' = [recentArchives EXCEPT ![t] = 1] /\ running' = running \ {t}
        BY <1>3, <2>2, <3>1 DEF ArchiveTransfer, Archived
      <3>3. Phase'[t] = "archived"
        BY <2>2, <3>2 DEF Phase
      <3>4. \A u \in Transfers : u # t => Phase'[u] = Phase[u]
        BY <2>2, <3>2 DEF Phase
      <3>5. Phase' = [Phase EXCEPT ![t] = "archived"]
        BY <3>3, <3>4 DEF Phase
      <3> QED BY <2>3, <3>5 DEF Phase, Registry!Archive
    <2>4. CASE t \notin running
      <3>1. running' = running
        BY <1>3, <2>4 DEF ArchiveTransfer
      <3>2. \A u \in Transfers : recentArchives'[u] > 0 <=> recentArchives[u] > 0
        BY <1>3, <2>1, <2>2, <2>4 DEF ArchiveTransfer
      <3> QED BY <3>1, <3>2 DEF Phase
    <2> QED BY <2>3, <2>4
  <1>4. CASE UNCHANGED vars
    BY <1>4 DEF vars, Phase
  <1>5. CASE Next
    BY <1>1, <1>2, <1>3, <1>5, RegistryWriters DEF Registry!Next
  <1> QED BY <1>4, <1>5

(* The two lists of Transfers, under every interleaving of their users,    *)
(* behave like the abstract registry: a package is registered once, then   *)
(* archived, and is found from its registration on.                        *)
THEOREM Refinement == Spec => ImplementsRegistry
  <1>1. Init => Registry!Init
    BY DEF Init, Registry!Init, Phase
  <1>2. Inv /\ [Next]_vars => [Registry!Next]_Phase
    BY RegistryStep
  <1> QED BY <1>1, <1>2, Invariance, PTL DEF Spec, ImplementsRegistry, Registry!Spec

-----------------------------------------------------------------------------
(* The status of each transfer implements its abstraction. *)

(* What a step does to a transfer, seen from outside.                      *)
StatusStep(t) == [Status(t)!Next]_(Status(t)!vars)

(* A step of the threads of t moves nobody else.                           *)
Moves(t) ==
    /\ \A x \in Threads \ Crew(t) : pc'[x] = pc[x]
    /\ UNCHANGED target
    /\ \A u \in Transfers : u # t => /\ status'[u] = status[u] /\ session'[u] = session[u]
                                     /\ u \in started' <=> u \in started

(* So only the transfer whose threads move has to be looked at.            *)
LEMMA OthersKeep ==
    ASSUME Inv, StartInv, NEW t \in Transfers, Moves(t), StartOrder(t)', StatusStep(t)
    PROVE  StartInv' /\ \A u \in Transfers : StatusStep(u)
<1>1. \A u \in Transfers : u # t => \A x \in Crew(u) : pc'[x] = pc[x]
  BY CrewsDiffer DEF Moves
<1>2. \A u \in Transfers : {RequestThread(u), SpecThread(u), SessionThread(u)} \subseteq Crew(u)
  BY DEF Crew
<1>3. \A u \in Transfers : Crew(u)' = Crew(u)
  BY DEF Crew, Moves
<1>4. ASSUME NEW u \in Transfers, u # t PROVE StatusStep(u)
  BY <1>1, <1>2, <1>4 DEF StatusStep, Status!vars, Settled, Moves
<1>5. ASSUME NEW u \in Transfers, u # t PROVE StartOrder(u)'
  <2>1. At(u, {"setCompleted"})' <=> At(u, {"setCompleted"})
    BY <1>1, <1>3, <1>5 DEF At
  <2> QED
    BY <1>1, <1>2, <1>5, <2>1 DEF StartInv, StartOrder, Settled, Moves
<1> QED BY <1>4, <1>5 DEF StartInv

(* The methods of Transfer, on whatever thread of t they run.              *)
LEMMA MethodMoves ==
    ASSUME Inv, NEW t \in Transfers, NEW th \in Crew(t), NEW back,
           \/ OnStarted(th, t, back) \/ OnFailed(th, t, back) \/ Stop(th, t, back)
    PROVE  Moves(t)
<1>1. RequestThread(t) \in Crew(t)
  BY DEF Crew
<1> USE DEF Moves, Goto, Inv, TypeOK
<1>2. CASE OnCompleted(th, t, back)
  BY <1>2 DEF OnCompleted, CloseContents, SetCompleted, ArchiveTransfer
<1>3. CASE \E label, b : SendSignal(th, t, label, b)
  BY <1>1, <1>3 DEF SendSignal
<1>4. CASE SetStarted(th, t) \/ SetFailed(th, t)
  BY <1>4 DEF SetStarted, SetFailed
<1>5. CASE CheckStoppable(th, t) \/ FaspexStop(th, t) \/ FaspexStopFails(th, t) \/ SetStopped(th, t)
  BY <1>5 DEF CheckStoppable, FaspexStop, FaspexStopFails, SetStopped
<1> QED BY <1>2, <1>3, <1>4, <1>5 DEF OnStarted, OnFailed, Stop

(* Every step of a send request and of the library moves one transfer.     *)
LEMMA TransferMoves ==
    ASSUME Inv, NEW t \in Transfers,
           \/ CheckMaxNumberOfRequests(t) \/ StartTransfer(t)
           \/ AwaitTimesOut(t) \/ AwaitInterrupted(t)
           \/ TransferSpec(t) \/ OnSessionStart(t) \/ OnFileStart(t) \/ OnFileError(t)
           \/ SessionEnds(t) \/ OnTransferEvent(t)
    PROVE  Moves(t)
<1>1. {RequestThread(t), SpecThread(t), SessionThread(t)} \subseteq Crew(t)
  BY DEF Crew
<1>2. CASE \/ OnFailed(RequestThread(t), t, "wait") \/ Stop(RequestThread(t), t, "threw")
           \/ OnFailed(SpecThread(t), t, "over") \/ OnTransferEvent(t)
  BY <1>1, <1>2, MethodMoves DEF OnTransferEvent
<1>3. CASE \/ CheckMaxNumberOfRequests(t) \/ AwaitTimesOut(t) \/ AwaitInterrupted(t)
           \/ AddTransfer(t) \/ PrepareContents(t) \/ PrepareContentsFails(t)
           \/ SendPackage(t) \/ SendPackageRefused(t) \/ SendPackageFails(t)
           \/ CheckPending(t) \/ Await(t) \/ AwaitSignalled(t) \/ GiveUp(t)
  BY <1>1, <1>3
     DEF Moves, Goto, Inv, TypeOK, CheckMaxNumberOfRequests, AwaitTimesOut, AwaitInterrupted,
         AddTransfer, PrepareContents, PrepareContentsFails, SendPackage, SendPackageRefused,
         SendPackageFails, CheckPending, Await, AwaitSignalled, GiveUp
<1>4. CASE \/ OnTransferSpecReceived(t) \/ TransferSpecFails(t) \/ OpenSession(t) \/ OnDone(t)
           \/ OnSessionStart(t) \/ OnFileStart(t) \/ OnFileError(t) \/ SessionEnds(t)
  BY <1>1, <1>4
     DEF Moves, Goto, Inv, TypeOK, OnTransferSpecReceived, TransferSpecFails, OpenSession, OnDone,
         OnSessionStart, OnFileStart, OnFileError, SessionEnds, OnSessionError, OnSessionStop
<1> QED BY <1>2, <1>3, <1>4 DEF StartTransfer, TransferSpec

(* The following lemmas show, for each kind of thread, that a step of t    *)
(* keeps what holds before the start, and is one of the abstract status.   *)
(* COMPLETED is written by a thread that has read STARTED.                 *)
LEMMA CompletedStart ==
    ASSUME Inv, StartInv, NEW t \in Transfers, NEW th \in Crew(t), NEW back, GoesOn(th, t, back),
           OnCompleted(th, t, back)
    PROVE  StartOrder(t)' /\ StatusStep(t)
<1>1. CASE CloseContents(th, t) \/ SetCompleted(th, t)
  <2> USE ThreadsDiffer
      DEF Inv, TypeOK, ThreadOrder, StatusOrder, StartInv, StartOrder, At, Crew, Goto,
          StatusStep, Status!vars, Status!Next, Status!End, Status!Settle, Status!Start,
          Status!Final, Settled
  <2>1. CASE CloseContents(th, t)
    BY <2>1 DEF CloseContents
  <2>2. CASE SetCompleted(th, t)
    BY <2>2 DEF SetCompleted
  <2> QED BY <1>1, <2>1, <2>2
<1>2. CASE ArchiveTransfer(th, t, back)
  <2>1. /\ pc[th] = "archive" /\ pc'[th] = back
        /\ \A x \in Threads : x # th => pc'[x] = pc[x]
        /\ At(t, {"setCompleted"})' => At(t, {"setCompleted"}) \/ back = "setCompleted"
        /\ UNCHANGED <<status, started, session>>
    BY <1>2, AtAfterGoto DEF Inv, ArchiveTransfer
  <2>2. /\ th = RequestThread(t) => back \in {"wait", "threw"}
        /\ th = SpecThread(t) => back = "over"
        /\ th = SessionThread(t) => back = "listening"
        /\ back # "setCompleted"
    <3>1. back \in {"threw", "wait", "over", "listening", "next"}
      BY DEF GoesOn
    <3> QED BY <3>1, GoesOnByKind
  <2>3. /\ pc'[RequestThread(t)] = pc[RequestThread(t)] \/ pc'[RequestThread(t)] \in {"wait", "threw"}
        /\ pc'[SpecThread(t)] = pc[SpecThread(t)] \/ pc'[SpecThread(t)] = "over"
        /\ \/ pc'[SessionThread(t)] = pc[SessionThread(t)]
           \/ pc[SessionThread(t)] = "archive" /\ pc'[SessionThread(t)] = "listening"
    BY <2>1, <2>2, ThreadsDiffer
  <2>4. StatusStep(t)
    BY <2>1, <2>3 DEF StatusStep, Status!vars, Settled
  <2>5. StartOrder(t)'
    BY <2>1, <2>2, <2>3 DEF StartInv, StartOrder, Settled
  <2> QED BY <2>4, <2>5
<1> QED BY <1>1, <1>2 DEF OnCompleted

(* Nobody fails a transfer whose session is open but not heard of.         *)
LEMMA FailedStart ==
    ASSUME Inv, StartInv, NEW t \in Transfers, NEW th, FailedCaller(th, t), NEW back,
           GoesOn(th, t, back), OnFailed(th, t, back)
    PROVE  StartOrder(t)' /\ StatusStep(t)
<1>1. CASE OnCompleted(th, t, back)
  BY <1>1, CompletedStart DEF FailedCaller, Crew
<1>2. CASE SetFailed(th, t)
  <2> USE ThreadsDiffer
      DEF Inv, TypeOK, ThreadOrder, StatusOrder, StartInv, StartOrder, At, Crew, Goto,
          StatusStep, Status!vars, Status!Next, Status!End, Status!Settle, Status!Start,
          Status!Final, Settled, FailedCaller
  <2>1. CASE SetFailed(th, t)
    BY <2>1 DEF SetFailed
  <2> QED BY <1>2, <2>1
<1>3. CASE SendSignal(th, t, "signalFailed", "completed")
  <2>1. th \in Crew(t)
    BY DEF FailedCaller, Crew
  <2>2. /\ pc[th] = "signalFailed" /\ pc'[th] = "completed"
        /\ th # RequestThread(t) => pc'[RequestThread(t)] \in {pc[RequestThread(t)], "woken"}
        /\ \A x \in Threads : x \notin {th, RequestThread(t)} => pc'[x] = pc[x]
        /\ \A u : Crew(u)' = Crew(u)
    BY <1>3, <2>1, SendSignalMoves, ThreadsDiffer DEF Inv, TypeOK
  <2>3. At(t, {"setCompleted"})' => At(t, {"setCompleted"})
    BY <2>2, CrewsDiffer DEF At
  <2>4. UNCHANGED <<status, started, session>>
    BY <1>3 DEF SendSignal
  <2>5. /\ pc'[RequestThread(t)] \in {pc[RequestThread(t)], "woken", "completed"}
        /\ \/ pc'[SpecThread(t)] = pc[SpecThread(t)]
           \/ pc[SpecThread(t)] = "signalFailed" /\ pc'[SpecThread(t)] = "completed"
        /\ \/ pc'[SessionThread(t)] = pc[SessionThread(t)]
           \/ pc[SessionThread(t)] = "signalFailed" /\ pc'[SessionThread(t)] = "completed"
    <3>1. /\ RequestThread(t) # SpecThread(t)
          /\ RequestThread(t) # SessionThread(t)
          /\ SpecThread(t) # SessionThread(t)
          /\ {RequestThread(t), SpecThread(t), SessionThread(t)} \subseteq Threads
      BY ThreadsDiffer
    <3>2. th = SpecThread(t) \/ pc'[SpecThread(t)] = pc[SpecThread(t)]
      BY <2>2, <3>1
    <3>3. th = SessionThread(t) \/ pc'[SessionThread(t)] = pc[SessionThread(t)]
      BY <2>2, <3>1
    <3> QED BY <2>2, <3>2, <3>3
  <2>6. StatusStep(t)
    BY <2>4, <2>5 DEF StatusStep, Status!vars, Settled
  <2>7. StartOrder(t)'
    BY <2>3, <2>4, <2>5 DEF StartInv, StartOrder, Settled
  <2> QED BY <2>6, <2>7
<1> QED BY <1>1, <1>2, <1>3 DEF OnFailed

(* The session starts a transfer that is pending or has been stopped.      *)
LEMMA StartedStart ==
    ASSUME Inv, StartInv, NEW t \in Transfers, OnStarted(SessionThread(t), t, "listening")
    PROVE  StartOrder(t)' /\ StatusStep(t)
<1> USE ThreadsDiffer
    DEF Inv, TypeOK, ThreadOrder, StatusOrder, StartInv, StartOrder, At, Crew, Goto,
        StatusStep, Status!vars, Status!Next, Status!End, Status!Settle, Status!Start,
        Status!Final, Settled
<1>1. CASE SetStarted(SessionThread(t), t)
  BY <1>1 DEF SetStarted
<1>2. CASE SendSignal(SessionThread(t), t, "signalStarted", "listening")
  BY <1>2 DEF SendSignal
<1> QED BY <1>1, <1>2 DEF OnStarted

(* A stop request may end any transfer.                                    *)
LEMMA StopStart ==
    ASSUME Inv, StartInv, NEW t \in Transfers, NEW th, StopCaller(th, t), NEW back,
           GoesOn(th, t, back), Stop(th, t, back)
    PROVE  StartOrder(t)' /\ StatusStep(t)
<1>1. CASE OnCompleted(th, t, back)
  BY <1>1, CompletedStart DEF StopCaller, Crew
<1>2. CASE ~OnCompleted(th, t, back)
  <2> USE ThreadsDiffer
      DEF Inv, TypeOK, ThreadOrder, StatusOrder, StartInv, StartOrder, At, Crew, Goto,
          StatusStep, Status!vars, Status!Next, Status!End, Status!Settle, Status!Start,
          Status!Final, Settled, StopCaller
  <2>1. CASE CheckStoppable(th, t)
    BY <2>1 DEF CheckStoppable
  <2>2. CASE FaspexStop(th, t)
    BY <2>2 DEF FaspexStop
  <2>3. CASE FaspexStopFails(th, t)
    BY <2>3 DEF FaspexStopFails
  <2>4. CASE SetStopped(th, t)
    BY <2>4 DEF SetStopped
  <2> QED BY <1>2, <2>1, <2>2, <2>3, <2>4 DEF Stop
<1> QED BY <1>1, <1>2

(* The request thread writes the status only in these methods.             *)
LEMMA RequestStart ==
    ASSUME Inv, StartInv, NEW t \in Transfers,
           \/ CheckMaxNumberOfRequests(t) \/ StartTransfer(t)
           \/ AwaitTimesOut(t) \/ AwaitInterrupted(t)
    PROVE  StartOrder(t)' /\ StatusStep(t)
<1>1. CASE pc[SpecThread(t)] = "off" /\ OnFailed(RequestThread(t), t, "wait")
  BY <1>1, FailedStart DEF FailedCaller, GoesOn
<1>2. CASE pc[SpecThread(t)] # "off" /\ Stop(RequestThread(t), t, "threw")
  BY <1>2, StopStart DEF StopCaller, GoesOn
<1>3. CASE \/ CheckMaxNumberOfRequests(t) \/ AwaitTimesOut(t) \/ AwaitInterrupted(t)
           \/ AddTransfer(t) \/ PrepareContents(t) \/ PrepareContentsFails(t)
           \/ SendPackage(t) \/ SendPackageRefused(t) \/ SendPackageFails(t)
           \/ CheckPending(t) \/ Await(t) \/ AwaitSignalled(t) \/ GiveUp(t)
  <2> USE ThreadsDiffer
      DEF Inv, TypeOK, ThreadOrder, StatusOrder, StartInv, StartOrder, At, Crew, Goto,
          StatusStep, Status!vars, Settled
  <2>1. CASE CheckMaxNumberOfRequests(t)
    BY <2>1 DEF CheckMaxNumberOfRequests
  <2>2. CASE AwaitTimesOut(t) \/ AwaitInterrupted(t)
    BY <2>2 DEF AwaitTimesOut, AwaitInterrupted
  <2>3. CASE AddTransfer(t)
    BY <2>3 DEF AddTransfer
  <2>4. CASE PrepareContents(t) \/ PrepareContentsFails(t)
    BY <2>4 DEF PrepareContents, PrepareContentsFails
  <2>5. CASE SendPackage(t)
    BY <2>5 DEF SendPackage
  <2>6. CASE SendPackageRefused(t) \/ SendPackageFails(t)
    BY <2>6 DEF SendPackageRefused, SendPackageFails
  <2>7. CASE CheckPending(t)
    BY <2>7 DEF CheckPending
  <2>8. CASE Await(t)
    BY <2>8 DEF Await
  <2>9. CASE AwaitSignalled(t)
    BY <2>9 DEF AwaitSignalled
  <2>10. CASE GiveUp(t)
    BY <2>10 DEF GiveUp
  <2> QED BY <1>3, <2>1, <2>2, <2>3, <2>4, <2>5, <2>6, <2>7, <2>8, <2>9, <2>10
<1> QED BY <1>1, <1>2, <1>3 DEF StartTransfer

(* The threads of the library open the session and hear of it.             *)
LEMMA LibraryStart ==
    ASSUME Inv, StartInv, NEW t \in Transfers,
           \/ TransferSpec(t) \/ OnSessionStart(t) \/ OnFileStart(t) \/ OnFileError(t)
           \/ SessionEnds(t) \/ OnTransferEvent(t)
    PROVE  StartOrder(t)' /\ StatusStep(t)
<1>1. CASE OnFailed(SpecThread(t), t, "over") \/ OnTransferEvent(t)
  BY <1>1, FailedStart, StartedStart DEF OnTransferEvent, FailedCaller, GoesOn
<1>2. CASE \/ OnTransferSpecReceived(t) \/ TransferSpecFails(t) \/ OpenSession(t) \/ OnDone(t)
           \/ OnSessionStart(t) \/ OnFileStart(t) \/ OnFileError(t) \/ SessionEnds(t)
  <2> USE ThreadsDiffer
      DEF Inv, TypeOK, ThreadOrder, StatusOrder, StartInv, StartOrder, At, Crew, Goto,
          StatusStep, Status!vars, Status!Next, Status!End, Status!Settle, Status!Start,
          Status!Final, Settled, Delivers
  <2>1. CASE OnTransferSpecReceived(t)
    BY <2>1 DEF OnTransferSpecReceived
  <2>2. CASE TransferSpecFails(t)
    BY <2>2 DEF TransferSpecFails
  <2>3. CASE OpenSession(t)
    BY <2>3 DEF OpenSession
  <2>4. CASE OnDone(t)
    BY <2>4 DEF OnDone
  <2>5. CASE OnSessionStart(t)
    BY <2>5 DEF OnSessionStart
  <2>6. CASE OnFileStart(t)
    BY <2>6 DEF OnFileStart
  <2>7. CASE OnFileError(t)
    BY <2>7 DEF OnFileError
  <2>8. CASE SessionEnds(t)
    BY <2>8 DEF SessionEnds, OnSessionError, OnSessionStop
  <2> QED BY <1>2, <2>1, <2>2, <2>3, <2>4, <2>5, <2>6, <2>7, <2>8
<1> QED BY <1>1, <1>2 DEF TransferSpec

(* Between two transfers a stop request changes no status.                 *)
LEMMA BetweenStart ==
    ASSUME Inv, StartInv, NEW s \in Stoppers,
           StopTransfers(s) \/ StopAllTransfers(s) \/ StopNext(s) \/ StopReturns(s)
    PROVE  StartInv' /\ \A t \in Transfers : StatusStep(t)
<1>1. /\ UNCHANGED <<status, started, session>>
      /\ \A x \in Threads : x # StopThread(s) => pc'[x] = pc[x]
      /\ pc'[StopThread(s)] # "setCompleted"
      /\ \A r \in Stoppers : r # s => target'[r] = target[r]
  BY ThreadsDiffer DEF Inv, TypeOK, Goto, StopTransfers, StopAllTransfers, StopNext, StopReturns
<1>2. ASSUME NEW t \in Transfers, At(t, {"setCompleted"})' PROVE At(t, {"setCompleted"})
  <2>1. PICK x \in Crew(t)' : pc'[x] = "setCompleted"
    BY <1>2 DEF At
  <2>2. x # StopThread(s)
    BY <1>1, <2>1
  <2>3. x \in Crew(t) /\ x \in Threads
    BY <1>1, <2>1, <2>2, ThreadsDiffer DEF Crew
  <2> QED BY <1>1, <2>1, <2>2, <2>3 DEF At
<1>3. ASSUME NEW t \in Transfers PROVE StatusStep(t)
  BY <1>1, ThreadsDiffer DEF StatusStep, Status!vars, Settled
<1>4. ASSUME NEW t \in Transfers PROVE StartOrder(t)'
  <2>1. /\ pc'[RequestThread(t)] = pc[RequestThread(t)]
        /\ pc'[SpecThread(t)] = pc[SpecThread(t)]
        /\ pc'[SessionThread(t)] = pc[SessionThread(t)]
    BY <1>1, ThreadsDiffer
  <2>2. status'[t] = status[t] /\ session'[t] = session[t] /\ StartOrder(t)
    BY <1>1 DEF StartInv
  <2> QED BY <1>1, <1>2, <2>1, <2>2 DEF StartOrder, Settled
<1> QED BY <1>3, <1>4 DEF StartInv

LEMMA StartNextStep ==
    ASSUME Inv, StartInv, [Next]_vars
    PROVE  StartInv' /\ \A t \in Transfers : StatusStep(t)
<1>1. CASE \E t \in Transfers :
              \/ CheckMaxNumberOfRequests(t) \/ StartTransfer(t)
              \/ AwaitTimesOut(t) \/ AwaitInterrupted(t)
              \/ TransferSpec(t) \/ OnSessionStart(t) \/ OnFileStart(t) \/ OnFileError(t)
              \/ SessionEnds(t) \/ OnTransferEvent(t)
  BY <1>1, RequestStart, LibraryStart, TransferMoves, OthersKeep
<1>2. CASE \E s \in Stoppers : StopTransfers(s) \/ StopAllTransfers(s) \/ ServeStop(s)
  <2>1. PICK s \in Stoppers : StopTransfers(s) \/ StopAllTransfers(s) \/ ServeStop(s)
    BY <1>2
  <2>2. CASE StopTransfers(s) \/ StopAllTransfers(s) \/ StopNext(s) \/ StopReturns(s)
    BY <2>2, BetweenStart
  <2>3. CASE \E t \in Transfers : target[s] = t /\ Stop(StopThread(s), t, "next")
    <3>1. PICK t \in Transfers : target[s] = t /\ Stop(StopThread(s), t, "next")
      BY <2>3
    <3>2. StopThread(s) \in Crew(t)
      BY <3>1 DEF Crew
    <3>3. StartOrder(t)' /\ StatusStep(t)
      BY <3>1, StopStart DEF StopCaller, GoesOn
    <3> QED BY <3>1, <3>2, <3>3, MethodMoves, OthersKeep
  <2> QED BY <2>1, <2>2, <2>3 DEF ServeStop
<1>3. CASE UNCHANGED vars
  BY <1>3 DEF vars, StartInv, StartOrder, At, Crew, StatusStep, Status!vars, Settled
<1> QED BY <1>1, <1>2, <1>3 DEF Next

(* Until its session is heard of, a transfer is pending or only stopped.   *)
THEOREM StartInvariance == Spec => []StartInv
<1>1. Init => StartInv
  <2>1. ASSUME Init, NEW t \in Transfers PROVE StartOrder(t)
    <3>1. \A x \in Crew(t) : pc[x] # "setCompleted"
      BY <2>1, CrewsDiffer DEF Init
    <3> QED BY <2>1, <3>1, ThreadsDiffer DEF Init, StartOrder, At
  <2> QED BY <2>1 DEF StartInv
<1>2. Inv /\ StartInv /\ [Next]_vars => StartInv'
  BY StartNextStep
<1> QED BY <1>1, <1>2, Invariance, PTL DEF Spec

(* The status of each transfer behaves like the abstract one, whichever    *)
(* threads write it: a transfer starts at most once and never after it has *)
(* settled on an end, and completes only when it has started.              *)
THEOREM StatusRefinement == Spec => ImplementsStatus
<1>1. Init => \A t \in Transfers : Status(t)!Init
  BY DEF Init, Status!Init, Settled
<1>2. Inv /\ StartInv /\ [Next]_vars =>
         [\A t \in Transfers : [Status(t)!Next]_(Status(t)!vars)]_vars
  BY StartNextStep DEF StatusStep
<1> QED BY <1>1, <1>2, Invariance, StartInvariance, PTL DEF Spec, ImplementsStatus
=============================================================================
