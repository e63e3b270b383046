------------------------- MODULE PackageWatchProofs -------------------------
(***************************************************************************)
(* Theorems about PackageWatch, for any number of requests under way.      *)
(***************************************************************************)
EXTENDS PackageWatch, TLAPS

LEMMA CallbackType ==
  ASSUME NEW status, NEW timer \in {"none", "awaited", "set", "cleared"}
  PROVE  Callback(status, timer) \in {"none", "awaited", "set", "cleared"}
BY DEF Callback

(* Only an answer that holds a package changes the status of the browser.  *)
LEMMA RefreshedType ==
  ASSUME TypeOK, NEW q \in Requests, request[q] \in Answers
  PROVE  Refreshed(q) \in Statuses
BY DEF TypeOK, Refreshed, Answers, Statuses, Final

LEMMA CompleteType ==
  ASSUME TypeOK, NEW q \in Requests, Complete(q)
  PROVE  TypeOK'
<1>1. Refreshed(q) \in Statuses
  BY RefreshedType DEF Complete
<1>2. watchTimer' \in {"none", "awaited", "set", "cleared"}
  BY CallbackType DEF Complete, Errorback, NoCallback, TypeOK
<1>3. progress' \in BOOLEAN /\ reported' \in Statuses \cup {"none"}
  BY <1>1 DEF Complete, TypeOK
<1> QED
  BY <1>1, <1>2, <1>3 DEF Complete, TypeOK, package

(* A package that is not pending does not become so.                       *)
LEMMA StatusChangesType ==
  ASSUME TypeOK, StatusChanges
  PROVE  TypeOK'
<1>1. server' \in Statuses /\ started' \in BOOLEAN /\ settled' \in BOOLEAN
  BY DEF StatusChanges, TypeOK, Answers, Statuses, Final,
         Package!Next, Package!Start, Package!End, Package!Settle, Package!Final
<1> QED
  BY <1>1 DEF StatusChanges, TypeOK, Answers, browser, network

(* Every variable keeps its type.                                          *)
THEOREM TypeCorrectness == Spec => []TypeOK
<1>1. Init => TypeOK
  BY DEF Init, TypeOK, Answers
<1>2. TypeOK /\ [Next]_vars => TypeOK'
  <2> SUFFICES ASSUME TypeOK, [Next]_vars PROVE TypeOK'
    OBVIOUS
  <2>1. CASE StatusChanges \/ Archive \/ Forget
    BY <2>1, StatusChangesType DEF Archive, Forget, TypeOK, browser, network, Answers
  <2>2. ASSUME NEW to \in BOOLEAN, SetConnected(to) PROVE TypeOK'
    BY <2>2 DEF SetConnected, TypeOK, browser, network, package
  <2>3. ASSUME NEW q \in Requests, WatchPackageStatus(q) \/ Tick(q) PROVE TypeOK'
    BY <2>3 DEF WatchPackageStatus, Tick, Post, TypeOK, package
  <2>4. ASSUME NEW q \in Requests, Serve(q) PROVE TypeOK'
    BY <2>4 DEF Serve, TypeOK, browser, package
  <2>5. ASSUME NEW q \in Requests, Complete(q) PROVE TypeOK'
    BY <2>5, CompleteType
  <2>6. ASSUME NEW q \in Requests, Fail(q) PROVE TypeOK'
    BY <2>6 DEF Fail, Errorback, TypeOK, package
  <2>7. CASE UNCHANGED vars
    BY <2>7 DEF vars, package, browser, network, TypeOK
  <2> QED
    BY <2>1, <2>2, <2>3, <2>4, <2>5, <2>6, <2>7 DEF Next
<1> QED
  BY <1>1, <1>2, PTL DEF Spec

(* Util.watchPackageStatus: late answers and failures, in any order, never *)
(* set the timer of a watch that has ended.                                *)
THEOREM EndIsFinal == Spec => EndedIsForGood
<1>1. [Next]_vars => [watchTimer = "cleared" => watchTimer' = "cleared"]_vars
  <2> SUFFICES ASSUME Next, watchTimer = "cleared" PROVE watchTimer' = "cleared"
    OBVIOUS
  <2>1. ASSUME NEW q \in Requests, Complete(q) PROVE watchTimer' = "cleared"
    BY <2>1 DEF Complete, Callback, NoCallback, Errorback
  <2>2. ASSUME NEW q \in Requests, Fail(q) PROVE watchTimer' = "cleared"
    BY <2>2 DEF Fail, Errorback
  <2>3. ASSUME NEW q \in Requests, WatchPackageStatus(q) \/ Tick(q) \/ Serve(q)
        PROVE  watchTimer' = "cleared"
    BY <2>3 DEF WatchPackageStatus, Tick, Serve, browser
  <2>4. CASE StatusChanges \/ Archive \/ Forget \/ \E to \in BOOLEAN : SetConnected(to)
    BY <2>4 DEF StatusChanges, Archive, Forget, SetConnected, browser
  <2> QED
    BY <2>1, <2>2, <2>3, <2>4 DEF Next
<1> QED
  BY <1>1, PTL DEF Spec, EndedIsForGood

(* Whatever keeps the browser from the final status is recorded as broken. *)
BrokenInv ==
    /\ ~connected => broken
    /\ server = "unknown" => broken
    /\ \A q \in Requests : request[q] = "unknown" => broken

LEMMA BrokenStep == ASSUME TypeOK, BrokenInv, [Next]_vars PROVE BrokenInv'
<1>1. CASE StatusChanges \/ Archive \/ Forget
  BY <1>1 DEF StatusChanges, Archive, Forget, network, BrokenInv, TypeOK, Answers, Statuses, Final,
              Package!Next, Package!Start, Package!End, Package!Settle, Package!Final
<1>2. ASSUME NEW to \in BOOLEAN, SetConnected(to) PROVE BrokenInv'
  BY <1>2 DEF SetConnected, BrokenInv, TypeOK, package, network
<1>3. ASSUME NEW q \in Requests, WatchPackageStatus(q) \/ Tick(q) \/ Serve(q) PROVE BrokenInv'
  BY <1>3 DEF WatchPackageStatus, Tick, Post, Serve, BrokenInv, TypeOK, package
<1>4. ASSUME NEW q \in Requests, Complete(q) \/ Fail(q) PROVE BrokenInv'
  BY <1>4 DEF Complete, Fail, BrokenInv, TypeOK, package
<1>5. CASE UNCHANGED vars
  BY <1>5 DEF vars, package, network, BrokenInv
<1> QED
  BY <1>1, <1>2, <1>3, <1>4, <1>5 DEF Next

(* The timer of a watch is cleared only once the user has been told how    *)
(* the package ended, or something has failed, or it cannot be reported.   *)
THEOREM ReportSafety == Spec => EndIsReported
<1>1. Init => BrokenInv
  BY DEF Init, BrokenInv, Statuses, Final
<1>2. TypeOK /\ BrokenInv /\ [Next]_vars =>
         [watchTimer # "cleared" /\ watchTimer' = "cleared"
             => reported' \in Final \/ broken' \/ Unreportable']_vars
  <2> SUFFICES ASSUME TypeOK, BrokenInv, Next, watchTimer # "cleared", watchTimer' = "cleared"
               PROVE  reported' \in Final \/ broken' \/ Unreportable'
    OBVIOUS
  <2>1. ASSUME NEW q \in Requests, Complete(q) PROVE reported' \in Final \/ broken' \/ Unreportable'
    <3>1. CASE request[q] = "unknown"
      BY <2>1, <3>1 DEF Complete, BrokenInv
    <3>2. CASE request[q] # "unknown"
      <4>1. CASE MessageThrows(pkgStatus', progress')
        BY <4>1 DEF MessageThrows, Unreportable
      <4>2. CASE ~MessageThrows(pkgStatus', progress')
        <5>1. /\ reported' = Refreshed(q) /\ Refreshed(q) \in Statuses
              /\ Callback(Refreshed(q), watchTimer) = "cleared"
          BY <2>1, <3>2, <4>2, RefreshedType DEF Complete
        <5>2. Refreshed(q) # "STARTED"
          BY <5>1 DEF Callback
        <5> QED
          BY <5>1, <5>2 DEF Statuses
      <4> QED
        BY <4>1, <4>2
    <3> QED
      BY <3>1, <3>2
  <2>2. ASSUME NEW q \in Requests, Fail(q) PROVE broken'
    BY <2>2 DEF Fail
  <2>3. ASSUME NEW q \in Requests, Tick(q) PROVE broken'
    BY <2>3 DEF Tick, BrokenInv, TypeOK
  <2>4. ASSUME NEW q \in Requests, WatchPackageStatus(q) \/ Serve(q) PROVE FALSE
    BY <2>4 DEF WatchPackageStatus, Serve, browser
  <2>5. CASE StatusChanges \/ Archive \/ Forget \/ \E to \in BOOLEAN : SetConnected(to)
    BY <2>5 DEF StatusChanges, Archive, Forget, SetConnected, browser
  <2> QED
    BY <2>1, <2>2, <2>3, <2>4, <2>5 DEF Next
<1>3. TypeOK /\ BrokenInv /\ [Next]_vars => BrokenInv'
  BY BrokenStep
<1> QED
  BY <1>1, <1>2, <1>3, TypeCorrectness, PTL DEF Spec, EndIsReported
=============================================================================
