---------------------------- MODULE PackageWatch ----------------------------
(***************************************************************************)
(* How the browser watches a package that has started: Util.js refreshes   *)
(* the package on a timer and reports each status it receives, until the   *)
(* status is no longer STARTED, a refresh fails, or the desktop is         *)
(* disconnected.  Nothing waits for the answer to one request before the   *)
(* timer posts the next, and answers may come in any order.                *)
(*                                                                         *)
(* A callback runs to its end before another does.  The server answers a   *)
(* request with the status at that time, or with nothing when it no longer *)
(* knows the package.  A message of the status bar is its status, and that *)
(* of a STARTED package needs a progress: an answer has one as long as the *)
(* package is not archived, and the browser keeps the last it received.    *)
(***************************************************************************)
CONSTANT Requests    \* as many requests as may be under way at a time

VARIABLES server,    \* the status of the package at the server, or "unknown"
          started,   \* whether the package has started
          settled,   \* whether the package can no longer start
          archived,  \* whether the package is in the archive
          connected, \* Desktop.connected
          pkgStatus, \* the status that the browser holds
          progress,  \* whether the browser holds a progress
          reported,  \* the last status that was reported
          watchTimer,\* "none", "awaited" for a first answer, "set", "cleared"
          request,   \* the state of each request, or the status in its answer
          carrying,  \* the requests whose answers carry a progress
          broken     \* a request has failed or the desktop was disconnected

browser == <<pkgStatus, progress, reported, watchTimer>>
package == <<server, started, settled, archived>>
network == <<request, carrying>>
vars == <<package, connected, browser, network, broken>>

(* What the status of a package may do: FaspexClient implements it.        *)
Package == INSTANCE PackageStatus WITH status <- server

Final == {"STOPPED", "FAILED", "COMPLETED"}
Statuses == Final \cup {"STARTED"}
Answers == Statuses \cup {"unknown"}

(* The request that sent the package has returned: it is not pending.      *)
Init == /\ server \in Statuses
        /\ started \in BOOLEAN /\ settled \in BOOLEAN /\ archived \in BOOLEAN
        /\ server \in {"STARTED", "COMPLETED"} => started
        /\ started => settled
        /\ connected = TRUE
        /\ pkgStatus = server
        /\ progress = ~archived
        /\ reported = "none"
        /\ watchTimer = "none"
        /\ request = [q \in Requests |-> "unused"]
        /\ carrying = {}
        /\ broken = FALSE

-----------------------------------------------------------------------------
(* The package and the network.                                            *)

(* The transfer ends, or starts after all when it was stopped too early.   *)
StatusChanges == /\ server # "unknown"
                 /\ Package!Next
                 /\ UNCHANGED <<archived, connected, browser, network, broken>>

(* A transfer that is stopped before it starts may start in the archive.   *)
Archive == /\ archived' = TRUE
           /\ UNCHANGED <<server, started, settled, connected, browser, network, broken>>

(* The server restarts, or forgets who has sent the package.               *)
Forget == /\ server # "unknown"
          /\ server' = "unknown"
          /\ broken' = TRUE
          /\ UNCHANGED <<started, settled, archived, connected, browser, network>>

(* The server handles a request.                                           *)
Serve(q) == /\ request[q] = "posted"
            /\ request' = [request EXCEPT ![q] = server]
            /\ carrying' = IF archived \/ server = "unknown" THEN carrying \ {q}
                           ELSE carrying \cup {q}
            /\ UNCHANGED <<package, connected, browser, broken>>

(* The user loses the connection, or logs on again.                        *)
SetConnected(to) == /\ connected' = to
                    /\ broken' = (broken \/ ~to)
                    /\ UNCHANGED <<package, browser, network>>

-----------------------------------------------------------------------------
(* Package.refresh, and the callbacks that Util.js gives it.               *)

Post(q) == /\ request[q] = "unused"
           /\ request' = [request EXCEPT ![q] = "posted"]

(* The dialog that tells the user of the start is closed.                  *)
WatchPackageStatus(q) ==
  /\ watchTimer = "none"
  /\ watchTimer' = "awaited"
  /\ Post(q)
  /\ UNCHANGED <<package, connected, pkgStatus, progress, reported, carrying, broken>>

\* Variant: the timer of a disconnected desktop is not cleared.
TickUnconnected(q) ==
  /\ watchTimer = "set" /\ connected
  /\ Post(q)
  /\ UNCHANGED <<package, connected, browser, carrying, broken>>

(* The timer fires.                                                        *)
Tick(q) ==
  /\ watchTimer = "set"
  /\ IF connected THEN Post(q) /\ UNCHANGED watchTimer
                  ELSE watchTimer' = "cleared" /\ UNCHANGED request
  /\ UNCHANGED <<package, connected, pkgStatus, progress, reported, carrying, broken>>

(* The errorback of a refresh: the first one has none, and sets no timer.  *)
Errorback == "cleared"

\* Variant: every answer that is STARTED sets the timer.
CallbackSets(status, timer) == IF status = "STARTED" THEN "set" ELSE "cleared"

\* Variant: any answer but the first ends the watch.
CallbackOnce(status, timer) ==
  IF status = "STARTED" /\ timer = "awaited" THEN "set" ELSE "cleared"

(* The callback of a refresh: the first one sets the timer, later ones     *)
(* only clear it.                                                          *)
Callback(status, timer) ==
  IF status = "STARTED" THEN IF timer = "awaited" THEN "set" ELSE timer
                        ELSE "cleared"

(* The package takes over an answer that has an Id.                        *)
Refreshed(q) == IF request[q] = "unknown" THEN pkgStatus ELSE request[q]

(* The message of a STARTED package without a progress throws: there is no *)
(* callback then, and without the first one no timer is ever set.          *)
MessageThrows(status, hasProgress) == status = "STARTED" /\ ~hasProgress
NoCallback(timer) == IF timer = "awaited" THEN "cleared" ELSE timer

(* An answer arrives.  Without a package in it the errorback is called;    *)
(* the status is reported and the callback called in any case.             *)
Complete(q) ==
  /\ request[q] \in Answers
  /\ pkgStatus' = Refreshed(q)
  /\ progress' = (progress \/ q \in carrying)
  /\ LET failed == request[q] = "unknown" /\ watchTimer # "awaited"
         timer == IF failed THEN Errorback ELSE watchTimer
     IN  IF MessageThrows(pkgStatus', progress')
         THEN /\ watchTimer' = NoCallback(timer)
              /\ UNCHANGED reported
         ELSE /\ watchTimer' = Callback(pkgStatus', timer)
              /\ reported' = pkgStatus'
  /\ request' = [request EXCEPT ![q] = "unused"]
  /\ carrying' = carrying \ {q}
  /\ UNCHANGED <<package, connected, broken>>

(* A request or the answer to it is lost, or the answer is an error.       *)
Fail(q) ==
  /\ request[q] # "unused"
  /\ request' = [request EXCEPT ![q] = "unused"]
  /\ carrying' = carrying \ {q}
  /\ watchTimer' = Errorback
  /\ broken' = TRUE
  /\ UNCHANGED <<package, connected, pkgStatus, progress, reported>>

Next == \/ StatusChanges \/ Archive \/ Forget
        \/ \E to \in BOOLEAN : SetConnected(to)
        \/ \E q \in Requests : \/ WatchPackageStatus(q) \/ Tick(q)
                               \/ Serve(q) \/ Complete(q) \/ Fail(q)

(* The timer fires again and again, a request is served, and the answer    *)
(* arrives unless it is lost.                                              *)
Fairness == /\ WF_vars(\E q \in Requests : Tick(q))
            /\ \A q \in Requests : WF_vars(Serve(q)) /\ WF_vars(Complete(q))

Spec == Init /\ [][Next]_vars /\ Fairness

-----------------------------------------------------------------------------
(* Every variable keeps its type.                                          *)
TypeOK == /\ server \in Answers
          /\ started \in BOOLEAN /\ settled \in BOOLEAN /\ archived \in BOOLEAN
          /\ connected \in BOOLEAN /\ broken \in BOOLEAN
          /\ pkgStatus \in Statuses /\ progress \in BOOLEAN
          /\ reported \in Statuses \cup {"none"}
          /\ watchTimer \in {"none", "awaited", "set", "cleared"}
          /\ request \in [Requests -> Answers \cup {"unused", "posted"}]
          /\ carrying \subseteq Requests

(* A watch that has ended does not begin again, although answers to        *)
(* requests of the timer may still arrive.                                 *)
EndedIsForGood == [][watchTimer = "cleared" => watchTimer' = "cleared"]_vars

(* The package has ended for good, or is not known any more.               *)
EndedAtServer == server = "unknown" \/ (server \in Final /\ settled)

(* A watch ends when the package has, in whatever order answers arrive.    *)
WatchEnds ==
  (EndedAtServer /\ watchTimer \in {"awaited", "set"}) ~> watchTimer = "cleared"

(* The browser holds a package that started when it was already archived,  *)
(* and was never sent a progress.                                          *)
Unreportable == MessageThrows(pkgStatus, progress)

(* A watch does not end early: when its timer is cleared the user has been *)
(* told of a final status, unless a request failed, the desktop was        *)
(* disconnected, the server forgot the package, or the browser does not    *)
(* even know how to report the package: a stop that came too early has     *)
(* archived it before it started, and no answer had a progress.            *)
EndIsReported ==
  [][watchTimer # "cleared" /\ watchTimer' = "cleared"
        => reported' \in Final \/ broken' \/ Unreportable']_vars
=============================================================================
