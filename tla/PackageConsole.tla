---------------------------- MODULE PackageConsole ----------------------------
(***************************************************************************)
(* aspera.util, the functions that AsperaPlugin.js offers on the console   *)
(* of a browser: they list packages, get and stop one, and stop many.  One *)
(* names a package by its number in the last list, or by its Id.  Each     *)
(* function posts one request; the answers come in any order.              *)
(*                                                                         *)
(* A package and its Id are one value; a package that is pending, or has   *)
(* failed before it had an Id, is listed without one.  The user is an      *)
(* administrator: who may see and stop what is the module RecentPackages.  *)
(***************************************************************************)
EXTENDS Naturals, SequencesExt

CONSTANTS
    Packages,
    Mine,       \* the packages of the user at the console
    Requests,   \* the requests that can be outstanding
    NoPackage,  \* undefined
    UnknownId   \* an Id that no package has

ASSUME ConsoleAssumption ==
    /\ IsFiniteSet(Packages) /\ Mine \subseteq Packages
    /\ NoPackage \notin Packages /\ UnknownId \notin Packages

VARIABLES
    phase,          \* where each package is at the server
    wasStopped,     \* history: the packages whose status has been STOPPED
    packagesBuffer, \* the Package objects of the last list
    numbered,       \* what the console last listed under the numbers 1, 2, ...
    request         \* the outstanding requests

server == <<phase, wasStopped>>
console == <<packagesBuffer, numbered, request>>
consoleVars == <<server, console>>

ListTypes == {"list", "listAll", "listRecent", "listAllRecent"}
StopAllTypes == {"stopAll", "stopAllFromAll"}

\* The package that a request was made for, and what its answer holds.
Idle == [type |-> "idle", state |-> "idle", name |-> NoPackage, pkg |-> NoPackage,
         meant |-> NoPackage, packages |-> << >>, stopped |-> FALSE]

\* Package Ids are no numbers: a name is an Id or a number of the last list.
Numbers == 1..Cardinality(Packages)
Names == Packages \cup Numbers

ConsoleInit ==
    /\ phase = [p \in Packages |-> "absent"]
    /\ wasStopped = {}
    /\ packagesBuffer = << >>
    /\ numbered = << >>
    /\ request = [r \in Requests |-> Idle]

-----------------------------------------------------------------------------
(* The packages of the server *)

HasId(p)    == phase[p] \in {"running", "stopped", "resumed", "ended"}
Running(p)  == phase[p] \in {"pending", "running"}
Archived(p) == phase[p] \in {"stopped", "resumed", "ended", "failed"}

Become(p, from, to) == /\ phase[p] = from
                       /\ phase' = [phase EXCEPT ![p] = to]

Remember == wasStopped' = wasStopped \cup {p \in Packages : phase'[p] = "stopped"}

\* Packages are sent, end, are stopped from elsewhere and forgotten.  One that
\* was stopped before its session had started may be sent all the same: it has
\* the status STARTED again, and nobody finds it among the running ones.
PackageChanges(p) ==
    /\ \/ Become(p, "absent", "pending")
       \/ Become(p, "pending", "running") \/ Become(p, "pending", "failed")
       \/ Become(p, "running", "ended") \/ Become(p, "running", "stopped")
       \/ Become(p, "stopped", "resumed") \/ Become(p, "resumed", "ended")
       \/ Become(p, "ended", "forgotten") \/ Become(p, "stopped", "forgotten")
    /\ Remember
    /\ UNCHANGED console

-----------------------------------------------------------------------------
(* The commands *)

Post(r, new) ==
    /\ request[r].state = "idle"
    /\ request' = [request EXCEPT ![r] = new]
    /\ UNCHANGED <<server, packagesBuffer, numbered>>

RequestAction(r, type) == Post(r, [Idle EXCEPT !.type = type, !.state = "posted"])

\* Variant: the first package has the number zero.
GetPackageFromZero(name) ==
    IF name \in Numbers
    THEN IF name + 1 \in DOMAIN packagesBuffer THEN packagesBuffer[name + 1]
         ELSE [package |-> NoPackage, id |-> UnknownId]
    ELSE [package |-> name, id |-> name]

\* A number that is not in the list is taken for an Id.  The package of the
\* list that has an Id and a new object with that Id stand for the same.
GetPackage(name) ==
    IF name \in Numbers
    THEN IF name \in DOMAIN packagesBuffer THEN packagesBuffer[name]
         ELSE [package |-> NoPackage, id |-> UnknownId]
    ELSE [package |-> name, id |-> name]

Meant(name) == IF name \in DOMAIN numbered THEN numbered[name]
               ELSE IF name \in Numbers THEN NoPackage ELSE name

\* refresh and stop post nothing for a package without an Id.
Ask(r, type, name) ==
    /\ GetPackage(name).id # NoPackage
    /\ Post(r, [Idle EXCEPT !.type = type, !.state = "posted", !.name = name,
                            !.pkg = GetPackage(name), !.meant = Meant(name)])

-----------------------------------------------------------------------------
(* The server *)

Serve(r, packages, stopped) ==
    /\ request[r].state \in {"posted", "serving"}
    /\ request' = [request EXCEPT ![r] = [@ EXCEPT !.state = "served", !.packages = packages,
                                                  !.stopped = stopped]]
    /\ UNCHANGED <<packagesBuffer, numbered>>

Listed(p) == [package |-> p, id |-> IF HasId(p) THEN p ELSE NoPackage]

ListedFor(type) ==
    CASE type = "list"       -> {p \in Mine : Running(p) /\ HasId(p)}
      [] type = "listAll"    -> {p \in Packages : Running(p)}
      [] type = "listRecent" -> {p \in Mine : Archived(p) /\ HasId(p)}
      [] OTHER               -> {p \in Packages : Archived(p)}

ServeList(r) ==
    /\ request[r].type \in ListTypes
    /\ \E packages \in SetToSeqs(ListedFor(request[r].type)) :
          Serve(r, [i \in DOMAIN packages |-> Listed(packages[i])], FALSE)
    /\ UNCHANGED server

\* A session that cannot be cancelled ends like one that completes.
StopPackages(candidates, stopped) ==
    /\ phase' = [p \in Packages |-> IF p \notin candidates THEN phase[p]
                                    ELSE IF p \in stopped THEN "stopped" ELSE "ended"]
    /\ Remember

ServeStopAll(r) ==
    /\ request[r].type \in StopAllTypes
    /\ LET candidates == {p \in IF request[r].type = "stopAll" THEN Mine ELSE Packages :
                             phase[p] = "running"}
       IN \E stopped \in SUBSET candidates :
             /\ StopPackages(candidates, stopped)
             /\ Serve(r, << >>, FALSE)

ServeGet(r) ==
    /\ request[r].type = "get"
    /\ Serve(r, << >>, FALSE)
    /\ UNCHANGED server

\* StopPackageAction stops the package, if it is running.
ServeStop(r) ==
    /\ request[r].type = "stop" /\ request[r].state = "posted"
    /\ LET candidates == {p \in Packages : p = request[r].pkg.id /\ phase[p] = "running"}
       IN \E stopped \in SUBSET candidates : StopPackages(candidates, stopped)
    /\ request' = [request EXCEPT ![r].state = "serving"]
    /\ UNCHANGED <<packagesBuffer, numbered>>

\* Variant: whatever has ended is said to have been stopped.
IsTransferArchived(p) == phase[p] \in {"stopped", "resumed", "ended"}

IsTransferStopped(p) == phase[p] = "stopped"

\* PackageActionService then asks for the status, which may have changed again.
ServeStopped(r) ==
    /\ request[r].type = "stop" /\ request[r].state = "serving"
    /\ Serve(r, << >>, \E p \in Packages : p = request[r].pkg.id /\ IsTransferStopped(p))
    /\ UNCHANGED server

(* PackageActionService logs an error and answers without a result. *)
ServeFails(r) ==
    /\ Serve(r, << >>, FALSE)
    /\ UNCHANGED server

-----------------------------------------------------------------------------
(* The answers *)

Served(r, types) == /\ request[r].type \in types
                    /\ request[r].state = "served"
                    /\ request' = [request EXCEPT ![r] = Idle]

OnListRetrieved(r) ==
    /\ Served(r, ListTypes)
    /\ packagesBuffer' = request[r].packages
    /\ numbered' = [i \in DOMAIN request[r].packages |-> request[r].packages[i].package]
    /\ UNCHANGED server

\* What has been stopped is printed with numbers as well, but not buffered.
OnStoppedAll(r) ==
    /\ Served(r, StopAllTypes)
    /\ UNCHANGED <<server, packagesBuffer, numbered>>

\* Variant: the package is looked up again when the answer is there.
LookedUpPackage(r) == GetPackage(request[r].name).package

\* The package whose title the console prints, and whether it says "stopped".
ToldPackage(r) == request[r].pkg.package

OnStopped(r) ==
    /\ Served(r, {"stop"})
    /\ UNCHANGED <<server, packagesBuffer, numbered>>

\* The fields of the answer are mixed into the object, whose Id they repeat.
OnRefreshed(r) ==
    /\ Served(r, {"get"})
    /\ UNCHANGED <<server, packagesBuffer, numbered>>

\* The response is logged or nothing is done.
RequestFails(r) ==
    /\ request[r].state # "idle"
    /\ request' = [request EXCEPT ![r] = Idle]
    /\ UNCHANGED <<server, packagesBuffer, numbered>>

ConsoleNext ==
    \/ \E p \in Packages : PackageChanges(p)
    \/ \E r \in Requests :
          \/ \E type \in ListTypes \cup StopAllTypes : RequestAction(r, type)
          \/ \E type \in {"get", "stop"}, name \in Names : Ask(r, type, name)
          \/ ServeList(r) \/ ServeStopAll(r) \/ ServeGet(r) \/ ServeStop(r) \/ ServeStopped(r)
          \/ ServeFails(r)
          \/ OnListRetrieved(r) \/ OnStoppedAll(r) \/ OnStopped(r) \/ OnRefreshed(r)
          \/ RequestFails(r)

ConsoleSpec == ConsoleInit /\ [][ConsoleNext]_consoleVars

-----------------------------------------------------------------------------
StopAnswered(r) == request[r].type = "stop" /\ request[r].state = "served"

(* _packagesBuffer, stop: a number means the package that the console last *)
(* listed under it.  Every request to get or stop a package that was named *)
(* so is posted with the Id of that package, and what the console tells    *)
(* when a stop is answered is about that package, although lists that were *)
(* answered since may have renumbered it.                                  *)
NumberMeansListed ==
    \A r \in Requests :
        /\ request[r].type \in {"get", "stop"} => request[r].pkg.package = request[r].meant
        /\ StopAnswered(r) => ToldPackage(r) = request[r].meant

(* isTransferStopped: the console says that a package is stopped only of   *)
(* one whose status the server has set to STOPPED, not of one that ended   *)
(* first or could not be stopped, nor of another than was meant.  It does  *)
(* not follow that the package is not sent: a session that starts after    *)
(* the stop sends it (the run stopped_is_sent).                            *)
ToldStoppedWasStopped ==
    \A r \in Requests :
        StopAnswered(r) /\ request[r].stopped => ToldPackage(r) \in wasStopped

\* A Package object of a list has the Id of its package or none.
Entries == {e \in [package : Packages, id : Packages \cup {NoPackage}] :
               e.id \in {e.package, NoPackage}}
Lists == UNION {[1..n -> Entries] : n \in 0..Cardinality(Packages)}

\* An object made from an Id, or for a number that names nothing, has an Id too.
Asked == Entries \cup [package : {NoPackage}, id : {UnknownId}]

ConsoleTypeOK ==
    /\ phase \in [Packages -> {"absent", "pending", "running", "stopped", "resumed",
                               "ended", "failed", "forgotten"}]
    /\ wasStopped \subseteq Packages
    /\ packagesBuffer \in Lists
    /\ numbered = [i \in DOMAIN packagesBuffer |-> packagesBuffer[i].package]
    /\ request \in [Requests ->
                       [type : {"idle", "get", "stop"} \cup ListTypes \cup StopAllTypes,
                        state : {"idle", "posted", "serving", "served"},
                        name : Names \cup {NoPackage}, pkg : Asked \cup {NoPackage},
                        meant : Packages \cup {NoPackage},
                        packages : Lists, stopped : BOOLEAN]]
=============================================================================
