--------------------------- MODULE RecentPackages ---------------------------
(***************************************************************************)
(* The package Ids each user is remembered to have sent.  SendService adds *)
(* an Id to the configuration of its user when a package has started.      *)
(* PackageActionService loads these Ids, drops the ones whose packages no  *)
(* longer exist, saves the rest, and then gets, lists or stops packages,   *)
(* for a user who is no administrator only those of the Ids it has loaded. *)
(* Nothing locks the configuration between the load and the save.          *)
(*                                                                         *)
(* The lists of packages are those of PackageRegistry.  A package and its  *)
(* Id are one value.  The stored text of Ids, joined by commas, is a set;  *)
(* NoIds stands for a user without any stored text.                        *)
(***************************************************************************)
CONSTANTS Packages, Users, Admins, Requests, NoPackage,
          UserOf      \* the user who makes each request

ASSUME ConstantsAssumption == /\ Admins \subseteq Users
                              /\ UserOf \in [Requests -> Users]
                              /\ NoPackage \notin Packages

VARIABLES phase,      \* where a lookup finds each package
          sent,       \* the packages that each user has sent
          recentIds,  \* the stored Ids of each user
          unrecorded, \* packages that exist although the request that sent them
                      \* has failed, or could not store their Ids
          answered,   \* packages whose Id has reached a browser
          pc,         \* the next step of each request
          action,     \* the action type of each request
          package,    \* the package of each request
          ids,        \* the Ids that each request has loaded
          rest,       \* the Ids that each request has yet to look at
          current,    \* the Id that each request looks up
          shown       \* the packages in the answer to each request

store == <<recentIds, unrecorded, answered>>
locals == <<action, package, ids, rest, current, shown>>
vars == <<phase, sent, store, pc, locals>>

NoIds == {NoPackage}
Registry == INSTANCE PackageRegistry WITH Transfers <- Packages

ListTypes == {"list", "listRecent", "listAll", "listAllRecent"}
PackageActionTypes == {"get", "stop", "stopAll", "stopAllFromAll"} \cup ListTypes

Init == /\ Registry!Init
        /\ sent = [u \in Users |-> {}]
        /\ recentIds = [u \in Users |-> NoIds]
        /\ unrecorded = {} /\ answered = {}
        /\ pc = [r \in Requests |-> "idle"]
        /\ action = [r \in Requests |-> "send"]
        /\ package = [r \in Requests |-> NoPackage]
        /\ ids = [r \in Requests |-> {}]
        /\ rest = [r \in Requests |-> {}]
        /\ current = [r \in Requests |-> NoPackage]
        /\ shown = [r \in Requests |-> {}]

Goto(r, label) == pc' = [pc EXCEPT ![r] = label]
Answer(r, packages) == /\ shown' = [shown EXCEPT ![r] = packages]
                       /\ Goto(r, "idle")
Reveal(packages) == answered' = answered \cup packages

(* Stored text, read for adding and for filtering.                         *)
Stored(u) == IF recentIds[u] = NoIds THEN {} ELSE recentIds[u]
Save(u, newIds) == recentIds' = [recentIds EXCEPT ![u] = newIds]

-----------------------------------------------------------------------------
(* SendService: the rest of a request whose transfer has been registered.  *)

StartTransfer(r, p) ==
  /\ pc[r] = "idle"
  /\ Registry!Register(p)
  /\ sent' = [sent EXCEPT ![UserOf[r]] = @ \cup {p}]
  /\ action' = [action EXCEPT ![r] = "send"]
  /\ package' = [package EXCEPT ![r] = p]
  /\ shown' = [shown EXCEPT ![r] = {}]
  /\ Goto(r, "lookUp")
  /\ UNCHANGED <<store, ids, rest, current>>

(* The start throws: it has timed out, was interrupted, or has failed.  The *)
(* transfer has been registered all the same, and gets its package Id.     *)
StartFails(r) ==
  /\ pc[r] = "lookUp"
  /\ unrecorded' = unrecorded \cup {package[r]}
  /\ Answer(r, {})
  /\ UNCHANGED <<phase, sent, recentIds, answered, action, package, ids, rest, current>>

LookUp(r) ==
  /\ pc[r] = "lookUp"
  /\ Goto(r, IF phase[package[r]] = "running" THEN "loadToAdd" ELSE "lookUpArchive")
  /\ UNCHANGED <<phase, sent, store, locals>>

\* Variant: the package is looked up among the running transfers only.
LookUpRunningAgain(r) ==
  /\ pc[r] = "lookUpArchive"
  /\ Goto(r, IF phase[package[r]] = "running" THEN "loadToAdd" ELSE "notFound")
  /\ UNCHANGED <<phase, sent, store, locals>>

LookUpArchive(r) ==
  /\ pc[r] = "lookUpArchive"
  /\ Goto(r, IF phase[package[r]] = "archived" THEN "loadToAdd" ELSE "notFound")
  /\ UNCHANGED <<phase, sent, store, locals>>

(* The session has ended, or the new nonce cannot be made: the request     *)
(* ends with an error after the start, before the Id is added.             *)
RefreshNonceFails(r) ==
  /\ pc[r] = "loadToAdd"
  /\ unrecorded' = unrecorded \cup {package[r]}
  /\ Answer(r, {})
  /\ UNCHANGED <<phase, sent, recentIds, answered, action, package, ids, rest, current>>

LoadToAdd(r) ==
  /\ pc[r] = "loadToAdd"
  /\ ids' = [ids EXCEPT ![r] = Stored(UserOf[r])]
  /\ Goto(r, "saveAdded")
  /\ UNCHANGED <<phase, sent, store, action, package, rest, current, shown>>

\* Variant: the Ids loaded before are not saved again.
SaveAddedOnly(r) ==
  /\ pc[r] = "saveAdded"
  /\ Save(UserOf[r], {package[r]})
  /\ Reveal({package[r]})
  /\ Answer(r, {package[r]})
  /\ UNCHANGED <<phase, sent, unrecorded, action, package, ids, rest, current>>

SaveAdded(r) ==
  /\ pc[r] = "saveAdded"
  /\ Save(UserOf[r], ids[r] \cup {package[r]})
  /\ Reveal({package[r]})
  /\ Answer(r, {package[r]})
  /\ UNCHANGED <<phase, sent, unrecorded, action, package, ids, rest, current>>

(* Loading or saving fails: the error is logged, the package answered.     *)
AddFails(r) ==
  /\ pc[r] \in {"loadToAdd", "saveAdded"}
  /\ unrecorded' = unrecorded \cup {package[r]}
  /\ Reveal({package[r]})
  /\ Answer(r, {package[r]})
  /\ UNCHANGED <<phase, sent, recentIds, action, package, ids, rest, current>>

SendPackage(r) == \/ \E p \in Packages : StartTransfer(r, p)
                  \/ StartFails(r) \/ LookUp(r) \/ LookUpArchive(r)
                  \/ RefreshNonceFails(r) \/ LoadToAdd(r) \/ SaveAdded(r) \/ AddFails(r)

-----------------------------------------------------------------------------
(* PackageActionService: what every action does first.                     *)

(* A browser asks for packages whose Ids it knows.                         *)
Ask(r, type, p) ==
  /\ pc[r] = "idle"
  /\ p \in IF type \in {"get", "stop"} THEN answered ELSE {NoPackage}
  /\ action' = [action EXCEPT ![r] = type]
  /\ package' = [package EXCEPT ![r] = p]
  /\ shown' = [shown EXCEPT ![r] = {}]
  /\ Goto(r, "loadIds")
  /\ UNCHANGED <<phase, sent, store, ids, rest, current>>

(* Splitting a missing text fails; the service logs that and has no answer.*)
LoadIds(r) ==
  /\ pc[r] = "loadIds"
  /\ rest' = [rest EXCEPT ![r] = Stored(UserOf[r])]
  /\ ids' = [ids EXCEPT ![r] = {}]
  /\ Goto(r, IF recentIds[UserOf[r]] = NoIds THEN "noIds" ELSE "filter")
  /\ UNCHANGED <<phase, sent, store, action, package, current, shown>>

(* An Id is looked up among the running transfers first, then in the       *)
(* archive, with a lock for each lookup.                                   *)
FilterRunning(r, p) ==
  /\ pc[r] = "filter" /\ p \in rest[r]
  /\ rest' = [rest EXCEPT ![r] = @ \ {p}]
  /\ current' = [current EXCEPT ![r] = p]
  /\ IF phase[p] = "running" THEN ids' = [ids EXCEPT ![r] = @ \cup {p}] /\ UNCHANGED pc
                             ELSE Goto(r, "filterArchive") /\ UNCHANGED ids
  /\ UNCHANGED <<phase, sent, store, action, package, shown>>

\* Variant: the running transfers are searched last.
FilterRunningLast(r) ==
  /\ pc[r] = "filterArchive"
  /\ ids' = IF phase[current[r]] = "running"
            THEN [ids EXCEPT ![r] = @ \cup {current[r]}] ELSE ids
  /\ Goto(r, "filter")
  /\ UNCHANGED <<phase, sent, store, action, package, rest, current, shown>>

FilterArchive(r) ==
  /\ pc[r] = "filterArchive"
  /\ ids' = IF phase[current[r]] = "archived"
            THEN [ids EXCEPT ![r] = @ \cup {current[r]}] ELSE ids
  /\ Goto(r, "filter")
  /\ UNCHANGED <<phase, sent, store, action, package, rest, current, shown>>

GetExistentPackageIds(r) == (\E p \in rest[r] : FilterRunning(r, p)) \/ FilterArchive(r)

SaveIds(r) ==
  /\ pc[r] = "filter" /\ rest[r] = {}
  /\ Save(UserOf[r], ids[r])
  /\ Goto(r, "handle")
  /\ UNCHANGED <<phase, sent, unrecorded, answered, locals>>

(* Loading or saving fails, or the stored text is missing: no action runs. *)
ExecuteFails(r) ==
  /\ \/ pc[r] \in {"loadIds", "noIds"}
     \/ pc[r] = "filter" /\ rest[r] = {}
  /\ Answer(r, {})
  /\ UNCHANGED <<phase, sent, store, action, package, ids, rest, current>>

-----------------------------------------------------------------------------
(* The package actions.                                                    *)

IsAdmin(r) == UserOf[r] \in Admins
IsMyPackage(r) == package[r] \in ids[r]
\* Variant: anybody lists the packages of all users.
IsValidToListAll(r) == \/ IsAdmin(r)
                       \/ action[r] \in {"get", "stop"} /\ IsMyPackage(r)
                       \/ action[r] \in ListTypes \cup {"stopAll"}
IsValid(r) == \/ IsAdmin(r)
              \/ action[r] \in {"get", "stop"} /\ IsMyPackage(r)
              \/ action[r] \in {"list", "listRecent", "stopAll"}

Handles(r, types) == pc[r] = "handle" /\ action[r] \in types /\ IsValid(r)

(* An action that is not valid has an empty answer, and so has stopping    *)
(* all packages when transfers are added or archived while their list is   *)
(* walked without its lock.                                                *)
HandleFails(r) ==
  /\ pc[r] = "handle"
  /\ ~IsValid(r) \/ action[r] = "stopAllFromAll"
  /\ Answer(r, {})
  /\ UNCHANGED <<phase, sent, store, action, package, ids, rest, current>>

Get(r) ==
  /\ Handles(r, {"get"})
  /\ IF phase[package[r]] = "running" THEN Answer(r, {package[r]})
                                      ELSE Goto(r, "getArchived") /\ UNCHANGED shown
  /\ UNCHANGED <<phase, sent, store, action, package, ids, rest, current>>

\* Variant: the running transfers are searched last.
GetRunningLast(r) ==
  /\ pc[r] = "getArchived"
  /\ Answer(r, {package[r]} \cap {p \in Packages : phase[p] = "running"})
  /\ UNCHANGED <<phase, sent, store, action, package, ids, rest, current>>

GetArchived(r) ==
  /\ pc[r] = "getArchived"
  /\ Answer(r, {package[r]} \cap {p \in Packages : phase[p] = "archived"})
  /\ UNCHANGED <<phase, sent, store, action, package, ids, rest, current>>

List(r) ==
  /\ Handles(r, ListTypes)
  /\ LET listed == {p \in Packages : phase[p] = IF action[r] \in {"list", "listAll"}
                                                THEN "running" ELSE "archived"}
     IN  Answer(r, IF action[r] \in {"list", "listRecent"} THEN listed \cap ids[r]
                                                           ELSE listed)
  /\ Reveal(shown'[r])
  /\ UNCHANGED <<phase, sent, recentIds, unrecorded, action, package, ids, rest, current>>

StopPackages(r) ==
  /\ Handles(r, {"stop", "stopAll", "stopAllFromAll"})
  /\ rest' = [rest EXCEPT ![r] = {p \in Packages :
                 \/ action[r] = "stop" /\ p = package[r]
                 \/ action[r] = "stopAll" /\ p \in ids[r]
                 \/ action[r] = "stopAllFromAll" /\ phase[p] = "running"}]
  /\ Goto(r, "stopTransfers")
  /\ UNCHANGED <<phase, sent, store, action, package, ids, current, shown>>

(* A running transfer is stopped and archived, or proves to have ended.    *)
StopTransfer(r, p) ==
  /\ pc[r] = "stopTransfers" /\ p \in rest[r]
  /\ rest' = [rest EXCEPT ![r] = @ \ {p}]
  /\ \/ /\ Registry!Archive(p)
        /\ shown' = [shown EXCEPT ![r] = @ \cup {p}]
     \/ UNCHANGED <<phase, shown>>
  /\ UNCHANGED <<sent, store, pc, action, package, ids, current>>

StopReturns(r) ==
  /\ pc[r] = "stopTransfers" /\ rest[r] = {}
  /\ Answer(r, shown[r])
  /\ Reveal(shown[r])
  /\ UNCHANGED <<phase, sent, recentIds, unrecorded, action, package, ids, rest, current>>

HandleAction(r) == \/ HandleFails(r) \/ Get(r) \/ GetArchived(r) \/ List(r)
                   \/ StopPackages(r) \/ StopReturns(r)
                   \/ \E p \in rest[r] : StopTransfer(r, p)

Execute(r) == \/ \E type \in PackageActionTypes, p \in Packages \cup {NoPackage} :
                   Ask(r, type, p)
              \/ LoadIds(r) \/ GetExistentPackageIds(r) \/ SaveIds(r)
              \/ ExecuteFails(r) \/ HandleAction(r)

-----------------------------------------------------------------------------
(* A transfer ends and is archived by its own threads.                     *)
Archive(p) == Registry!Archive(p) /\ UNCHANGED <<sent, store, pc, locals>>

(* The server restarts: the lists and the requests are lost, the           *)
(* configuration of the users is kept.                                     *)
Restart ==
  /\ phase' = [p \in Packages |-> IF phase[p] = "absent" THEN "absent" ELSE "gone"]
  /\ pc' = [r \in Requests |-> "idle"]
  /\ shown' = [r \in Requests |-> {}]
  /\ UNCHANGED <<sent, store, action, package, ids, rest, current>>

Next == \/ \E r \in Requests : SendPackage(r) \/ Execute(r)
        \/ \E p \in Packages : Archive(p)
        \/ Restart

Spec == Init /\ [][Next]_vars

-----------------------------------------------------------------------------
Exists(p) == phase[p] \in {"running", "archived"}

(* Every variable keeps its type.                                          *)
TypeOK ==
  /\ phase \in [Packages -> {"absent", "running", "archived", "gone"}]
  /\ sent \in [Users -> SUBSET Packages]
  /\ recentIds \in [Users -> (SUBSET Packages) \cup {NoIds}]
  /\ unrecorded \subseteq Packages /\ answered \subseteq Packages
  /\ pc \in [Requests -> {"idle", "lookUp", "lookUpArchive", "notFound", "loadToAdd",
                          "saveAdded", "loadIds", "noIds", "filter", "filterArchive",
                          "handle", "getArchived", "stopTransfers"}]
  /\ action \in [Requests -> PackageActionTypes \cup {"send"}]
  /\ package \in [Requests -> Packages \cup {NoPackage}]
  /\ current \in [Requests -> Packages \cup {NoPackage}]
  /\ ids \in [Requests -> SUBSET Packages]
  /\ rest \in [Requests -> SUBSET Packages]
  /\ shown \in [Requests -> SUBSET Packages]

(* sendPackage finds the package it has started: a package may be archived *)
(* between the lookup among the running transfers and the one in the       *)
(* archive, but not the other way round.                                   *)
SentIsFound == \A r \in Requests : pc[r] # "notFound"

(* The packages that a user who is no administrator is shown or stops were *)
(* sent by that user, whatever requests have stored meanwhile.             *)
OwnPackagesOnly == \A r \in Requests : IsAdmin(r) \/ shown[r] \subseteq sent[UserOf[r]]

(* While a package exists, a request of its sender about it is valid,      *)
(* unless the request that sent it has failed or could not store its Id.   *)
OwnPackageIsValid ==
  \A r \in Requests :
    pc[r] = "handle" /\ action[r] \in {"get", "stop"} =>
      \/ IsValid(r)
      \/ package[r] \notin sent[UserOf[r]] \ unrecorded
      \/ ~Exists(package[r])

(* A request to get a package that exists finds it, although the package   *)
(* may be archived between the two lookups.                                *)
GetFindsExisting ==
  [][\A r \in Requests :
       pc[r] = "getArchived" /\ pc'[r] = "idle" /\ Exists(package[r])' =>
         package[r] \in shown'[r]]_vars

(* The packages that a user must be shown by a list: those that exist and  *)
(* were sent by the user, but for those whose request has failed after the *)
(* start, or could not store the Id.                                       *)
Remembered(r) == {p \in sent[UserOf[r]] \ unrecorded : Exists(p)}

(* A user who lists packages is shown every one that is remembered: all    *)
(* that run, or all that are archived, even if they moved from one list to *)
(* the other while the Ids were loaded, filtered and saved.  (A package    *)
(* whose request failed after the start is in no list of its sender.)      *)
ListIsComplete ==
  [][\A r \in Requests :
       pc[r] = "handle" /\ pc'[r] = "idle" /\ action[r] \in {"list", "listRecent"} =>
         \A p \in Remembered(r)' :
           phase'[p] = (IF action[r] = "list" THEN "running" ELSE "archived") =>
             p \in shown'[r]]_vars

-----------------------------------------------------------------------------
(* The inductive invariant.                                                *)

(* The actions work on Ids of packages that exist.                         *)
HandledIdsExist ==
  \A r \in Requests : pc[r] = "handle" => \A p \in ids[r] : Exists(p)

SendLabels == {"lookUp", "lookUpArchive", "loadToAdd", "saveAdded"}
FilterLabels == {"filter", "filterArchive"}

(* What a user has sent is registered, and whatever is stored or loaded    *)
(* for a user was sent by that user.                                       *)
SentOrder ==
  /\ \A p \in answered : phase[p] # "absent"
  /\ \A u \in Users : /\ \A p \in sent[u] : phase[p] # "absent"
                      /\ Stored(u) \subseteq sent[u]
  /\ \A r \in Requests :
       /\ ids[r] \subseteq sent[UserOf[r]]
       /\ \A p \in shown[r] : phase[p] # "absent"
       /\ pc[r] \in FilterLabels => rest[r] \subseteq sent[UserOf[r]]
       /\ pc[r] = "stopTransfers" => IsAdmin(r) \/ rest[r] \subseteq sent[UserOf[r]]
       /\ pc[r] \in SendLabels => package[r] \in sent[UserOf[r]]
       /\ action[r] \in {"get", "stop"} => package[r] \in answered
       /\ pc[r] = "filterArchive" => current[r] \in sent[UserOf[r]]
       /\ pc[r] = "getArchived" => package[r] \in answered
       /\ pc[r] = "getArchived" => IsAdmin(r) \/ package[r] \in ids[r]

(* What a lookup and a filter have seen remains true while they go on.     *)
LookUpOrder ==
  \A r \in Requests :
    /\ pc[r] \in {"lookUp", "lookUpArchive"} => Exists(package[r])
    /\ pc[r] = "lookUpArchive" => phase[package[r]] # "running"
    /\ pc[r] = "filterArchive" => phase[current[r]] # "running"
    /\ pc[r] = "getArchived" => phase[package[r]] # "running"
    /\ pc[r] \in FilterLabels => \A p \in ids[r] : Exists(p)

(* The invariant of any number of requests.                                *)
Inv == /\ TypeOK
       /\ SentIsFound /\ OwnPackagesOnly /\ HandledIdsExist
       /\ SentOrder /\ LookUpOrder

(* No two requests have the same user.                                     *)
Serial == \A q, r \in Requests : UserOf[q] = UserOf[r] => q = r

(* When no two requests have the same user, the stored Ids of a user are   *)
(* the existing packages this user has sent, up to the one being added and *)
(* those whose requests have failed, and a request holds what it has       *)
(* loaded of them.                                                         *)
SerialOrder(r) ==
  /\ \A p \in Remembered(r) : \/ p \in Stored(UserOf[r])
                              \/ pc[r] \in SendLabels /\ p = package[r]
  /\ pc[r] = "saveAdded" => ids[r] = Stored(UserOf[r])
  /\ pc[r] = "handle" => ids[r] = Stored(UserOf[r])
  /\ pc[r] = "filter" => Remembered(r) \subseteq ids[r] \cup rest[r]
  /\ pc[r] = "filterArchive" => Remembered(r) \subseteq ids[r] \cup rest[r] \cup {current[r]}

SerialInv == \A r \in Requests : SerialOrder(r)
=============================================================================
