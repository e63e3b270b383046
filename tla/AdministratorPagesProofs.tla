------------------------ MODULE AdministratorPagesProofs ------------------------
(***************************************************************************)
(* Theorems about the two pages of an administrator: ConfigurationPane for *)
(* any options and values, PackageConsole for any finite set of packages,  *)
(* any requests, and answers in any order.                                 *)
(***************************************************************************)
EXTENDS ConfigurationPane, PackageConsole, FiniteSetTheorems, TLAPS

-----------------------------------------------------------------------------
(* The configuration pane *)

(* The string of an open pane lacks an option only if what is saved does.  *)
AbsentInv ==
    paneOpen => \A f \in Fields : configurationString[f] = Absent => saved[f] = Absent

PaneInv == PaneTypeOK /\ StringIsCurrent /\ SavedIsValid /\ AbsentInv

LEMMA FieldTypes ==
  /\ InitialFields \in [Fields -> Values \cup {Invalid}]
  /\ NothingConfigured \in Configurations
BY PaneAssumption DEF InitialFields, NothingConfigured, Configurations

LEMMA LoadedType ==
  ASSUME NEW string \in Configurations
  PROVE  Loaded(string) \in [Fields -> Values \cup {Invalid}]
BY FieldTypes DEF Loaded, Configurations, Options

(* What an edit writes is what the widgets show.                           *)
LEMMA OnParamChangeStep ==
  ASSUME NEW values \in [Fields -> Values \cup {Invalid}], OnParamChange(values)
  PROVE  /\ configurationString' \in Configurations
         /\ \A f \in Fields : configurationString'[f] = values[f]
         /\ saveNeeded' \in BOOLEAN /\ pasted' \in BOOLEAN
BY PaneAssumption DEF OnParamChange, Configurations, Options

LEMMA PaneInitStep == PaneInit => PaneInv
<1> SUFFICES ASSUME PaneInit PROVE PaneInv
  OBVIOUS
<1>1. saved \in [Options -> Values \cup {Absent}]
  BY DEF PaneInit, NothingConfigured
<1>2. PaneTypeOK
  BY <1>1, FieldTypes DEF PaneInit, PaneTypeOK, Configurations
<1>3. SavedIsValid
  BY <1>1, PaneAssumption DEF SavedIsValid, Options, Fields
<1> QED
  BY <1>2, <1>3 DEF PaneInit, PaneInv, StringIsCurrent, AbsentInv

LEMMA LoadStep == ASSUME PaneInv, Load PROVE PaneInv'
<1> USE DEF Load
<1>1. PaneTypeOK'
  BY LoadedType DEF PaneInv, PaneTypeOK
<1>2. StringIsCurrent'
  BY DEF StringIsCurrent, Loaded
<1> QED
  BY <1>1, <1>2 DEF PaneInv, SavedIsValid, AbsentInv

LEMMA EditStep ==
  ASSUME PaneInv,
         \/ OnChange
         \/ \E v \in Values \cup {Invalid} :
               \/ \E byKeyboard \in BOOLEAN : EnterUrl(v, byKeyboard)
               \/ \E f \in Spinners : Spin(f, v)
  PROVE  PaneInv'
<1>1. ASSUME NEW v \in Values \cup {Invalid}, EnterUrl(v, TRUE) PROVE PaneInv'
  <2> USE <1>1 DEF EnterUrl
  <2>1. field' \in [Fields -> Values \cup {Invalid}] /\ OnParamChange(field')
    BY DEF PaneInv, PaneTypeOK
  <2>2. \A f \in Fields : configurationString'[f] = field'[f] /\ field'[f] # Absent
    BY <2>1, OnParamChangeStep, PaneAssumption
  <2> QED
    BY <2>1, <2>2, OnParamChangeStep
    DEF PaneInv, PaneTypeOK, StringIsCurrent, SavedIsValid, AbsentInv
<1>2. ASSUME NEW v \in Values \cup {Invalid}, EnterUrl(v, FALSE) PROVE PaneInv'
  BY <1>2 DEF EnterUrl, PaneInv, PaneTypeOK, StringIsCurrent, SavedIsValid, AbsentInv
<1>3. ASSUME NEW v \in Values \cup {Invalid}, NEW f \in Spinners, Spin(f, v) PROVE PaneInv'
  BY <1>3 DEF Spin, PaneInv, PaneTypeOK, StringIsCurrent, SavedIsValid, AbsentInv
<1>4. CASE OnChange
  <2> USE <1>4 DEF OnChange
  <2>1. \A f \in Fields : configurationString'[f] = field'[f] /\ field'[f] # Absent
    BY OnParamChangeStep, PaneAssumption DEF PaneInv, PaneTypeOK
  <2> QED
    BY <2>1, OnParamChangeStep
    DEF PaneInv, PaneTypeOK, StringIsCurrent, SavedIsValid, AbsentInv
<1> QED
  BY <1>1, <1>2, <1>3, <1>4

LEMMA SaveStep == ASSUME PaneInv, Save PROVE PaneInv'
<1> USE DEF Save
<1>1. PaneTypeOK' /\ StringIsCurrent' /\ AbsentInv'
  BY DEF PaneInv, PaneTypeOK, StringIsCurrent, AbsentInv
<1>2. SavedIsValid'
  BY PaneAssumption DEF PaneInv, StringIsCurrent, SavedIsValid, Validate, Fields
<1> QED
  BY <1>1, <1>2 DEF PaneInv

(* The inductive invariant holds.                                          *)
THEOREM PaneInvariance == PaneSpec => []PaneInv
<1>1. PaneInv /\ [PaneNext]_paneVars => PaneInv'
  <2> SUFFICES ASSUME PaneInv, [PaneNext]_paneVars PROVE PaneInv'
    OBVIOUS
  <2>1. CASE Close
    BY <2>1, FieldTypes
    DEF Close, PaneInv, PaneTypeOK, StringIsCurrent, SavedIsValid, AbsentInv
  <2>2. CASE UNCHANGED paneVars
    BY <2>2
    DEF paneVars, pane, PaneInv, PaneTypeOK, StringIsCurrent, SavedIsValid, AbsentInv
  <2> QED
    BY <2>1, <2>2, LoadStep, EditStep, SaveStep DEF PaneNext
<1> QED
  BY <1>1, PaneInitStep, PTL DEF PaneSpec

(* The string that can be saved says what the pane shows.                  *)
THEOREM StringSafety == PaneSpec => []StringIsCurrent
<1>1. PaneInv => StringIsCurrent BY DEF PaneInv
<1> QED BY <1>1, PaneInvariance, PTL

(* No number is stored that its spinner does not accept.                   *)
THEOREM SavedSafety == PaneSpec => []SavedIsValid
<1>1. PaneInv => SavedIsValid BY DEF PaneInv
<1> QED BY <1>1, PaneInvariance, PTL

(* An option that still has the value with which it was loaded keeps it    *)
(* when the others are saved.                                              *)
THEOREM KeepingSafety == PaneSpec => UneditedIsKept
<1>1. PaneInv /\ [PaneNext]_paneVars =>
        [Save => \A f \in Fields :
            saved[f] # Absent /\ field[f] = Loaded(saved)[f] /\ ~pasted
                => saved'[f] = saved[f]]_paneVars
  <2> SUFFICES ASSUME PaneInv, Save, NEW f \in Fields,
                      saved[f] # Absent, field[f] = Loaded(saved)[f], ~pasted
               PROVE  saved'[f] = saved[f]
    OBVIOUS
  <2>1. field[f] = saved[f]
    BY DEF Loaded
  <2>2. configurationString[f] = field[f]
    BY DEF Save, PaneInv, StringIsCurrent, AbsentInv
  <2> QED
    BY <2>1, <2>2 DEF Save
<1> QED
  BY <1>1, PaneInvariance, PTL DEF PaneSpec, UneditedIsKept

-----------------------------------------------------------------------------
(* The console *)

(* A request to get or stop a package holds an object for it.              *)
AskedInv ==
    \A r \in Requests :
        request[r].type \in {"get", "stop"}
            => request[r].pkg \in Asked /\ request[r].pkg.package = request[r].meant

(* The history has every package that is stopped.                          *)
HistoryInv == \A p \in Packages : phase[p] = "stopped" => p \in wasStopped

(* What has been reported as stopped is a package, and has been stopped.   *)
StoppedInv ==
    \A r \in Requests :
        StopAnswered(r) /\ request[r].stopped => request[r].pkg.package \in wasStopped

ConsoleInv == ConsoleTypeOK /\ AskedInv /\ HistoryInv /\ StoppedInv

LEMMA NumberOfPackages == Cardinality(Packages) \in Nat
BY ConsoleAssumption, FS_CardinalityType

(* The numbers of a list of packages can be asked for.                     *)
LEMMA ListsAreNumbered ==
  ASSUME NEW list \in Lists
  PROVE  /\ DOMAIN list \subseteq Numbers
         /\ \A i \in DOMAIN list : list[i] \in Entries
<1>1. PICK n \in 0..Cardinality(Packages) : list \in [1..n -> Entries]
  BY DEF Lists
<1> QED
  BY <1>1, NumberOfPackages DEF Numbers

LEMMA EmptyList == << >> \in Lists
<1>1. 0 \in 0..Cardinality(Packages)
  BY NumberOfPackages
<1>2. << >> \in [1..0 -> Entries]
  OBVIOUS
<1> QED
  BY <1>1, <1>2 DEF Lists

(* A list of the server shows its packages in some order.                  *)
LEMMA ListedType ==
  ASSUME NEW S \in SUBSET Packages, NEW packages \in SetToSeqs(S)
  PROVE  [i \in DOMAIN packages |-> Listed(packages[i])] \in Lists
<1>1. Cardinality(S) \in 0..Cardinality(Packages)
  BY ConsoleAssumption, NumberOfPackages, FS_Subset, FS_CardinalityType
<1>2. packages \in [1..Cardinality(S) -> S]
  BY DEF SetToSeqs
<1>3. \A p \in Packages : Listed(p) \in Entries
  BY DEF Listed, Entries
<1>4. [i \in DOMAIN packages |-> Listed(packages[i])] \in [1..Cardinality(S) -> Entries]
  BY <1>2, <1>3
<1> QED
  BY <1>1, <1>4 DEF Lists

(* A name is looked up as the console has printed it.                      *)
LEMMA GetPackageIsMeant ==
  ASSUME ConsoleTypeOK, NEW name \in Names
  PROVE  /\ GetPackage(name) \in Asked
         /\ GetPackage(name).package = Meant(name)
         /\ Meant(name) \in Packages \cup {NoPackage}
<1>0. packagesBuffer \in Lists /\ numbered = [i \in DOMAIN packagesBuffer |-> packagesBuffer[i].package]
  BY DEF ConsoleTypeOK
<1>1. CASE name \in DOMAIN packagesBuffer
  <2>1. name \in Numbers /\ packagesBuffer[name] \in Entries
    BY <1>0, <1>1, ListsAreNumbered
  <2>2. Meant(name) = packagesBuffer[name].package
    BY <1>0, <1>1 DEF Meant
  <2> QED
    BY <1>1, <2>1, <2>2 DEF GetPackage, Asked, Entries
<1>2. CASE name \in Numbers \ DOMAIN packagesBuffer
  <2>1. GetPackage(name) = [package |-> NoPackage, id |-> UnknownId] /\ Meant(name) = NoPackage
    BY <1>0, <1>2 DEF GetPackage, Meant
  <2> QED
    BY <2>1 DEF Asked
<1>3. CASE name \in Packages \ Numbers
  <2>1. name \notin DOMAIN packagesBuffer
    BY <1>0, <1>3, ListsAreNumbered
  <2>2. GetPackage(name) = [package |-> name, id |-> name] /\ Meant(name) = name
    BY <1>0, <1>3, <2>1 DEF GetPackage, Meant
  <2> QED
    BY <1>3, <2>2 DEF Asked, Entries
<1> QED
  BY <1>1, <1>2, <1>3 DEF Names

(* A request that asks for something, is answered or is dropped leaves the *)
(* others alone.                                                           *)
LEMMA OthersStep ==
  ASSUME ConsoleInv, NEW r \in Requests, NEW new,
         request' = [request EXCEPT ![r] = new]
  PROVE  \A q \in Requests : request'[q] = IF q = r THEN new ELSE request[q]
BY DEF ConsoleInv, ConsoleTypeOK

Phases == {"absent", "pending", "running", "stopped", "resumed", "ended", "failed",
           "forgotten"}

(* What a step of the server may do: the history only grows, by packages   *)
(* that are stopped.                                                       *)
ServerStep ==
    /\ phase' \in [Packages -> Phases]
    /\ wasStopped' \subseteq Packages
    /\ wasStopped \subseteq wasStopped'
    /\ HistoryInv'

LEMMA RememberStep ==
  ASSUME ConsoleInv, phase' \in [Packages -> Phases], Remember
  PROVE  ServerStep
BY DEF ConsoleInv, ConsoleTypeOK, Remember, ServerStep, HistoryInv

LEMMA PackageChangesStep ==
  ASSUME ConsoleInv, NEW p \in Packages, PackageChanges(p)
  PROVE  ConsoleInv'
<1>1. phase' \in [Packages -> Phases]
  BY DEF PackageChanges, Become, ConsoleInv, ConsoleTypeOK, Phases
<1>2. ServerStep
  BY <1>1, RememberStep DEF PackageChanges
<1>3. UNCHANGED <<packagesBuffer, numbered, request>>
  BY DEF PackageChanges, console
<1>4. ConsoleTypeOK'
  BY <1>2, <1>3 DEF ConsoleInv, ConsoleTypeOK, ServerStep, Phases
<1>5. AskedInv'
  BY <1>3 DEF ConsoleInv, AskedInv
<1>6. StoppedInv'
  BY <1>2, <1>3 DEF ConsoleInv, StoppedInv, StopAnswered, ServerStep
<1> QED
  BY <1>2, <1>4, <1>5, <1>6 DEF ConsoleInv, ServerStep

LEMMA StopPackagesStep ==
  ASSUME ConsoleInv, NEW candidates \in SUBSET Packages,
         \A p \in candidates : phase[p] = "running",
         NEW stopped \in SUBSET candidates, StopPackages(candidates, stopped)
  PROVE  ServerStep
<1>1. phase' \in [Packages -> Phases]
  BY DEF ConsoleInv, ConsoleTypeOK, StopPackages, Phases
<1> QED
  BY <1>1, RememberStep DEF StopPackages

RequestTypes == {"idle", "get", "stop"} \cup ListTypes \cup StopAllTypes
RequestRecords ==
    [type : RequestTypes, state : {"idle", "posted", "serving", "served"},
     name : Names \cup {NoPackage}, pkg : Asked \cup {NoPackage},
     meant : Packages \cup {NoPackage}, packages : Lists, stopped : BOOLEAN]

(* What a request that changes has to be for the invariant to hold again.  *)
LEMMA RequestStep ==
  ASSUME ConsoleInv, NEW r \in Requests, NEW new \in RequestRecords,
         request' = [request EXCEPT ![r] = new],
         ServerStep,
         new.type \in {"get", "stop"} => new.pkg \in Asked /\ new.pkg.package = new.meant,
         new.type = "stop" /\ new.state = "served" /\ new.stopped
             => new.pkg.package \in wasStopped,
         packagesBuffer' \in Lists,
         numbered' = [i \in DOMAIN packagesBuffer' |-> packagesBuffer'[i].package]
  PROVE  ConsoleInv'
<1>1. \A q \in Requests : request'[q] = IF q = r THEN new ELSE request[q]
  BY OthersStep
<1>2. request' \in [Requests -> RequestRecords]
  BY DEF ConsoleInv, ConsoleTypeOK, RequestRecords, RequestTypes
<1>3. ConsoleTypeOK'
  BY <1>2 DEF ConsoleTypeOK, RequestRecords, RequestTypes, ServerStep, Phases
<1>4. AskedInv'
  BY <1>1 DEF ConsoleInv, AskedInv
<1>5. StoppedInv'
  BY <1>1 DEF ConsoleInv, StoppedInv, StopAnswered, ServerStep
<1> QED
  BY <1>3, <1>4, <1>5 DEF ConsoleInv, ServerStep

LEMMA IdleType == Idle \in RequestRecords /\ Idle.type = "idle"
BY EmptyList DEF Idle, RequestRecords, RequestTypes

LEMMA ServerUnchanged ==
  ASSUME ConsoleInv, UNCHANGED server
  PROVE  ServerStep
BY DEF ConsoleInv, ConsoleTypeOK, server, ServerStep, HistoryInv, Phases

LEMMA BufferUnchanged ==
  ASSUME ConsoleInv, UNCHANGED <<packagesBuffer, numbered>>
  PROVE  /\ packagesBuffer' \in Lists
         /\ numbered' = [i \in DOMAIN packagesBuffer' |-> packagesBuffer'[i].package]
BY DEF ConsoleInv, ConsoleTypeOK

LEMMA RequestActionStep ==
  ASSUME ConsoleInv, NEW r \in Requests, NEW type \in ListTypes \cup StopAllTypes,
         RequestAction(r, type)
  PROVE  ConsoleInv'
<1> DEFINE new == [Idle EXCEPT !.type = type, !.state = "posted"]
<1>1. new \in RequestRecords /\ new.type \notin {"get", "stop"}
  BY IdleType DEF RequestRecords, RequestTypes, ListTypes, StopAllTypes
<1>2. request' = [request EXCEPT ![r] = new] /\ UNCHANGED <<server, packagesBuffer, numbered>>
  BY DEF RequestAction, Post
<1> HIDE DEF new
<1> QED
  BY <1>1, <1>2, RequestStep, ServerUnchanged, BufferUnchanged

LEMMA AskStep ==
  ASSUME ConsoleInv, NEW r \in Requests, NEW type \in {"get", "stop"}, NEW name \in Names,
         Ask(r, type, name)
  PROVE  ConsoleInv'
<1> DEFINE new == [Idle EXCEPT !.type = type, !.state = "posted", !.name = name,
                               !.pkg = GetPackage(name), !.meant = Meant(name)]
<1>0. /\ GetPackage(name) \in Asked /\ GetPackage(name).package = Meant(name)
      /\ Meant(name) \in Packages \cup {NoPackage}
  BY GetPackageIsMeant DEF ConsoleInv
<1>1. /\ new \in RequestRecords /\ new.state = "posted"
      /\ new.pkg = GetPackage(name) /\ new.meant = Meant(name)
  BY <1>0, IdleType DEF RequestRecords, RequestTypes
<1>2. request' = [request EXCEPT ![r] = new] /\ UNCHANGED <<server, packagesBuffer, numbered>>
  BY DEF Ask, Post
<1> HIDE DEF new
<1> QED
  BY <1>0, <1>1, <1>2, RequestStep, ServerUnchanged, BufferUnchanged

(* The record that the server leaves is that of the request, answered.     *)
LEMMA ServeStep ==
  ASSUME ConsoleInv, NEW r \in Requests, NEW packages \in Lists, NEW stopped \in BOOLEAN,
         Serve(r, packages, stopped), ServerStep,
         request[r].type = "stop" /\ stopped => request[r].pkg.package \in wasStopped
  PROVE  ConsoleInv'
<1> DEFINE new == [request[r] EXCEPT !.state = "served", !.packages = packages,
                                     !.stopped = stopped]
<1>1. request[r] \in RequestRecords
  BY DEF ConsoleInv, ConsoleTypeOK, RequestRecords, RequestTypes
<1>2. /\ new \in RequestRecords /\ new.type = request[r].type /\ new.pkg = request[r].pkg
      /\ new.meant = request[r].meant /\ new.stopped = stopped
  BY <1>1 DEF RequestRecords
<1>3. request' = [request EXCEPT ![r] = new] /\ UNCHANGED <<packagesBuffer, numbered>>
  BY DEF Serve
<1>4. new.type \in {"get", "stop"} => new.pkg \in Asked /\ new.pkg.package = new.meant
  BY <1>2 DEF ConsoleInv, AskedInv
<1> HIDE DEF new
<1> QED
  BY <1>2, <1>3, <1>4, RequestStep, BufferUnchanged

LEMMA ServeListStep ==
  ASSUME ConsoleInv, NEW r \in Requests, ServeList(r)
  PROVE  ConsoleInv'
<1>1. PICK packages \in SetToSeqs(ListedFor(request[r].type)) :
          Serve(r, [i \in DOMAIN packages |-> Listed(packages[i])], FALSE)
  BY DEF ServeList
<1>2. ListedFor(request[r].type) \subseteq Packages
  BY ConsoleAssumption DEF ListedFor
<1>3. [i \in DOMAIN packages |-> Listed(packages[i])] \in Lists
  BY <1>2, ListedType
<1>4. UNCHANGED server
  BY DEF ServeList
<1> QED
  BY <1>1, <1>3, <1>4, ServeStep, ServerUnchanged

LEMMA ServeStopAllStep ==
  ASSUME ConsoleInv, NEW r \in Requests, ServeStopAll(r)
  PROVE  ConsoleInv'
<1> DEFINE candidates == {p \in IF request[r].type = "stopAll" THEN Mine ELSE Packages :
                             phase[p] = "running"}
<1>1. PICK stopped \in SUBSET candidates :
          StopPackages(candidates, stopped) /\ Serve(r, << >>, FALSE)
  BY DEF ServeStopAll
<1>2. candidates \in SUBSET Packages /\ \A p \in candidates : phase[p] = "running"
  BY ConsoleAssumption
<1>3. ServerStep
  <2> HIDE DEF candidates
  <2> QED BY <1>1, <1>2, StopPackagesStep
<1> QED
  BY <1>1, <1>3, EmptyList, ServeStep

(* Stopping leaves the request as it was, to be served on.                 *)
LEMMA ServeStopStep ==
  ASSUME ConsoleInv, NEW r \in Requests, ServeStop(r)
  PROVE  ConsoleInv'
<1> DEFINE candidates == {p \in Packages : p = request[r].pkg.id /\ phase[p] = "running"}
           new == [request[r] EXCEPT !.state = "serving"]
<1>1. PICK stopped \in SUBSET candidates : StopPackages(candidates, stopped)
  BY DEF ServeStop
<1>2. candidates \in SUBSET Packages /\ \A p \in candidates : phase[p] = "running"
  OBVIOUS
<1>3. ServerStep
  <2> HIDE DEF candidates
  <2> QED BY <1>1, <1>2, StopPackagesStep
<1>4. request[r] \in RequestRecords
  BY DEF ConsoleInv, ConsoleTypeOK, RequestRecords, RequestTypes
<1>5. /\ new \in RequestRecords /\ new.type = request[r].type /\ new.pkg = request[r].pkg
      /\ new.meant = request[r].meant /\ new.state = "serving"
  BY <1>4 DEF RequestRecords
<1>6. request' = [request EXCEPT ![r] = new] /\ UNCHANGED <<packagesBuffer, numbered>>
  BY DEF ServeStop
<1>7. new.type \in {"get", "stop"} => new.pkg \in Asked /\ new.pkg.package = new.meant
  BY <1>5 DEF ConsoleInv, AskedInv
<1> HIDE DEF new
<1> QED
  BY <1>3, <1>5, <1>6, <1>7, RequestStep, BufferUnchanged

LEMMA ServeStoppedStep ==
  ASSUME ConsoleInv, NEW r \in Requests, ServeStopped(r)
  PROVE  ConsoleInv'
<1> DEFINE answer == \E p \in Packages : p = request[r].pkg.id /\ IsTransferStopped(p)
<1>1. /\ request[r].type = "stop" /\ Serve(r, << >>, answer) /\ UNCHANGED server
      /\ answer \in BOOLEAN
  BY DEF ServeStopped
<1>2. ASSUME answer PROVE request[r].pkg.package \in wasStopped
  <2>1. request[r].pkg \in Asked
    BY <1>1 DEF ConsoleInv, AskedInv
  <2>2. PICK p \in Packages : p = request[r].pkg.id /\ IsTransferStopped(p)
    BY <1>2
  <2>3. request[r].pkg.package = p
    BY <2>1, <2>2, ConsoleAssumption DEF Asked, Entries
  <2> QED
    BY <2>2, <2>3 DEF IsTransferStopped, ConsoleInv, HistoryInv
<1> HIDE DEF answer
<1> QED
  BY <1>1, <1>2, EmptyList, ServeStep, ServerUnchanged

LEMMA NoResultStep ==
  ASSUME ConsoleInv, NEW r \in Requests, ServeGet(r) \/ ServeFails(r)
  PROVE  ConsoleInv'
<1>1. Serve(r, << >>, FALSE) /\ UNCHANGED server
  BY DEF ServeGet, ServeFails
<1> QED
  BY <1>1, EmptyList, ServeStep, ServerUnchanged

LEMMA AnswerStep ==
  ASSUME ConsoleInv, NEW r \in Requests,
         \/ OnListRetrieved(r) \/ OnStoppedAll(r) \/ OnStopped(r) \/ OnRefreshed(r)
         \/ RequestFails(r)
  PROVE  ConsoleInv'
<1>1. request' = [request EXCEPT ![r] = Idle] /\ UNCHANGED server
  BY DEF OnListRetrieved, OnStoppedAll, OnStopped, OnRefreshed, RequestFails, Served
<1>2. /\ packagesBuffer' \in Lists
      /\ numbered' = [i \in DOMAIN packagesBuffer' |-> packagesBuffer'[i].package]
  <2>1. CASE OnListRetrieved(r)
    BY <2>1 DEF OnListRetrieved, ConsoleInv, ConsoleTypeOK
  <2>2. CASE OnStoppedAll(r) \/ OnStopped(r) \/ OnRefreshed(r) \/ RequestFails(r)
    BY <2>2, BufferUnchanged DEF OnStoppedAll, OnStopped, OnRefreshed, RequestFails
  <2> QED
    BY <2>1, <2>2
<1> QED
  BY <1>1, <1>2, IdleType, RequestStep, ServerUnchanged

LEMMA ConsoleInitStep == ConsoleInit => ConsoleInv
<1> SUFFICES ASSUME ConsoleInit PROVE ConsoleInv
  OBVIOUS
<1>1. \A r \in Requests : request[r] = Idle
  BY DEF ConsoleInit
<1>2. ConsoleTypeOK
  <2>1. numbered = [i \in DOMAIN packagesBuffer |-> packagesBuffer[i].package]
    BY DEF ConsoleInit
  <2> QED
    BY <2>1, EmptyList, IdleType DEF ConsoleInit, ConsoleTypeOK, RequestRecords, RequestTypes
<1> QED
  BY <1>1, <1>2, IdleType DEF ConsoleInit, ConsoleInv, AskedInv, HistoryInv, StoppedInv, StopAnswered

(* The inductive invariant of the console holds.                           *)
THEOREM ConsoleInvariance == ConsoleSpec => []ConsoleInv
<1>1. ConsoleInv /\ [ConsoleNext]_consoleVars => ConsoleInv'
  <2> SUFFICES ASSUME ConsoleInv, [ConsoleNext]_consoleVars PROVE ConsoleInv'
    OBVIOUS
  <2>1. CASE ConsoleNext
    BY <2>1, PackageChangesStep, RequestActionStep, AskStep, ServeListStep, ServeStopAllStep,
       ServeStopStep, ServeStoppedStep, NoResultStep, AnswerStep
    DEF ConsoleNext
  <2>2. CASE UNCHANGED consoleVars
    BY <2>2 DEF consoleVars, console, server, ConsoleInv, ConsoleTypeOK, AskedInv, HistoryInv,
                StoppedInv, StopAnswered
  <2> QED
    BY <2>1, <2>2
<1> QED
  BY <1>1, ConsoleInitStep, PTL DEF ConsoleSpec

(* A number stands for the package last listed under it: what is posted,   *)
(* and what is told when the answer is there, is about that package.       *)
THEOREM NumberSafety == ConsoleSpec => []NumberMeansListed
<1>1. ConsoleInv => NumberMeansListed
  BY DEF ConsoleInv, AskedInv, NumberMeansListed, StopAnswered, ToldPackage
<1> QED BY <1>1, ConsoleInvariance, PTL

(* The console says that a package is stopped only of one whose status has *)
(* been STOPPED.                                                           *)
THEOREM ToldStoppedSafety == ConsoleSpec => []ToldStoppedWasStopped
<1>1. ConsoleInv => ToldStoppedWasStopped
  BY DEF ConsoleInv, StoppedInv, ToldStoppedWasStopped, ToldPackage
<1> QED BY <1>1, ConsoleInvariance, PTL
=============================================================================
