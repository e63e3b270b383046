-------------------------- MODULE SendDialogProofs --------------------------
(***************************************************************************)
(* Theorems about SendDialog, for any items, fields, waiting actions and   *)
(* number of packages posted.                                              *)
(***************************************************************************)
EXTENDS SendDialog, FiniteSetTheorems, TLAPS

-----------------------------------------------------------------------------
(* The inductive invariant *)

(* The dialog shows the items it holds, and they are within the limit.     *)
ItemsInv ==
    /\ open => items = sendMessage
    /\ items # {} => Cardinality(items) \in 1..MaxNumberOfItems

(* What a package knows to be answered has been; the message that is shown *)
(* was not answered when any package was posted.                           *)
AnsweredInv ==
    \A r \in Requests : /\ pkg[r].answered \subseteq Answered
                        /\ startedMessage \notin pkg[r].answered

Inv == /\ TypeOK
       /\ ItemsInv
       /\ AnsweredInv
       /\ ClosedIsEmpty
       /\ TitlesAreCurrent
       /\ StartedIsFollowed

-----------------------------------------------------------------------------
(* Titles and selections *)

LEMMA TitleTypes ==
    /\ \A present : UserTitle(present) \in Titles
    /\ \A checked \in SUBSET Notifications : NotificationTitle(checked) \in Titles
<1>1. \A present : UserTitle(present) \in Titles
  BY DEF UserTitle, Titles
<1>2. ASSUME NEW checked \in SUBSET Notifications PROVE NotificationTitle(checked) \in Titles
  <2>1. \/ checked = Notifications \/ checked = {"notifyOnUpload"}
        \/ checked = {"notifyOnDownload"} \/ checked = {}
    BY DEF Notifications
  <2> QED
    BY <2>1 DEF NotificationTitle, Titles, Notifications
<1> QED
  BY <1>1, <1>2

LEMMA SelectionCardinality ==
  ASSUME NEW s \in Selections
  PROVE  Cardinality(s) \in Nat /\ Cardinality(s) >= 1
<1>1. s \subseteq Items /\ s # {}
  BY ConstantsAssumption
<1>2. IsFiniteSet(s)
  BY <1>1, FS_Subset, ConstantsAssumption
<1> QED
  BY <1>1, <1>2, FS_EmptySet, FS_CardinalityType

LEMMA InitStep == Init => Inv
<1> SUFFICES ASSUME Init PROVE Inv
  OBVIOUS
<1>1. TypeOK
  BY DEF Init, TypeOK, NoPackage, Titles
<1>2. ItemsInv /\ ClosedIsEmpty /\ TitlesAreCurrent /\ StartedIsFollowed
  BY DEF Init, ItemsInv, ClosedIsEmpty, TitlesAreCurrent, StartedIsFollowed
<1>3. AnsweredInv
  BY DEF Init, AnsweredInv, NoPackage
<1> QED
  BY <1>1, <1>2, <1>3 DEF Inv

-----------------------------------------------------------------------------
(* What the configuration makes of the dialog *)

LEMMA OnConfigurationStep ==
  ASSUME Inv, NEW s \in Selections, OnConfiguration(s)
  PROVE  /\ open' \in BOOLEAN /\ items' \in Selections \cup {{}} /\ filled' \subseteq Fields
         /\ notify' \subseteq Notifications /\ dialogUser' \in {None, "current", "former"}
         /\ sendMessage' \in Selections \cup {{}}
         /\ userTitle' \in Titles /\ notifyTitle' \in Titles
         /\ changed' \in BOOLEAN /\ disabled' \in BOOLEAN
         /\ ItemsInv' /\ ClosedIsEmpty' /\ TitlesAreCurrent'
<1>1. CASE UNCHANGED dialog
  BY <1>1 DEF Inv, TypeOK, ItemsInv, ClosedIsEmpty, TitlesAreCurrent, dialog, fields, titles
<1>2. CASE Cardinality(s) <= MaxNumberOfItems /\ ShowSendDialog(s)
  <2> USE <1>2 DEF ShowSendDialog, SetItems, SetSendMessage
  <2>1. Cardinality(s) \in 1..MaxNumberOfItems
    BY SelectionCardinality, ConstantsAssumption
  <2>2. open' = TRUE /\ items' = s /\ sendMessage' = s
    OBVIOUS
  <2>3. filled' \subseteq Fields /\ changed' \in BOOLEAN /\ dialogUser' = "current"
    BY DEF ValidateUser, Inv, TypeOK
  <2>4. userTitle' \in Titles /\ notifyTitle' \in Titles
    BY TitleTypes DEF Inv, TypeOK
  <2>5. ItemsInv' /\ ClosedIsEmpty' /\ TitlesAreCurrent'
    BY <2>1, <2>2 DEF ItemsInv, ClosedIsEmpty, TitlesAreCurrent
  <2> QED
    BY <2>2, <2>3, <2>4, <2>5 DEF Inv, TypeOK
<1> QED
  BY <1>1, <1>2, SelectionCardinality, ConstantsAssumption DEF OnConfiguration

(* Requests and messages are not the business of the dialog. *)
LEMMA SendsUnchanged ==
  ASSUME Inv, UNCHANGED <<sends, follow>>
  PROVE  AnsweredInv' /\ StartedIsFollowed'
BY DEF Inv, AnsweredInv, StartedIsFollowed, Answered, sends, follow

LEMMA ActionStep ==
  ASSUME Inv,
         \/ \E s \in Selections : PerformAction(s)
         \/ \E a \in Actions : GetPluginConfiguration(a) \/ GetPluginConfigurationFails(a)
  PROVE  Inv'
<1>1. ASSUME NEW s \in Selections, PerformAction(s), pluginConfiguration PROVE Inv'
  BY <1>1, OnConfigurationStep, SendsUnchanged DEF PerformAction, Inv, TypeOK, sends, follow
<1>2. ASSUME NEW s \in Selections, PerformAction(s), ~pluginConfiguration PROVE Inv'
  BY <1>2, SendsUnchanged DEF PerformAction, Inv, TypeOK, sends, follow, dialog, fields, titles,
     ItemsInv, ClosedIsEmpty, TitlesAreCurrent
<1>3. ASSUME NEW a \in Actions, GetPluginConfiguration(a) PROVE Inv'
  <2>1. action[a] \in Selections
    BY <1>3 DEF GetPluginConfiguration, Inv, TypeOK
  <2> QED
    BY <1>3, <2>1, OnConfigurationStep, SendsUnchanged
    DEF GetPluginConfiguration, Inv, TypeOK, sends, follow
<1>4. ASSUME NEW a \in Actions, GetPluginConfigurationFails(a) PROVE Inv'
  BY <1>4, SendsUnchanged DEF GetPluginConfigurationFails, Inv, TypeOK, sends, follow, dialog,
     fields, titles, ItemsInv, ClosedIsEmpty, TitlesAreCurrent
<1> QED
  BY <1>1, <1>2, <1>3, <1>4

-----------------------------------------------------------------------------
(* What the user does in the dialog and with the desktop *)

LEMMA FieldStep ==
  ASSUME Inv,
         \/ \E f \in Fields, byKeyboard \in BOOLEAN : EnterText(f, byKeyboard)
         \/ \E n \in Notifications : Check(n)
         \/ OnChange \/ Hide \/ LoseSession \/ Login
  PROVE  Inv'
<1>1. ASSUME NEW f \in Fields, NEW byKeyboard \in BOOLEAN, EnterText(f, byKeyboard) PROVE Inv'
  <2> USE <1>1 DEF EnterText
  <2>1. f # "sender" => UserTitle(filled') = UserTitle(filled)
    BY DEF UserTitle
  <2>2. TitlesAreCurrent'
    BY <2>1 DEF Inv, TypeOK, TitlesAreCurrent, fields
  <2>3. disabled' \in BOOLEAN
    BY DEF Inv, TypeOK, Complete
  <2> QED
    BY <2>2, <2>3, SendsUnchanged
    DEF Inv, TypeOK, ItemsInv, ClosedIsEmpty, InDialog, sends, follow
<1>2. ASSUME NEW n \in Notifications, Check(n) PROVE Inv'
  <2>1. notify' \subseteq Notifications
    BY <1>2 DEF Check, Inv, TypeOK
  <2> QED
    BY <1>2, <2>1, TitleTypes, SendsUnchanged
    DEF Check, Inv, TypeOK, ItemsInv, ClosedIsEmpty, TitlesAreCurrent, sends, follow
<1>3. CASE OnChange
  BY <1>3, TitleTypes, SendsUnchanged
  DEF OnChange, Inv, TypeOK, ItemsInv, ClosedIsEmpty, TitlesAreCurrent, fields, sends, follow
<1>4. CASE Hide
  BY <1>4, SendsUnchanged
  DEF Hide, ResetPackage, Inv, TypeOK, ItemsInv, ClosedIsEmpty, TitlesAreCurrent, titles,
      sends, follow
<1>5. CASE LoseSession
  <2> USE <1>5 DEF LoseSession, ResetSender
  <2>1. ~changed' => UserTitle(filled') = UserTitle(filled)
    BY ConstantsAssumption DEF UserTitle, Inv, TypeOK
  <2> QED
    BY <2>1, SendsUnchanged
    DEF Inv, TypeOK, ItemsInv, ClosedIsEmpty, TitlesAreCurrent, sends, follow
<1>6. CASE Login
  BY <1>6, SendsUnchanged
  DEF Login, Inv, TypeOK, ItemsInv, ClosedIsEmpty, TitlesAreCurrent, fields, titles, sends, follow
<1> QED
  BY <1>1, <1>2, <1>3, <1>4, <1>5, <1>6

-----------------------------------------------------------------------------
(* Sending *)

LEMMA SendStep ==
  ASSUME Inv, NEW r \in Requests, Send(r)
  PROVE  Inv'
<1> USE DEF Send
<1>1. startedMessage = None
  BY DEF InDialog
<1>2. TypeOK' /\ ItemsInv' /\ ClosedIsEmpty' /\ TitlesAreCurrent'
  <2>1. disabled' \in BOOLEAN
    BY DEF Complete
  <2>2. Package \in [items : Selections \cup {{}}, answered : SUBSET Requests]
    BY DEF Package, Answered, Inv, TypeOK
  <2>3. \/ UNCHANGED sends
        \/ pc' = [pc EXCEPT ![r] = "posted"] /\ pkg' = [pkg EXCEPT ![r] = Package]
    OBVIOUS
  <2>4. /\ pc' \in [Requests -> {"idle", "posted", "started", "failed"}]
        /\ pkg' \in [Requests -> [items : Selections \cup {{}}, answered : SUBSET Requests]]
    <3> HIDE DEF Send
    <3>1. CASE UNCHANGED sends
      BY <3>1 DEF Inv, TypeOK, sends
    <3>2. CASE pc' = [pc EXCEPT ![r] = "posted"] /\ pkg' = [pkg EXCEPT ![r] = Package]
      BY <2>2, <3>2 DEF Inv, TypeOK
    <3> QED
      BY <2>3, <3>1, <3>2
  <2>5. UNCHANGED <<pluginConfiguration, action, open, items, filled, notify, dialogUser,
                    sendMessage, userTitle, notifyTitle, changed, startedMessage, watched>>
    BY DEF fields, titles, follow
  <2>6. TypeOK'
    <3> HIDE DEF Send
    <3> QED
      BY <2>1, <2>4, <2>5 DEF Inv, TypeOK
  <2> QED
    BY <2>5, <2>6 DEF Inv, ItemsInv, ClosedIsEmpty, TitlesAreCurrent
<1>3. CASE UNCHANGED sends
  BY <1>2, <1>3, SendsUnchanged DEF Inv
<1>4. CASE pc' = [pc EXCEPT ![r] = "posted"] /\ pkg' = [pkg EXCEPT ![r] = Package]
  <2>1. Answered' = Answered
    BY <1>4 DEF Answered, Inv, TypeOK
  <2>2. \A q \in Requests : pkg'[q].answered = IF q = r THEN Answered ELSE pkg[q].answered
    BY <1>4 DEF Package, Inv, TypeOK
  <2>3. AnsweredInv'
    BY <1>1, <2>1, <2>2, ConstantsAssumption DEF AnsweredInv, Answered, Inv, follow
  <2>4. \A q \in Requests : pc'[q] = "started" <=> pc[q] = "started"
    BY <1>4 DEF Inv, TypeOK
  <2>5. StartedIsFollowed'
    BY <1>4, <2>2, <2>4 DEF StartedIsFollowed, Inv, TypeOK, follow
  <2> QED
    BY <1>2, <2>3, <2>5 DEF Inv
<1> QED
  BY <1>3, <1>4

(* The message of an earlier package gives way to one that was posted      *)
(* before the earlier was answered.                                        *)
LEMMA OnPackageStartedStep ==
  ASSUME Inv, NEW r \in Requests, OnPackageStarted(r)
  PROVE  Inv'
<1> USE DEF OnPackageStarted, ShowStartedMessage
<1>1. TypeOK'
  BY ConstantsAssumption DEF Inv, TypeOK, titles, Fields
<1>2. ItemsInv' /\ ClosedIsEmpty' /\ TitlesAreCurrent'
  BY ConstantsAssumption DEF ItemsInv, ClosedIsEmpty, TitlesAreCurrent
<1>3. Answered' = Answered \cup {r} /\ r \notin Answered
  BY DEF Answered, Inv, TypeOK
<1>4. AnsweredInv'
  BY <1>3 DEF AnsweredInv, Inv
<1>5. StartedIsFollowed'
  <2> SUFFICES ASSUME NEW s \in Requests, pc'[s] = "started", s # r
               PROVE  \/ s \in watched
                      \/ \E q \in Requests \ {s} : pc'[q] = "started" /\ s \notin pkg[q].answered
    BY DEF StartedIsFollowed
  <2>1. pc[s] = "started" /\ pc'[r] = "started"
    BY DEF Inv, TypeOK
  <2>2. CASE s \in watched
    BY <2>2
  <2>3. CASE startedMessage = s
    BY <2>1, <2>3 DEF Inv, AnsweredInv
  <2>4. CASE \E q \in Requests \ {s} : pc[q] = "started" /\ s \notin pkg[q].answered
    BY <2>4 DEF Inv, TypeOK
  <2> QED
    BY <2>1, <2>2, <2>3, <2>4 DEF Inv, StartedIsFollowed
<1> QED
  BY <1>1, <1>2, <1>4, <1>5 DEF Inv

LEMMA AnswerStep ==
  ASSUME Inv, (\E r \in Requests : RequestFailed(r)) \/ HideStartedMessage
  PROVE  Inv'
<1>1. ASSUME NEW r \in Requests, RequestFailed(r) PROVE Inv'
  <2> USE <1>1 DEF RequestFailed
  <2>1. TypeOK' /\ ItemsInv' /\ ClosedIsEmpty' /\ TitlesAreCurrent'
    BY DEF Inv, TypeOK, ItemsInv, ClosedIsEmpty, TitlesAreCurrent, dialog, fields, titles, follow
  <2>2. \A q \in Requests : pc'[q] = "started" <=> pc[q] = "started"
    BY DEF Inv, TypeOK
  <2>3. Answered \subseteq Answered'
    BY DEF Answered, Inv, TypeOK
  <2>4. AnsweredInv' /\ StartedIsFollowed'
    BY <2>2, <2>3 DEF Inv, AnsweredInv, StartedIsFollowed, follow
  <2> QED
    BY <2>1, <2>4 DEF Inv
<1>2. CASE HideStartedMessage
  <2> USE <1>2 DEF HideStartedMessage
  <2>1. TypeOK' /\ ItemsInv' /\ ClosedIsEmpty' /\ TitlesAreCurrent'
    BY DEF Inv, TypeOK, ItemsInv, ClosedIsEmpty, TitlesAreCurrent, dialog, fields, titles, sends
  <2>2. AnsweredInv' /\ StartedIsFollowed'
    BY ConstantsAssumption DEF Inv, AnsweredInv, StartedIsFollowed, Answered, sends
  <2> QED
    BY <2>1, <2>2 DEF Inv
<1> QED
  BY <1>1, <1>2

-----------------------------------------------------------------------------
(* The theorems *)

\* The conjunction of the properties and what they rest on.
THEOREM Invariance == Spec => []Inv
<1>1. Inv /\ [Next]_vars => Inv'
  <2> SUFFICES ASSUME Inv, [Next]_vars PROVE Inv'
    OBVIOUS
  <2>1. CASE UNCHANGED vars
    BY <2>1, SendsUnchanged
    DEF vars, dialog, fields, titles, sends, follow, Inv, TypeOK, ItemsInv, ClosedIsEmpty,
        TitlesAreCurrent
  <2>2. CASE Next
    BY <2>2, ActionStep, FieldStep, SendStep, OnPackageStartedStep, AnswerStep DEF Next
  <2> QED
    BY <2>1, <2>2
<1> QED
  BY <1>1, InitStep, PTL DEF Spec

\* Every variable keeps its type.
THEOREM TypeCorrectness == Spec => []TypeOK
<1>1. Inv => TypeOK BY DEF Inv
<1> QED BY <1>1, Invariance, PTL

\* A closed dialog holds nothing of a package.
THEOREM ClosingSafety == Spec => []ClosedIsEmpty
<1>1. Inv => ClosedIsEmpty BY DEF Inv
<1> QED BY <1>1, Invariance, PTL

\* The titles of the panes say what is in them.
THEOREM TitleSafety == Spec => []TitlesAreCurrent
<1>1. Inv => TitlesAreCurrent BY DEF Inv
<1> QED BY <1>1, Invariance, PTL

\* A package that has started is followed until it is watched, or gives way.
THEOREM FollowSafety == Spec => []StartedIsFollowed
<1>1. Inv => StartedIsFollowed BY DEF Inv
<1> QED BY <1>1, Invariance, PTL

(* Only Send posts a package.                                              *)
LEMMA PostingStep ==
  ASSUME Inv, Next, NEW r \in Requests, Posts(r)
  PROVE  Send(r) /\ Complete(filled) /\ pkg'[r] = Package
<1>1. \E q \in Requests : Send(q)
  BY DEF Next, Posts, PerformAction, GetPluginConfiguration, GetPluginConfigurationFails,
         EnterText, Check, OnChange, Hide, LoseSession, Login, OnPackageStarted, RequestFailed,
         HideStartedMessage, sends, Inv, TypeOK
<1>2. PICK q \in Requests : Send(q)
  BY <1>1
<1> QED
  BY <1>2 DEF Send, Posts, sends, Inv, TypeOK

\* A package that is posted is complete, and within the limit.
THEOREM CompletenessSafety == Spec => PostedIsComplete
<1>1. Inv /\ [Next]_vars =>
        [\A r \in Requests : Posts(r) =>
           /\ RequiredFields \subseteq filled /\ dialogUser = "current"
           /\ Cardinality(pkg'[r].items) \in 1..MaxNumberOfItems]_vars
  <2> SUFFICES ASSUME Inv, Next, NEW r \in Requests, Posts(r)
               PROVE  /\ RequiredFields \subseteq filled /\ dialogUser = "current"
                      /\ Cardinality(pkg'[r].items) \in 1..MaxNumberOfItems
    OBVIOUS
  <2> QED
    BY PostingStep DEF Complete, IsUserValid, Package, Inv, ItemsInv
<1> QED
  BY <1>1, Invariance, PTL DEF Spec, PostedIsComplete

\* A package that is posted has the items that the dialog tells of.
THEOREM DisplaySafety == Spec => PostedAsShown
<1>1. Inv /\ [Next]_vars =>
        [\A r \in Requests : Posts(r) => pkg'[r].items = sendMessage]_vars
  <2> SUFFICES ASSUME Inv, Next, NEW r \in Requests, Posts(r)
               PROVE  pkg'[r].items = sendMessage
    OBVIOUS
  <2> QED
    BY PostingStep DEF Send, InDialog, Package, Inv, ItemsInv
<1> QED
  BY <1>1, Invariance, PTL DEF Spec, PostedAsShown
=============================================================================
