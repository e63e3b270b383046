----------------------------- MODULE SendDialog -----------------------------
(***************************************************************************)
(* The send dialog in the browser: SendAction opens it, once it has read   *)
(* the plug-in configuration; the user fills it in and sends, again and    *)
(* again if the answer takes its time; answers close it and show a message *)
(* whose closing starts the watch of the package.                          *)
(*                                                                         *)
(* A callback runs to its end before another does.  While the dialog or    *)
(* the message is open, the user reaches nothing below it.  A field is     *)
(* filled in or not.  Which sender and password they are is the subject of *)
(* SenderSession, the limit as it changes that of PackageItems, the watch  *)
(* that of PackageWatch.                                                   *)
(***************************************************************************)
EXTENDS FiniteSets, Messages

CONSTANTS
    Items,          \* what the user can select
    Exportable,     \* items that the user may export
    WithContent,    \* items that have content
    Selections,     \* bounds the selections
    SenderFields,   \* sender and password
    PackageFields,  \* recipients, title, note, earPassphrase
    RequiredFields, \* those without which the button is disabled
    MaxNumberOfItems,
    Actions,        \* bounds how many actions wait for the configuration
    Requests,       \* bounds how often a package is posted
    Locales,        \* of the desktop
    None

Fields == SenderFields \cup PackageFields
Notifications == {"notifyOnUpload", "notifyOnDownload"}

ASSUME ConstantsAssumption ==
    /\ IsFiniteSet(Items) /\ MaxNumberOfItems \in Nat
    /\ Selections \subseteq (SUBSET Items) \ {{}}
    /\ RequiredFields \subseteq Fields
    /\ "sender" \in SenderFields /\ "password" \in SenderFields
    /\ SenderFields \cap PackageFields = {}
    /\ None \notin Requests

VARIABLES
    pluginConfiguration, \* SendAction has read the configuration
    action,         \* the selections whose action waits for it
    open,           \* the dialog is shown
    items,
    filled,         \* the fields that are filled in
    notify,         \* the boxes that are checked
    dialogUser,     \* _userId: None, or "current" if it is Desktop.userId, or "former"
    sendMessage,    \* the items that the message in the dialog tells of
    userTitle,      \* the titles of the two panes, as the key in their placeholder
    notifyTitle,
    changed,        \* onChange of the sender field is still to be called
    disabled,       \* the send button
    pc,             \* where each request is
    pkg,            \* the package of the request
    startedMessage, \* the package whose message is shown
    watched         \* the packages that are watched

fields == <<filled, notify>>
titles == <<userTitle, notifyTitle, changed>>
dialog == <<open, items, fields, dialogUser, sendMessage, titles, disabled>>
sends == <<pc, pkg>>
follow == <<startedMessage, watched>>
vars == <<pluginConfiguration, action, dialog, sends, follow>>

NoPackage == [items |-> {}, answered |-> {}]

Init ==
    /\ pluginConfiguration = FALSE
    /\ action = [a \in Actions |-> {}]
    /\ open = FALSE /\ items = {}
    /\ filled = {} /\ notify = {} /\ dialogUser = None
    /\ sendMessage = {} /\ userTitle = None /\ notifyTitle = None
    /\ changed = FALSE /\ disabled = TRUE
    /\ pc = [r \in Requests |-> "idle"]
    /\ pkg = [r \in Requests |-> NoPackage]
    /\ startedMessage = None
    /\ watched = {}

----------------------------------------------------------------------------
(* Opening the dialog. *)

UserTitle(present) ==
    IF "sender" \in present THEN "sender" ELSE "send_dialog_not_set"

NotificationTitle(checked) ==
    CASE checked = Notifications -> "send_dialog_notifyOnUploadDownload"
      [] checked = {"notifyOnUpload"} -> "send_dialog_notifyOnUpload_label"
      [] checked = {"notifyOnDownload"} -> "send_dialog_notifyOnDownload_label"
      [] checked = {} -> "send_dialog_not_set"

IsUserValid == dialogUser = "current"

\* The sender is forgotten when another user has logged in.
ValidateUser ==
    /\ filled' = IF IsUserValid THEN filled ELSE filled \ SenderFields
    /\ changed' = IF IsUserValid THEN changed ELSE changed \/ "sender" \in filled
    /\ dialogUser' = "current"

SetItems(s) == items' = s

\* The name of the only item, or the number of items.
SetSendMessage(s) == sendMessage' = s

\* Variant: a dialog that is open is not set up again.
ShowUnlessOpen(s) ==
    /\ SetItems(s)
    /\ ValidateUser
    /\ open' = TRUE
    /\ IF open THEN UNCHANGED <<sendMessage, userTitle, notifyTitle>>
       ELSE /\ SetSendMessage(s)
            /\ userTitle' = UserTitle(filled')
            /\ notifyTitle' = NotificationTitle(notify)
    /\ UNCHANGED <<notify, disabled>>

\* setItems and show, which also runs for a dialog that is open.
ShowSendDialog(s) ==
    /\ SetItems(s)
    /\ ValidateUser
    /\ open' = TRUE
    /\ SetSendMessage(s)
    /\ userTitle' = UserTitle(filled')
    /\ notifyTitle' = NotificationTitle(notify)
    /\ UNCHANGED <<notify, disabled>>

\* The callback of performAction, which has the configuration.
OnConfiguration(s) ==
    IF Cardinality(s) > MaxNumberOfItems THEN UNCHANGED dialog ELSE ShowSendDialog(s)

IsVisible(s) == s \cap WithContent # {}

\* One of the items is enough.
IsEnabled(s) == s \cap Exportable # {}

PerformAction(s) ==
    /\ ~open /\ startedMessage = None
    /\ IsVisible(s) /\ IsEnabled(s)
    /\ IF pluginConfiguration
       THEN OnConfiguration(s) /\ UNCHANGED action
       ELSE /\ \E a \in Actions : action[a] = {} /\ action' = [action EXCEPT ![a] = s]
            /\ UNCHANGED dialog
    /\ UNCHANGED <<pluginConfiguration, sends, follow>>

\* Each action that found no configuration has its own request for it.
GetPluginConfiguration(a) ==
    /\ action[a] # {}
    /\ pluginConfiguration' = TRUE
    /\ action' = [action EXCEPT ![a] = {}]
    /\ OnConfiguration(action[a])
    /\ UNCHANGED <<sends, follow>>

GetPluginConfigurationFails(a) ==
    /\ action[a] # {}
    /\ action' = [action EXCEPT ![a] = {}]
    /\ UNCHANGED <<pluginConfiguration, dialog, sends, follow>>

----------------------------------------------------------------------------
(* Filling it in. *)

InDialog == open /\ startedMessage = None

Complete(present) ==
    RequiredFields \subseteq present /\ items # {} /\ IsUserValid

\* Keys are noticed in the required fields only, other ways of entering a
\* text in none.
EnterText(f, byKeyboard) ==
    /\ InDialog
    /\ \/ filled' = filled \cup {f}
       \/ filled' = filled \ {f}
    /\ changed' = (changed \/ f = "sender")
    /\ disabled' = IF byKeyboard /\ f \in RequiredFields THEN ~Complete(filled') ELSE disabled
    /\ UNCHANGED <<pluginConfiguration, action, open, items, notify, dialogUser, sendMessage,
                   userTitle, notifyTitle, sends, follow>>

\* Variant: the second box has no handler.
CheckUploadHandled(n) ==
    /\ InDialog
    /\ notify' = IF n \in notify THEN notify \ {n} ELSE notify \cup {n}
    /\ notifyTitle' = IF n = "notifyOnUpload" THEN NotificationTitle(notify') ELSE notifyTitle
    /\ UNCHANGED <<pluginConfiguration, action, open, items, filled, dialogUser, sendMessage,
                   userTitle, changed, disabled, sends, follow>>

Check(n) ==
    /\ InDialog
    /\ notify' = IF n \in notify THEN notify \ {n} ELSE notify \cup {n}
    /\ notifyTitle' = NotificationTitle(notify')
    /\ UNCHANGED <<pluginConfiguration, action, open, items, filled, dialogUser, sendMessage,
                   userTitle, changed, disabled, sends, follow>>

\* A text field calls onChange when it is left, or reset.
OnChange ==
    /\ changed
    /\ changed' = FALSE
    /\ userTitle' = UserTitle(filled)
    /\ UNCHANGED <<pluginConfiguration, action, open, items, fields, dialogUser, sendMessage,
                   notifyTitle, disabled, sends, follow>>

\* Variant: the optional fields are kept.
ResetPackageRequired ==
    /\ items' = {}
    /\ filled' = filled \ (PackageFields \cap RequiredFields)

\* What hide resets: the boxes and the sender are kept.
ResetPackage ==
    /\ items' = {}
    /\ filled' = filled \ PackageFields

Hide ==
    /\ InDialog
    /\ open' = FALSE
    /\ ResetPackage
    /\ UNCHANGED <<pluginConfiguration, action, notify, dialogUser, sendMessage, titles,
                   disabled, sends, follow>>

----------------------------------------------------------------------------
(* The user of the desktop. *)

ResetSender ==
    /\ filled' = filled \ SenderFields
    /\ changed' = (changed \/ "sender" \in filled)

\* The session expires while a nonce stands for the sender, or the user logs out.
LoseSession ==
    /\ ResetSender
    /\ UNCHANGED <<pluginConfiguration, action, open, items, notify, dialogUser, sendMessage,
                   userTitle, notifyTitle, disabled, sends, follow>>

\* Somebody else logs in, or the former user again.
Login ==
    /\ dialogUser # None
    /\ dialogUser' \in {"current", "former"}
    /\ UNCHANGED <<pluginConfiguration, action, open, items, fields, sendMessage, titles,
                   disabled, sends, follow>>

----------------------------------------------------------------------------
(* Sending. *)

\* The requests whose answer has come.
Answered == {r \in Requests : pc[r] \in {"started", "failed"}}

\* The package holds the fields as they are now; the model keeps its items, and
\* what had been answered when it was posted.
Package == [items |-> items, answered |-> Answered]

\* Variant: the button is believed.
SendIfEnabled(r) ==
    /\ InDialog /\ ~disabled
    /\ pc[r] = "idle"
    /\ pc' = [pc EXCEPT ![r] = "posted"]
    /\ pkg' = [pkg EXCEPT ![r] = Package]
    /\ UNCHANGED <<pluginConfiguration, action, dialog, follow>>

\* The button may be outdated: what it stands for is determined again.
Send(r) ==
    /\ InDialog /\ ~disabled
    /\ pc[r] = "idle"
    /\ disabled' = ~Complete(filled)
    /\ IF Complete(filled)
       THEN /\ pc' = [pc EXCEPT ![r] = "posted"]
            /\ pkg' = [pkg EXCEPT ![r] = Package]
       ELSE UNCHANGED sends
    /\ UNCHANGED <<pluginConfiguration, action, open, items, fields, dialogUser, sendMessage,
                   titles, follow>>

\* A message that is still shown is destroyed, which does not call onHide.
ShowStartedMessage(r) == startedMessage' = r /\ UNCHANGED watched

\* The transfer has started.  With a nonce the password field is set.
OnPackageStarted(r) ==
    /\ pc[r] = "posted"
    /\ pc' = [pc EXCEPT ![r] = "started"]
    /\ ShowStartedMessage(r)
    /\ open' = FALSE
    /\ items' = {}
    /\ \E nonce \in {{}, {"password"}} : filled' = (filled \ PackageFields) \cup nonce
    /\ UNCHANGED <<pluginConfiguration, action, notify, dialogUser, sendMessage, titles,
                   disabled, pkg>>

\* The dialog passes no errorback; the desktop shows the error.
RequestFailed(r) ==
    /\ pc[r] = "posted"
    /\ pc' = [pc EXCEPT ![r] = "failed"]
    /\ UNCHANGED <<pluginConfiguration, action, dialog, pkg, follow>>

\* Variant: the message is closed, and that is all.
HideStartedMessageOnly ==
    /\ startedMessage # None
    /\ startedMessage' = None
    /\ UNCHANGED <<pluginConfiguration, action, dialog, sends, watched>>

\* What addStatusMessage shows: only the progress of a started package has
\* a second argument.
StatusTexts ==
    {<<"status_started", 2>>, <<"status_stopped", 1>>, <<"status_failed", 1>>,
     <<"status_completed", 1>>}

HideStartedMessage ==
    /\ startedMessage # None
    /\ startedMessage' = None
    /\ watched' = watched \cup {startedMessage}
    /\ UNCHANGED <<pluginConfiguration, action, dialog, sends>>

Next ==
    \/ \E s \in Selections : PerformAction(s)
    \/ \E a \in Actions : GetPluginConfiguration(a) \/ GetPluginConfigurationFails(a)
    \/ \E f \in Fields, byKeyboard \in BOOLEAN : EnterText(f, byKeyboard)
    \/ \E n \in Notifications : Check(n)
    \/ OnChange \/ Hide \/ LoseSession \/ Login
    \/ \E r \in Requests : Send(r) \/ OnPackageStarted(r) \/ RequestFailed(r)
    \/ HideStartedMessage

Spec == Init /\ [][Next]_vars

----------------------------------------------------------------------------
(* Properties. *)

Titles == {None, "sender", "send_dialog_not_set", "send_dialog_notifyOnUpload_label",
           "send_dialog_notifyOnDownload_label", "send_dialog_notifyOnUploadDownload"}

\* Every variable keeps its type.
TypeOK ==
    /\ pluginConfiguration \in BOOLEAN
    /\ action \in [Actions -> Selections \cup {{}}]
    /\ open \in BOOLEAN
    /\ items \in Selections \cup {{}}
    /\ filled \subseteq Fields
    /\ notify \subseteq Notifications
    /\ dialogUser \in {None, "current", "former"}
    /\ sendMessage \in Selections \cup {{}}
    /\ userTitle \in Titles /\ notifyTitle \in Titles
    /\ changed \in BOOLEAN
    /\ disabled \in BOOLEAN
    /\ pc \in [Requests -> {"idle", "posted", "started", "failed"}]
    /\ pkg \in [Requests -> [items : Selections \cup {{}}, answered : SUBSET Requests]]
    /\ startedMessage \in Requests \cup {None}
    /\ watched \subseteq Requests

\* What is typed for one package is not left for the next: whoever closes the
\* dialog, the user or the answer to an earlier click, it holds neither items
\* nor fields of a package afterwards.
ClosedIsEmpty == ~open => items = {} /\ filled \cap PackageFields = {}

\* The panes are titled by what is in them, also when sender or boxes changed
\* while the dialog was closed, unless a change is still to be reported.
TitlesAreCurrent ==
    open => /\ userTitle = UserTitle(filled) \/ changed
            /\ notifyTitle = NotificationTitle(notify)

Posts(r) == pc[r] = "idle" /\ pc'[r] = "posted"

\* A package that is posted is complete and within the limit, although the button
\* may be enabled for what the dialog held earlier: fields are reset by answers,
\* expired sessions and other users without a key being pressed.
PostedIsComplete ==
    [][\A r \in Requests : Posts(r) =>
         /\ RequiredFields \subseteq filled /\ dialogUser = "current"
         /\ Cardinality(pkg'[r].items) \in 1..MaxNumberOfItems]_vars

\* A package that is posted has the items that the message in the dialog tells
\* of, although a second action may have replaced the items of an open dialog.
PostedAsShown ==
    [][\A r \in Requests : Posts(r) => pkg'[r].items = sendMessage]_vars

\* A package that has started is watched, or its message is shown, or it has
\* given way to the message of a package posted before the answer to it.
StartedIsFollowed ==
    \A r \in Requests : pc[r] = "started" =>
        \/ r \in watched
        \/ startedMessage = r
        \/ \E q \in Requests \ {r} : pc[q] = "started" /\ r \notin pkg[q].answered

\* The texts of the dialog that stay the same.
Labels == {
    "send_dialog_title", "send_dialog_info", "send_dialog_send_button_label",
    "send_dialog_sender", "send_dialog_missing_sender_message",
    "send_dialog_password", "send_dialog_missing_password_message",
    "send_dialog_recipients_label", "send_dialog_recipients_textfield_hover_help",
    "send_dialog_missing_recipients_message", "send_dialog_title_label",
    "send_dialog_note_label", "send_dialog_earPassphrase_label",
    "send_dialog_earPassphrase_textfield_hover_help",
    "send_dialog_notifyOnUpload_label", "send_dialog_notifyOnDownload_label"}

\* The texts shown at the moment: key and number of arguments, those of the watch
\* for any status it may find.
Shown ==
    (IF ~open THEN {} ELSE
        {<<IF Cardinality(sendMessage) = 1 THEN "send_dialog_send_one" ELSE "send_dialog_send_more", 1>>,
         <<"send_dialog_sender_title", 1>>, <<"send_dialog_notify_title", 1>>}
          \cup {<<text, 0>> : text \in Labels \cup ({userTitle, notifyTitle} \ {None, "sender"})})
      \cup (IF startedMessage = None THEN {} ELSE {<<"send_dialog_started", 1>>})
      \cup (IF watched = {} THEN {} ELSE StatusTexts)

\* The most specific translation that there is for a locale.
OwnBundle(locale) ==
    CASE locale \in LocaleList -> locale
      [] locale \notin LocaleList /\ Language(locale) \in LocaleList -> Language(locale)
      [] OTHER -> "root"

\* These have a translation that no flag announces, and no browser reads.
Unread == {"nb", "zh-cn"}

\* The bundles that the texts of a locale should come from.
Expected(locale) ==
    IF locale \in Unread THEN Range(AvailableBundles(locale)) ELSE {OwnBundle(locale)}

Translations == {TextsFrom(locale, Expected(locale)) : locale \in Locales}

\* Whatever the dialog, its messages and the watch show has as many placeholders as
\* arguments in each locale, and all of it comes from the one translation that was
\* made for the locale: nothing falls back to another language.  Excepted are nb
\* and zh-cn: their translations are never read, and their users see the root or
\* zh, though with the right placeholders.
TextsAreTranslated == \A texts \in Translations : Shown \subseteq texts
=============================================================================
