-------------------------- MODULE ConfigurationPane --------------------------
(***************************************************************************)
(* The pane in which an administrator edits the plug-in configuration.     *)
(*                                                                         *)
(* The pane shows four options of the configuration, three in spinners and *)
(* the URL in a text box, and writes them to configurationString; Content  *)
(* Navigator asks validate and stores the string.  The server reads three  *)
(* more options, which the pane does not know.                             *)
(*                                                                         *)
(* A value is a number, for the URL as well.  What a field does not accept *)
(* is Invalid: a blank, or a number below 1.                               *)
(***************************************************************************)
CONSTANTS
    Spinners,       \* maxNumberOfItems, maxNumberOfRequests, targetTransferRateMbps
    HiddenOptions,  \* archiveDurationMinutes, progressTimeoutSeconds, startTimeoutSeconds
    Values,         \* what can be configured
    Default,        \* the value of a spinner that is not set
    Invalid,
    Absent

Fields == Spinners \cup {"asperaServerUrl"}
Options == Fields \cup HiddenOptions
Configurations == [Options -> Values \cup {Invalid, Absent}]

ASSUME PaneAssumption ==
    /\ "asperaServerUrl" \notin Spinners \cup HiddenOptions
    /\ Spinners \cap HiddenOptions = {}
    /\ Default \in Values
    /\ Invalid \notin Values /\ Absent \notin Values /\ Invalid # Absent

VARIABLES
    saved,               \* the configuration on the server
    paneOpen,
    field,               \* the values in the widgets
    configurationString,
    saveNeeded,
    changed,             \* onChange of a spinner is still to be called
    pasted               \* the URL was changed without a key since the string was written

pane == <<paneOpen, field, configurationString, saveNeeded, changed, pasted>>
paneVars == <<saved, pane>>

NothingConfigured == [o \in Options |-> Absent]
InitialFields == [f \in Fields |-> IF f \in Spinners THEN Default ELSE Invalid]

PaneInit ==
    /\ \/ saved = NothingConfigured
       \/ saved \in {c \in [Options -> Values \cup {Absent}] : \A f \in Fields : c[f] # Absent}
    /\ paneOpen = FALSE
    /\ field = InitialFields
    /\ configurationString = saved
    /\ saveNeeded = FALSE /\ changed = FALSE /\ pasted = FALSE

\* Variant: one of the options is not loaded.
LoadedWithoutRequests(string) ==
    [f \in Fields |->
        IF string[f] = Absent \/ f = "maxNumberOfRequests" THEN InitialFields[f] ELSE string[f]]

\* Setting undefined leaves a widget as it is.
Loaded(string) ==
    [f \in Fields |-> IF string[f] = Absent THEN InitialFields[f] ELSE string[f]]

\* A spinner whose value changes by loading reports it like one that is edited.
Load ==
    /\ ~paneOpen
    /\ paneOpen' = TRUE
    /\ configurationString' = saved
    /\ field' = Loaded(saved)
    /\ changed' = (\E f \in Spinners : field'[f] # Default)
    /\ saveNeeded' = FALSE /\ pasted' = FALSE
    /\ UNCHANGED saved

\* Variant: the first of the spinners is not written.
OnParamChangeForgets(values) ==
    /\ configurationString' =
         [o \in Options |-> IF o \in Fields \ {"maxNumberOfRequests"} THEN values[o] ELSE Absent]
    /\ saveNeeded' = TRUE
    /\ pasted' = FALSE

\* The string is written anew, from the fields of the pane only.
OnParamChange(values) ==
    /\ configurationString' =
         [o \in Options |-> IF o \in Fields THEN values[o] ELSE Absent]
    /\ saveNeeded' = TRUE
    /\ pasted' = FALSE

EnterUrl(v, byKeyboard) ==
    /\ paneOpen
    /\ field' = [field EXCEPT !["asperaServerUrl"] = v]
    /\ IF byKeyboard THEN OnParamChange(field')
       ELSE pasted' = TRUE /\ UNCHANGED <<configurationString, saveNeeded>>
    /\ UNCHANGED <<saved, paneOpen, changed>>

Spin(f, v) ==
    /\ paneOpen
    /\ field' = [field EXCEPT ![f] = v]
    /\ changed' = TRUE
    /\ UNCHANGED <<saved, paneOpen, configurationString, saveNeeded, pasted>>

OnChange ==
    /\ paneOpen /\ changed
    /\ changed' = FALSE
    /\ OnParamChange(field)
    /\ UNCHANGED <<saved, paneOpen, field>>

\* Variant: only the URL is validated.
ValidateUrlOnly == field["asperaServerUrl"] # Invalid

Validate == \A f \in Fields : field[f] # Invalid

\* The widgets report before the administrator can press the button.
Save ==
    /\ paneOpen /\ saveNeeded /\ ~changed
    /\ Validate
    /\ saved' = configurationString
    /\ saveNeeded' = FALSE
    /\ UNCHANGED <<paneOpen, field, configurationString, changed, pasted>>

Close ==
    /\ paneOpen
    /\ paneOpen' = FALSE
    /\ field' = InitialFields
    /\ saveNeeded' = FALSE /\ changed' = FALSE /\ pasted' = FALSE
    /\ UNCHANGED <<saved, configurationString>>

PaneNext ==
    \/ Load \/ OnChange \/ Save \/ Close
    \/ \E v \in Values \cup {Invalid} :
          \/ \E byKeyboard \in BOOLEAN : EnterUrl(v, byKeyboard)
          \/ \E f \in Spinners : Spin(f, v)

PaneSpec == PaneInit /\ [][PaneNext]_paneVars

PaneTypeOK ==
    /\ saved \in Configurations
    /\ paneOpen \in BOOLEAN
    /\ field \in [Fields -> Values \cup {Invalid}]
    /\ configurationString \in Configurations
    /\ saveNeeded \in BOOLEAN /\ changed \in BOOLEAN /\ pasted \in BOOLEAN

(* load, _onParamChange: the string that can be saved says what the pane    *)
(* shows, after loading and after edits of any fields in any order.  An     *)
(* exception is a URL that has been changed without a key.                  *)
StringIsCurrent ==
    paneOpen /\ ~changed => \A f \in Fields :
        \/ configurationString[f] = field[f]
        \/ configurationString[f] = Absent /\ field[f] = InitialFields[f]
        \/ f = "asperaServerUrl" /\ pasted

(* validate: no number is stored that its spinner does not accept, although *)
(* what is validated are the widgets and what is stored is the string.  The *)
(* spinners have no maximum: the server refuses an accepted number that is  *)
(* no Java integer, and takes the default.                                  *)
SavedIsValid == \A f \in Spinners : saved[f] # Invalid

(* load: an option that the pane still shows as it was loaded is stored    *)
(* with the value it had, when others are edited.                          *)
UneditedIsKept ==
    [][Save => \A f \in Fields :
          saved[f] # Absent /\ field[f] = Loaded(saved)[f] /\ ~pasted
              => saved'[f] = saved[f]]_paneVars
=============================================================================
