---------------------------- MODULE PackageItems ----------------------------
(***************************************************************************)
(* The items of a package, from the selection in the browser to the files  *)
(* that are handed to the Faspex library.                                  *)
(*                                                                         *)
(* The browser refuses a selection above the maximum that it read from the *)
(* plug-in configuration, and keeps what it read.  PackageSender reads the *)
(* configuration again for each request, drops items of repositories that  *)
(* the desktop does not have, and cuts the rest off at the maximum.        *)
(* Transfer retrieves the contents of the remaining items, gives each a    *)
(* name of its own and opens its stream, and hands them to the library.    *)
(* When the streams are closed is a matter of FaspexClient.                *)
(*                                                                         *)
(* Package groups items in hash sets: an item is sent once, and the order  *)
(* of the contents is any.                                                 *)
(***************************************************************************)
EXTENDS Integers, FiniteSets, Sequences, Functions

CONSTANTS
    Documents,      \* the items that can be selected
    Repository,     \* the repository of each
    FileName,       \* the name of its content
    Numbered(_, _), \* the name with a number before its extension
    Maxima,         \* what may be configured as the maximum number of items
    IntegerMax,     \* the largest value that Integer.parseInt accepts
    DefaultMax,     \* the default maximum, the same in SendAction and PackageSender
    MaxSelected,    \* bounds a selection
    Absent,         \* not configured
    NotRead         \* the browser has not read the configuration

FileNames == Range(FileName)
Numbers == 1..Cardinality(Documents)

ASSUME ConstantsAssumption ==
    /\ IsFiniteSet(Documents)
    /\ Repository \in [Documents -> Range(Repository)]
    /\ FileName \in [Documents -> FileNames]
    /\ Maxima \subseteq Nat
    /\ IntegerMax \in Nat /\ DefaultMax \in Nat /\ MaxSelected \in Nat
    /\ Absent \notin Nat
    /\ NotRead \notin Nat \cup {Absent}

\* A name with a number is another name, and differs for different numbers.
ASSUME NumberedAssumption ==
    \A f \in FileNames : \A i, j \in Numbers :
        /\ Numbered(f, i) # f
        /\ Numbered(f, i) = Numbered(f, j) => i = j

VARIABLES
    maxNumberOfItems,    \* in the plug-in configuration on the server
    pluginConfiguration, \* the same as SendAction has read it
    desktopRepositories, \* the repositories of the desktop
    pc,                  \* how far the package is
    selected,            \* the items of the dialog
    items,               \* the items of the package
    todo,                \* those that have no source yet
    filenames            \* the names of the sources

config == <<maxNumberOfItems, desktopRepositories>>
package == <<items, todo, filenames>>
vars == <<config, pluginConfiguration, pc, selected, package>>

Selections == UNION {[1..n -> Documents] : n \in 1..MaxSelected}

Init ==
    /\ maxNumberOfItems \in Maxima \cup {Absent}
    /\ pluginConfiguration = NotRead
    /\ desktopRepositories = Range(Repository)
    /\ pc = "idle"
    /\ selected = <<>>
    /\ items = {} /\ todo = {} /\ filenames = <<>>

----------------------------------------------------------------------------
(* The browser. *)

\* An administrator changes the configuration, at any time.
Configure ==
    /\ maxNumberOfItems' \in Maxima \cup {Absent}
    /\ desktopRepositories' \in SUBSET Range(Repository)
    /\ UNCHANGED <<pluginConfiguration, pc, selected, package>>

\* SendAction reads the configuration once and does not check its range; a
\* zero is falsy, as if none were configured.
ActionMax(configured) == IF configured \in {Absent, 0} THEN DefaultMax ELSE configured

PerformAction(s) ==
    /\ pc = "idle"
    /\ pluginConfiguration' =
         IF pluginConfiguration = NotRead THEN maxNumberOfItems ELSE pluginConfiguration
    /\ IF Len(s) > ActionMax(pluginConfiguration')
       THEN UNCHANGED <<pc, selected>>
       ELSE pc' = "dialog" /\ selected' = s
    /\ UNCHANGED <<config, package>>

Hide ==
    /\ pc = "dialog"
    /\ pc' = "idle"
    /\ selected' = <<>>
    /\ UNCHANGED <<config, pluginConfiguration, package>>

Send ==
    /\ pc = "dialog"
    /\ pc' = "posted"
    /\ UNCHANGED <<config, pluginConfiguration, selected, package>>

----------------------------------------------------------------------------
(* PackageSender. *)

\* What Integer.parseInt refuses is the default; a zero is not refused.
GetMaxNumberOfItems ==
    IF maxNumberOfItems \in 0..IntegerMax THEN maxNumberOfItems ELSE DefaultMax

InDesktop(i) == Repository[selected[i]] \in desktopRepositories

\* Variant: the limit is one short.
WithinLimitOneShort(i) ==
    Cardinality({j \in 1..i : InDesktop(j)}) < GetMaxNumberOfItems

WithinLimit(i) ==
    Cardinality({j \in 1..i : InDesktop(j)}) <= GetMaxNumberOfItems

Prepared == {selected[i] : i \in {k \in DOMAIN selected : InDesktop(k) /\ WithinLimit(k)}}

PrepareItems ==
    /\ pc = "posted"
    /\ items' = Prepared
    /\ todo' = Prepared
    /\ pc' = IF Prepared = {} THEN "failed" ELSE "prepared"
    /\ UNCHANGED <<config, pluginConfiguration, selected, filenames>>

----------------------------------------------------------------------------
(* Transfer.start. *)

\* All contents are retrieved before the first stream is opened.
RetrieveContents ==
    /\ pc = "prepared"
    /\ pc' \in {"retrieved", "failed"}
    /\ UNCHANGED <<config, pluginConfiguration, selected, package>>

\* Variant: one number too few is tried.
GetUniqueNameOneShort(existing, newName) ==
    LET free == {i \in 1 .. Len(existing) - 1 : Numbered(newName, i) \notin Range(existing)}
    IN  IF newName \notin Range(existing) \/ free = {} THEN newName
        ELSE Numbered(newName, CHOOSE i \in free : \A j \in free : i <= j)

GetUniqueName(existing, newName) ==
    LET free == {i \in 1 .. Len(existing) : Numbered(newName, i) \notin Range(existing)}
    IN  IF newName \notin Range(existing) \/ free = {} THEN newName
        ELSE Numbered(newName, CHOOSE i \in free : \A j \in free : i <= j)

\* The stream of a content may fail to open, which nobody catches.
CreateSource(d) ==
    /\ pc = "retrieved"
    /\ d \in todo
    /\ filenames' = Append(filenames, GetUniqueName(filenames, FileName[d]))
    /\ \/ /\ todo' = todo \ {d}
          /\ UNCHANGED pc
       \/ /\ pc' = "failed"
          /\ UNCHANGED todo
    /\ UNCHANGED <<config, pluginConfiguration, selected, items>>

\* The library takes the package or throws.
SendPackage ==
    /\ pc = "retrieved" /\ todo = {}
    /\ pc' \in {"sent", "failed"}
    /\ UNCHANGED <<config, pluginConfiguration, selected, package>>

Next ==
    \/ Configure
    \/ \E s \in Selections : PerformAction(s)
    \/ Hide \/ Send \/ PrepareItems \/ RetrieveContents
    \/ \E d \in Documents : CreateSource(d)
    \/ SendPackage

Spec == Init /\ [][Next]_vars

----------------------------------------------------------------------------
(* Properties. *)

AllNames == FileNames \cup {Numbered(f, i) : f \in FileNames, i \in Numbers}

\* Every variable keeps its type, and there is at most one source per item.
TypeOK ==
    /\ maxNumberOfItems \in Maxima \cup {Absent}
    /\ pluginConfiguration \in Maxima \cup {Absent, NotRead}
    /\ desktopRepositories \subseteq Range(Repository)
    /\ pc \in {"idle", "dialog", "posted", "prepared", "retrieved", "sent", "failed"}
    /\ selected \in Selections \cup {<<>>}
    /\ items \subseteq Documents
    /\ todo \subseteq items
    /\ filenames \in Seq(AllNames)
    /\ Len(filenames) <= Cardinality(items)

\* No two files of a package have the same name, although a numbered name may
\* be the name of another content: among as many numbers as there are names
\* one is free, so that the fallback to the clashing name is never taken.
NamesAreUnique == IsInjective(filenames)

\* What the dialog accepted is sent in full, except for items of repositories
\* that the desktop no longer has: as long as the configuration has not
\* changed since the browser read it and is a positive int, the limit of the
\* server cuts nothing off.
NothingIsCutOff ==
    [][pc = "posted" /\ pluginConfiguration = maxNumberOfItems
         /\ (maxNumberOfItems # Absent => maxNumberOfItems \in 1..IntegerMax)
         /\ PrepareItems
       => items' = {d \in Range(selected) : Repository[d] \in desktopRepositories}]_vars
=============================================================================
