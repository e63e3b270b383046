------------------------ MODULE PackageItemsProofs ------------------------
(***************************************************************************)
(* The names of the files of a package are unique, and a limit that has    *)
(* not changed cuts nothing off: for any documents, names and limits.      *)
(***************************************************************************)
EXTENDS PackageItems, TLAPS, FiniteSetTheorems

USE ConstantsAssumption

\* A nonempty set of numbers has a least element.
LEMMA LeastNumber ==
  ASSUME NEW T \in SUBSET Nat, T # {}
  PROVE  \E i \in T : \A j \in T : i <= j
<1> DEFINE F == {0..x : x \in T}
<1>1. F \subseteq FiniteSubsetsOf(Nat) /\ F # {}
  <2>1. ASSUME NEW x \in T PROVE 0..x \in FiniteSubsetsOf(Nat)
    <3>1. IsFiniteSet(0..x) BY FS_Interval
    <3> QED BY <3>1 DEF FiniteSubsetsOf
  <2>2. F # {}
    <3> PICK x \in T : TRUE OBVIOUS
    <3>1. 0..x \in F OBVIOUS
    <3> QED BY <3>1
  <2>3. ASSUME NEW X \in F PROVE X \in FiniteSubsetsOf(Nat)
    <3> PICK x \in T : X = 0..x OBVIOUS
    <3> QED BY <2>1
  <2> QED BY <2>2, <2>3
<1>2. PICK X \in F : \A Y \in F : <<Y, X>> \notin StrictSubsetOrdering(Nat)
  <2> HIDE DEF F
  <2> QED BY <1>1, FS_StrictSubsetOrderingWellFounded, WFMin
<1>3. PICK i \in T : X = 0..i
  OBVIOUS
<1>4. ASSUME NEW j \in T, j < i PROVE FALSE
  <2>1. 0..j \in F /\ <<0..j, 0..i>> \notin StrictSubsetOrdering(Nat)
    BY <1>2, <1>3
  <2>2. 0..j \subseteq 0..i /\ i \in 0..i /\ i \notin 0..j
    BY <1>4
  <2>3. 0..j \in SUBSET Nat /\ 0..i \in SUBSET Nat /\ 0..j # 0..i
    BY <2>2
  <2> QED BY <2>1, <2>2, <2>3 DEF StrictSubsetOrdering
<1> QED BY <1>4

\* A sequence has no more values than places.
LEMMA RangeIsSmall ==
  ASSUME NEW S, NEW s \in Seq(S)
  PROVE  /\ IsFiniteSet(Range(s))
         /\ Cardinality(Range(s)) \in Nat
         /\ Cardinality(Range(s)) <= Len(s)
<1>1. IsFiniteSet(1..Len(s)) /\ Cardinality(1..Len(s)) = Len(s)
  <2>1. Len(s) \in Nat OBVIOUS
  <2>2. /\ IsFiniteSet(1..Len(s))
        /\ Cardinality(1..Len(s)) = IF 1 > Len(s) THEN 0 ELSE Len(s) - 1 + 1
    BY <2>1, FS_Interval, SMTT(30)
  <2> QED BY <2>1, <2>2
<1>2. s \in Surjection(1..Len(s), Range(s))
  BY DEF Surjection, Range
<1> QED BY <1>1, <1>2, FS_Surjection, FS_CardinalityType

\* Among as many numbers as there are names one is free, when the name without
\* a number is taken.
LEMMA FreeNumber ==
  ASSUME NEW S, NEW existing \in Seq(S), NEW f \in FileNames,
         Len(existing) <= Cardinality(Documents), f \in Range(existing)
  PROVE  \E i \in 1..Len(existing) : Numbered(f, i) \notin Range(existing)
<1> SUFFICES ASSUME \A i \in 1..Len(existing) : Numbered(f, i) \in Range(existing)
             PROVE  FALSE
  OBVIOUS
<1> DEFINE n == Len(existing)
           g == [i \in 0..n |-> IF i = 0 THEN f ELSE Numbered(f, i)]
<1>1. n \in Nat /\ Cardinality(Documents) \in Nat
  BY FS_CardinalityType
<1>2. IsFiniteSet(0..n) /\ Cardinality(0..n) = n + 1
  BY <1>1, FS_Interval
<1>3. g \in [0..n -> Range(existing)]
  BY <1>1
<1>4. PICK i, j \in 0..n : i # j /\ g[i] = g[j]
  <2>1. Cardinality(Range(existing)) < Cardinality(0..n)
    BY <1>1, <1>2, RangeIsSmall
  <2> HIDE DEF g
  <2> QED BY <1>2, <1>3, <2>1, RangeIsSmall, FS_PigeonHole, SMTT(30)
<1>5. \A a, b \in 1..n : Numbered(f, a) # f /\ (Numbered(f, a) = Numbered(f, b) => a = b)
  BY <1>1, NumberedAssumption DEF Numbers
<1> QED BY <1>1, <1>4, <1>5

\* The name that is found clashes with none of the existing names.
LEMMA UniqueName ==
  ASSUME NEW existing \in Seq(AllNames), NEW f \in FileNames,
         Len(existing) < Cardinality(Documents)
  PROVE  /\ GetUniqueName(existing, f) \in AllNames
         /\ GetUniqueName(existing, f) \notin Range(existing)
<1>1. Len(existing) \in Nat /\ Cardinality(Documents) \in Nat
  BY FS_CardinalityType
<1>2. CASE f \notin Range(existing)
  BY <1>2 DEF GetUniqueName, AllNames
<1>3. CASE f \in Range(existing)
  <2> DEFINE free == {i \in 1 .. Len(existing) : Numbered(f, i) \notin Range(existing)}
             least == CHOOSE i \in free : \A j \in free : i <= j
  <2>1. free # {} /\ free \in SUBSET Nat
    BY <1>1, <1>3, FreeNumber
  <2>2. least \in free
    <3> HIDE DEF free
    <3> QED BY <2>1, LeastNumber
  <2>3. GetUniqueName(existing, f) = Numbered(f, least)
    BY <1>3, <2>1 DEF GetUniqueName
  <2> HIDE DEF least
  <2>4. least \in Numbers BY <1>1, <2>2 DEF Numbers
  <2> QED BY <2>2, <2>3, <2>4 DEF AllNames
<1> QED BY <1>2, <1>3

----------------------------------------------------------------------------

\* Each source stands for an item whose turn has come, and names are given in
\* one pass.
SourcesInv ==
    /\ pc \in {"idle", "dialog", "posted"} => items = {} /\ filenames = <<>>
    /\ pc \in {"prepared", "retrieved"} =>
         Len(filenames) + Cardinality(todo) <= Cardinality(items)

\* What is in the dialog was accepted under the configuration that was read.
SelectionInv ==
    pc \in {"dialog", "posted"} =>
        /\ selected \in Selections
        /\ pluginConfiguration # NotRead
        /\ Len(selected) <= ActionMax(pluginConfiguration)

Inv == TypeOK /\ SourcesInv /\ SelectionInv /\ NamesAreUnique

\* The items of a package are finitely many.
LEMMA ItemsAreFinite ==
  ASSUME NEW I \in SUBSET Documents
  PROVE  /\ IsFiniteSet(I)
         /\ Cardinality(I) \in Nat
         /\ Cardinality(I) <= Cardinality(Documents)
  BY FS_Subset, FS_CardinalityType

LEMMA InitInv == Init => Inv
<1> SUFFICES ASSUME Init PROVE Inv
  OBVIOUS
<1>1. Cardinality({}) = 0 BY FS_EmptySet
<1> QED BY <1>1 DEF Init, Inv, TypeOK, SourcesInv, SelectionInv, NamesAreUnique,
           IsInjective

\* What does not touch the package keeps what is said of it.
LEMMA BrowserStep ==
  ASSUME Inv, Configure \/ (\E s \in Selections : PerformAction(s)) \/ Hide \/ Send
  PROVE  Inv'
<1> USE DEF Inv
<1>1. UNCHANGED package
  BY DEF Configure, PerformAction, Hide, Send
<1>2. TypeOK'
  BY <1>1 DEF TypeOK, Configure, PerformAction, Hide, Send, config, package
<1>3. SelectionInv'
  BY DEF SelectionInv, TypeOK, Configure, PerformAction, Hide, Send, ActionMax
<1>4. SourcesInv'
  BY <1>1 DEF SourcesInv, Configure, PerformAction, Hide, Send, package
<1>5. NamesAreUnique' BY <1>1 DEF NamesAreUnique, IsInjective, package
<1> QED BY <1>2, <1>3, <1>4, <1>5

\* The server picks the items.
LEMMA PrepareItemsStep ==
  ASSUME Inv, PrepareItems
  PROVE  Inv'
<1> USE DEF Inv
<1>1. Prepared \in SUBSET Documents
  BY DEF Prepared, PrepareItems, SelectionInv, Selections
<1>2. filenames' = <<>> /\ items' = Prepared /\ todo' = Prepared
  BY DEF PrepareItems, SourcesInv
<1>3. Cardinality(Prepared) \in Nat
  BY <1>1, ItemsAreFinite
<1>4. TypeOK' BY <1>1, <1>2, <1>3 DEF TypeOK, PrepareItems, config
<1>5. SourcesInv' BY <1>2, <1>3 DEF SourcesInv, PrepareItems
<1>6. SelectionInv' BY DEF SelectionInv, PrepareItems
<1>7. NamesAreUnique' BY <1>2 DEF NamesAreUnique, IsInjective
<1> QED BY <1>4, <1>5, <1>6, <1>7

\* A source is created, or its stream fails to open.
LEMMA CreateSourceStep ==
  ASSUME Inv, NEW d \in Documents, CreateSource(d)
  PROVE  Inv'
<1> USE DEF Inv
<1> DEFINE name == GetUniqueName(filenames, FileName[d])
<1>1. /\ IsFiniteSet(todo)
      /\ Cardinality(todo) \in Nat /\ Cardinality(items) \in Nat
      /\ Cardinality(items) <= Cardinality(Documents)
      /\ Cardinality(Documents) \in Nat
  BY ItemsAreFinite, FS_CardinalityType DEF TypeOK
<1>2. Cardinality(todo \ {d}) = Cardinality(todo) - 1 /\ Cardinality(todo) # 0
  BY <1>1, FS_RemoveElement, FS_EmptySet DEF CreateSource
<1>3. Len(filenames) < Cardinality(items)
  BY <1>1, <1>2 DEF SourcesInv, CreateSource, TypeOK
<1>4. name \in AllNames /\ name \notin Range(filenames)
  <2>1. FileName[d] \in FileNames OBVIOUS
  <2> QED BY <1>1, <1>3, <2>1, UniqueName DEF TypeOK
<1> HIDE DEF name
<1>5. filenames' = Append(filenames, name)
  BY DEF CreateSource, name
<1>6. filenames' \in Seq(AllNames) /\ Len(filenames') = Len(filenames) + 1
  BY <1>4, <1>5 DEF TypeOK
<1>7. TypeOK'
  BY <1>1, <1>3, <1>6 DEF TypeOK, CreateSource, config
<1>8. SourcesInv'
  <2>1. pc = "retrieved" /\ items' = items
    BY DEF CreateSource
  <2>2. Len(filenames) + Cardinality(todo) <= Cardinality(items)
    BY <2>1 DEF SourcesInv
  <2>3. CASE todo' = todo \ {d} /\ pc' = pc
    BY <1>1, <1>2, <1>6, <2>1, <2>2, <2>3 DEF SourcesInv, TypeOK
  <2>4. CASE pc' = "failed"
    BY <2>4 DEF SourcesInv
  <2> QED BY <2>3, <2>4 DEF CreateSource
<1>9. SelectionInv'
  BY DEF SelectionInv, CreateSource
<1>10. NamesAreUnique'
  <2>1. \A i \in 1..Len(filenames) : filenames'[i] = filenames[i]
    BY <1>4, <1>5 DEF TypeOK
  <2>2. filenames'[Len(filenames) + 1] = name
    BY <1>4, <1>5 DEF TypeOK
  <2>3. \A i \in 1..Len(filenames) : filenames[i] # name
    BY <1>4 DEF Range, TypeOK
  <2>4. DOMAIN filenames' = 1 .. Len(filenames) + 1 /\ Len(filenames) \in Nat
    BY <1>6 DEF TypeOK
  <2>5. \A i, j \in 1..Len(filenames) : filenames[i] = filenames[j] => i = j
    BY DEF NamesAreUnique, IsInjective, TypeOK
  <2> QED BY <2>1, <2>2, <2>3, <2>4, <2>5 DEF NamesAreUnique, IsInjective
<1> QED BY <1>7, <1>8, <1>9, <1>10

\* The steps that do not change the sources.
LEMMA TransferStep ==
  ASSUME Inv, RetrieveContents \/ SendPackage
  PROVE  Inv'
<1> USE DEF Inv
<1>1. UNCHANGED <<config, pluginConfiguration, selected, items, todo, filenames>>
  BY DEF RetrieveContents, SendPackage, package
<1>2. /\ pc' \in {"retrieved", "failed", "sent"}
      /\ pc' = "retrieved" => pc = "prepared"
  BY DEF RetrieveContents, SendPackage
<1>3. TypeOK' BY <1>1, <1>2 DEF TypeOK, config
<1>4. SourcesInv' /\ SelectionInv' BY <1>1, <1>2 DEF SourcesInv, SelectionInv
<1>5. NamesAreUnique' BY <1>1 DEF NamesAreUnique, IsInjective
<1> QED BY <1>3, <1>4, <1>5

----------------------------------------------------------------------------

\* Inv holds in every reachable state.
THEOREM Invariance == Spec => []Inv
<1>1. Inv /\ [Next]_vars => Inv'
  <2>1. ASSUME Inv, UNCHANGED vars PROVE Inv'
    BY <2>1 DEF Inv, vars, config, package, TypeOK, SourcesInv, SelectionInv,
                NamesAreUnique, IsInjective
  <2> QED BY <2>1, BrowserStep, PrepareItemsStep, CreateSourceStep, TransferStep DEF Next
<1> QED BY <1>1, InitInv, PTL DEF Spec

\* Type correctness; there is at most one source per item.
THEOREM TypeCorrectness == Spec => []TypeOK
<1>1. Inv => TypeOK BY DEF Inv
<1> QED BY <1>1, Invariance, PTL

\* No two files of a package have the same name.
THEOREM NameSafety == Spec => []NamesAreUnique
<1>1. Inv => NamesAreUnique BY DEF Inv
<1> QED BY <1>1, Invariance, PTL

\* A limit that the browser has already applied cuts nothing off.
THEOREM LimitSafety == Spec => NothingIsCutOff
<1>1. Inv /\ [Next]_vars =>
        [pc = "posted" /\ pluginConfiguration = maxNumberOfItems
           /\ (maxNumberOfItems # Absent => maxNumberOfItems \in 1..IntegerMax)
           /\ PrepareItems
         => items' = {d \in Range(selected) : Repository[d] \in desktopRepositories}]_vars
  <2> SUFFICES ASSUME Inv, pc = "posted", pluginConfiguration = maxNumberOfItems,
                      maxNumberOfItems # Absent => maxNumberOfItems \in 1..IntegerMax,
                      PrepareItems
               PROVE  items' = {d \in Range(selected) : Repository[d] \in desktopRepositories}
    OBVIOUS
  <2>1. /\ selected \in Selections
        /\ Len(selected) <= ActionMax(pluginConfiguration)
    BY DEF Inv, SelectionInv
  <2>2. PICK n \in 1..MaxSelected : selected \in [1..n -> Documents]
    BY <2>1 DEF Selections
  <2>3. Len(selected) = n /\ DOMAIN selected = 1..n /\ n \in Nat
    BY <2>2
  <2>4. ActionMax(pluginConfiguration) = GetMaxNumberOfItems /\ GetMaxNumberOfItems \in Nat
    BY DEF ActionMax, GetMaxNumberOfItems, Inv, TypeOK
  <2>5. ASSUME NEW i \in 1..n PROVE WithinLimit(i)
    <3>1. IsFiniteSet(1..i) /\ Cardinality(1..i) = i
      BY <2>3, FS_Interval
    <3>2. /\ Cardinality({j \in 1..i : InDesktop(j)}) \in Nat
          /\ Cardinality({j \in 1..i : InDesktop(j)}) <= i
      BY <3>1, FS_Subset, FS_CardinalityType
    <3> QED BY <2>1, <2>3, <2>4, <3>2 DEF WithinLimit
  <2>6. Prepared = {selected[i] : i \in {k \in 1..n : InDesktop(k)}}
    BY <2>3, <2>5 DEF Prepared
  <2> QED BY <2>3, <2>6 DEF PrepareItems, Range, InDesktop
<1> QED BY <1>1, Invariance, PTL DEF Spec, NothingIsCutOff
=============================================================================
