----------------------- MODULE RecentPackagesProofs -----------------------
(***************************************************************************)
(* What the service holds of the packages of its users, for any number of  *)
(* packages, users and requests.  The invariant Inv needs no assumption on *)
(* who makes which request; SerialInv needs that no two requests have the  *)
(* same user at a time.                                                    *)
(***************************************************************************)
EXTENDS RecentPackages, TLAPS

(* Every action keeps Inv: one lemma for each.                             *)
USE DEF store, locals, Goto, Reveal, Stored, NoIds, Exists, IsAdmin

LEMMA StartTransferInv ==
  ASSUME ConstantsAssumption, Inv, NEW r \in Requests, NEW p \in Packages, StartTransfer(r, p)
  PROVE  Inv'
<1>1. TypeOK'
  <2>1. phase' \in [Packages -> {"absent", "running", "archived", "gone"}]
    BY DEF Inv, TypeOK, StartTransfer, Registry!Register
  <2>2. sent' \in [Users -> SUBSET Packages]
    BY DEF ConstantsAssumption, Inv, TypeOK, StartTransfer
  <2>3. pc' \in [Requests -> {"idle", "lookUp", "lookUpArchive", "notFound", "loadToAdd",
                              "saveAdded", "loadIds", "noIds", "filter", "filterArchive",
                              "handle", "getArchived", "stopTransfers"}]
    BY DEF Inv, TypeOK, StartTransfer
  <2>4. /\ action' \in [Requests -> PackageActionTypes \cup {"send"}]
        /\ package' \in [Requests -> Packages \cup {NoPackage}]
        /\ shown' \in [Requests -> SUBSET Packages]
    BY DEF Inv, TypeOK, StartTransfer
  <2> QED
    BY <2>1, <2>2, <2>3, <2>4 DEF Inv, TypeOK, StartTransfer
<1>2. SentIsFound' /\ LookUpOrder'
  BY DEF ConstantsAssumption, Inv, TypeOK, SentIsFound, LookUpOrder, SentOrder, FilterLabels, SendLabels, StartTransfer, Registry!Register
<1>3. OwnPackagesOnly' /\ SentOrder'
  BY DEF ConstantsAssumption, Inv, TypeOK, OwnPackagesOnly, SentOrder, FilterLabels, SendLabels, StartTransfer, Registry!Register
<1>4. HandledIdsExist'
  BY DEF ConstantsAssumption, Inv, TypeOK, LookUpOrder, HandledIdsExist, FilterLabels, StartTransfer, Registry!Register
<1> QED  BY <1>1, <1>2, <1>3, <1>4 DEF Inv

LEMMA StartFailsInv ==
  ASSUME ConstantsAssumption, Inv, NEW r \in Requests, StartFails(r)
  PROVE  Inv'
<1>1. TypeOK'
  BY DEF ConstantsAssumption, Inv, TypeOK, SentOrder, SendLabels, PackageActionTypes, ListTypes, StartFails, Answer
<1>2. SentIsFound' /\ LookUpOrder'
  BY DEF ConstantsAssumption, Inv, TypeOK, SentIsFound, LookUpOrder, SentOrder, FilterLabels, SendLabels, StartFails, Answer
<1>3. OwnPackagesOnly' /\ SentOrder'
  BY DEF ConstantsAssumption, Inv, TypeOK, OwnPackagesOnly, SentOrder, FilterLabels, SendLabels, StartFails, Answer
<1>4. HandledIdsExist'
  BY DEF ConstantsAssumption, Inv, TypeOK, LookUpOrder, HandledIdsExist, FilterLabels, StartFails, Answer
<1> QED  BY <1>1, <1>2, <1>3, <1>4 DEF Inv

LEMMA LookUpInv ==
  ASSUME ConstantsAssumption, Inv, NEW r \in Requests, LookUp(r)
  PROVE  Inv'
<1>1. TypeOK'
  BY DEF ConstantsAssumption, Inv, TypeOK, PackageActionTypes, ListTypes, LookUp
<1>2. SentIsFound' /\ LookUpOrder'
  BY DEF ConstantsAssumption, Inv, TypeOK, SentIsFound, LookUpOrder, SentOrder, FilterLabels, SendLabels, LookUp
<1>3. OwnPackagesOnly' /\ SentOrder'
  BY DEF ConstantsAssumption, Inv, TypeOK, OwnPackagesOnly, SentOrder, FilterLabels, SendLabels, LookUp
<1>4. HandledIdsExist'
  BY DEF ConstantsAssumption, Inv, TypeOK, LookUpOrder, HandledIdsExist, FilterLabels, LookUp
<1> QED  BY <1>1, <1>2, <1>3, <1>4 DEF Inv

LEMMA LookUpArchiveInv ==
  ASSUME ConstantsAssumption, Inv, NEW r \in Requests, LookUpArchive(r)
  PROVE  Inv'
<1>1. TypeOK'
  BY DEF ConstantsAssumption, Inv, TypeOK, PackageActionTypes, ListTypes, LookUpArchive
<1>2. SentIsFound' /\ LookUpOrder'
  BY DEF ConstantsAssumption, Inv, TypeOK, SentIsFound, LookUpOrder, SentOrder, FilterLabels, SendLabels, LookUpArchive
<1>3. OwnPackagesOnly' /\ SentOrder'
  BY DEF ConstantsAssumption, Inv, TypeOK, OwnPackagesOnly, SentOrder, FilterLabels, SendLabels, LookUpArchive
<1>4. HandledIdsExist'
  BY DEF ConstantsAssumption, Inv, TypeOK, LookUpOrder, HandledIdsExist, FilterLabels, LookUpArchive
<1> QED  BY <1>1, <1>2, <1>3, <1>4 DEF Inv

LEMMA RefreshNonceFailsInv ==
  ASSUME ConstantsAssumption, Inv, NEW r \in Requests, RefreshNonceFails(r)
  PROVE  Inv'
<1>1. TypeOK'
  BY DEF ConstantsAssumption, Inv, TypeOK, SentOrder, SendLabels, PackageActionTypes, ListTypes, RefreshNonceFails, Answer
<1>2. SentIsFound' /\ LookUpOrder'
  BY DEF ConstantsAssumption, Inv, TypeOK, SentIsFound, LookUpOrder, SentOrder, FilterLabels, SendLabels, RefreshNonceFails, Answer
<1>3. OwnPackagesOnly' /\ SentOrder'
  BY DEF ConstantsAssumption, Inv, TypeOK, OwnPackagesOnly, SentOrder, FilterLabels, SendLabels, RefreshNonceFails, Answer
<1>4. HandledIdsExist'
  BY DEF ConstantsAssumption, Inv, TypeOK, LookUpOrder, HandledIdsExist, FilterLabels, RefreshNonceFails, Answer
<1> QED  BY <1>1, <1>2, <1>3, <1>4 DEF Inv

LEMMA LoadToAddInv ==
  ASSUME ConstantsAssumption, Inv, NEW r \in Requests, LoadToAdd(r)
  PROVE  Inv'
<1>1. TypeOK'
  BY DEF ConstantsAssumption, Inv, TypeOK, PackageActionTypes, ListTypes, LoadToAdd
<1>2. SentIsFound' /\ LookUpOrder'
  BY DEF ConstantsAssumption, Inv, TypeOK, SentIsFound, LookUpOrder, SentOrder, FilterLabels, SendLabels, LoadToAdd
<1>3. OwnPackagesOnly' /\ SentOrder'
  BY DEF ConstantsAssumption, Inv, TypeOK, OwnPackagesOnly, SentOrder, FilterLabels, SendLabels, LoadToAdd
<1>4. HandledIdsExist'
  BY DEF ConstantsAssumption, Inv, TypeOK, LookUpOrder, HandledIdsExist, FilterLabels, LoadToAdd
<1> QED  BY <1>1, <1>2, <1>3, <1>4 DEF Inv

LEMMA SaveAddedInv ==
  ASSUME ConstantsAssumption, Inv, NEW r \in Requests, SaveAdded(r)
  PROVE  Inv'
<1>1. TypeOK'
  BY DEF ConstantsAssumption, Inv, TypeOK, SentOrder, SendLabels, PackageActionTypes, ListTypes, SaveAdded, Save, Answer
<1>2. SentIsFound' /\ LookUpOrder'
  BY DEF ConstantsAssumption, Inv, TypeOK, SentIsFound, LookUpOrder, SentOrder, FilterLabels, SendLabels, SaveAdded, Save, Answer
<1>3. OwnPackagesOnly' /\ SentOrder'
  BY DEF ConstantsAssumption, Inv, TypeOK, OwnPackagesOnly, SentOrder, FilterLabels, SendLabels, SaveAdded, Save, Answer
<1>4. HandledIdsExist'
  BY DEF ConstantsAssumption, Inv, TypeOK, LookUpOrder, HandledIdsExist, FilterLabels, SaveAdded, Save, Answer
<1> QED  BY <1>1, <1>2, <1>3, <1>4 DEF Inv

LEMMA AddFailsInv ==
  ASSUME ConstantsAssumption, Inv, NEW r \in Requests, AddFails(r)
  PROVE  Inv'
<1>1. TypeOK'
  BY DEF ConstantsAssumption, Inv, TypeOK, SentOrder, SendLabels, PackageActionTypes, ListTypes, AddFails, Answer
<1>2. SentIsFound' /\ LookUpOrder'
  BY DEF ConstantsAssumption, Inv, TypeOK, SentIsFound, LookUpOrder, SentOrder, FilterLabels, SendLabels, AddFails, Answer
<1>3. OwnPackagesOnly' /\ SentOrder'
  BY DEF ConstantsAssumption, Inv, TypeOK, OwnPackagesOnly, SentOrder, FilterLabels, SendLabels, AddFails, Answer
<1>4. HandledIdsExist'
  BY DEF ConstantsAssumption, Inv, TypeOK, LookUpOrder, HandledIdsExist, FilterLabels, AddFails, Answer
<1> QED  BY <1>1, <1>2, <1>3, <1>4 DEF Inv

LEMMA AskInv ==
  ASSUME ConstantsAssumption, Inv, NEW r \in Requests, NEW type \in PackageActionTypes, NEW p \in Packages \cup {NoPackage}, Ask(r, type, p)
  PROVE  Inv'
<1>1. TypeOK'
  BY DEF ConstantsAssumption, Inv, TypeOK, PackageActionTypes, ListTypes, Ask
<1>2. SentIsFound' /\ LookUpOrder'
  BY DEF ConstantsAssumption, Inv, TypeOK, SentIsFound, LookUpOrder, SentOrder, FilterLabels, SendLabels, Ask
<1>3. OwnPackagesOnly' /\ SentOrder'
  BY DEF ConstantsAssumption, Inv, TypeOK, OwnPackagesOnly, SentOrder, FilterLabels, SendLabels, Ask
<1>4. HandledIdsExist'
  BY DEF ConstantsAssumption, Inv, TypeOK, LookUpOrder, HandledIdsExist, FilterLabels, Ask
<1> QED  BY <1>1, <1>2, <1>3, <1>4 DEF Inv

LEMMA LoadIdsInv ==
  ASSUME ConstantsAssumption, Inv, NEW r \in Requests, LoadIds(r)
  PROVE  Inv'
<1>1. TypeOK'
  BY DEF ConstantsAssumption, Inv, TypeOK, PackageActionTypes, ListTypes, LoadIds
<1>2. SentIsFound' /\ LookUpOrder'
  BY DEF ConstantsAssumption, Inv, TypeOK, SentIsFound, LookUpOrder, SentOrder, FilterLabels, SendLabels, LoadIds
<1>3. OwnPackagesOnly' /\ SentOrder'
  BY DEF ConstantsAssumption, Inv, TypeOK, OwnPackagesOnly, SentOrder, FilterLabels, SendLabels, LoadIds
<1>4. HandledIdsExist'
  BY DEF ConstantsAssumption, Inv, TypeOK, LookUpOrder, HandledIdsExist, FilterLabels, LoadIds
<1> QED  BY <1>1, <1>2, <1>3, <1>4 DEF Inv

LEMMA FilterRunningInv ==
  ASSUME ConstantsAssumption, Inv, NEW r \in Requests, NEW p \in rest[r], FilterRunning(r, p)
  PROVE  Inv'
<1>1. TypeOK'
  BY DEF ConstantsAssumption, Inv, TypeOK, PackageActionTypes, ListTypes, FilterRunning
<1>2. SentIsFound' /\ LookUpOrder'
  BY DEF ConstantsAssumption, Inv, TypeOK, SentIsFound, LookUpOrder, SentOrder, FilterLabels, SendLabels, FilterRunning
<1>3. OwnPackagesOnly' /\ SentOrder'
  BY DEF ConstantsAssumption, Inv, TypeOK, OwnPackagesOnly, SentOrder, FilterLabels, SendLabels, FilterRunning
<1>4. HandledIdsExist'
  BY DEF ConstantsAssumption, Inv, TypeOK, LookUpOrder, HandledIdsExist, FilterLabels, FilterRunning
<1> QED  BY <1>1, <1>2, <1>3, <1>4 DEF Inv

LEMMA FilterArchiveInv ==
  ASSUME ConstantsAssumption, Inv, NEW r \in Requests, FilterArchive(r)
  PROVE  Inv'
<1>1. TypeOK'
  BY DEF ConstantsAssumption, Inv, TypeOK, PackageActionTypes, ListTypes, SentOrder, FilterLabels, FilterArchive
<1>2. SentIsFound' /\ LookUpOrder'
  BY DEF ConstantsAssumption, Inv, TypeOK, SentIsFound, LookUpOrder, SentOrder, FilterLabels, SendLabels, FilterArchive
<1>3. OwnPackagesOnly' /\ SentOrder'
  BY DEF ConstantsAssumption, Inv, TypeOK, OwnPackagesOnly, SentOrder, FilterLabels, SendLabels, FilterArchive
<1>4. HandledIdsExist'
  BY DEF ConstantsAssumption, Inv, TypeOK, LookUpOrder, HandledIdsExist, FilterLabels, FilterArchive
<1> QED  BY <1>1, <1>2, <1>3, <1>4 DEF Inv

LEMMA SaveIdsInv ==
  ASSUME ConstantsAssumption, Inv, NEW r \in Requests, SaveIds(r)
  PROVE  Inv'
<1>1. TypeOK'
  BY DEF ConstantsAssumption, Inv, TypeOK, PackageActionTypes, ListTypes, SaveIds, Save
<1>2. SentIsFound' /\ LookUpOrder'
  BY DEF ConstantsAssumption, Inv, TypeOK, SentIsFound, LookUpOrder, SentOrder, FilterLabels, SendLabels, SaveIds, Save
<1>3. OwnPackagesOnly' /\ SentOrder'
  BY DEF ConstantsAssumption, Inv, TypeOK, OwnPackagesOnly, SentOrder, FilterLabels, SendLabels, SaveIds, Save
<1>4. HandledIdsExist'
  BY DEF ConstantsAssumption, Inv, TypeOK, LookUpOrder, HandledIdsExist, FilterLabels, SaveIds, Save
<1> QED  BY <1>1, <1>2, <1>3, <1>4 DEF Inv

LEMMA ExecuteFailsInv ==
  ASSUME ConstantsAssumption, Inv, NEW r \in Requests, ExecuteFails(r)
  PROVE  Inv'
<1>1. TypeOK'
  BY DEF ConstantsAssumption, Inv, TypeOK, PackageActionTypes, ListTypes, ExecuteFails, Answer
<1>2. SentIsFound' /\ LookUpOrder'
  BY DEF ConstantsAssumption, Inv, TypeOK, SentIsFound, LookUpOrder, SentOrder, FilterLabels, SendLabels, ExecuteFails, Answer
<1>3. OwnPackagesOnly' /\ SentOrder'
  BY DEF ConstantsAssumption, Inv, TypeOK, OwnPackagesOnly, SentOrder, FilterLabels, SendLabels, ExecuteFails, Answer
<1>4. HandledIdsExist'
  BY DEF ConstantsAssumption, Inv, TypeOK, LookUpOrder, HandledIdsExist, FilterLabels, ExecuteFails, Answer
<1> QED  BY <1>1, <1>2, <1>3, <1>4 DEF Inv

LEMMA HandleFailsInv ==
  ASSUME ConstantsAssumption, Inv, NEW r \in Requests, HandleFails(r)
  PROVE  Inv'
<1>1. TypeOK'
  BY DEF ConstantsAssumption, Inv, TypeOK, PackageActionTypes, ListTypes, HandleFails, Answer
<1>2. SentIsFound' /\ LookUpOrder'
  BY DEF ConstantsAssumption, Inv, TypeOK, SentIsFound, LookUpOrder, SentOrder, FilterLabels, SendLabels, HandleFails, Answer
<1>3. OwnPackagesOnly' /\ SentOrder'
  BY DEF ConstantsAssumption, Inv, TypeOK, OwnPackagesOnly, SentOrder, FilterLabels, SendLabels, HandleFails, Answer
<1>4. HandledIdsExist'
  BY DEF ConstantsAssumption, Inv, TypeOK, LookUpOrder, HandledIdsExist, FilterLabels, HandleFails, Answer
<1> QED  BY <1>1, <1>2, <1>3, <1>4 DEF Inv

LEMMA GetInv ==
  ASSUME ConstantsAssumption, Inv, NEW r \in Requests, Get(r)
  PROVE  Inv'
<1>1. TypeOK'
  BY SMTT(30) DEF ConstantsAssumption, Inv, TypeOK, PackageActionTypes, ListTypes, SentOrder, Get, Handles, IsValid, IsMyPackage, Answer
<1>2. SentIsFound' /\ LookUpOrder'
  BY DEF ConstantsAssumption, Inv, TypeOK, SentIsFound, LookUpOrder, SentOrder, FilterLabels, SendLabels, Get, Handles, IsValid, IsMyPackage, Answer
<1>3. OwnPackagesOnly' /\ SentOrder'
  BY SMTT(30) DEF ConstantsAssumption, Inv, TypeOK, OwnPackagesOnly, SentOrder, FilterLabels, SendLabels, Get, Handles, IsValid, IsMyPackage, Answer
<1>4. HandledIdsExist'
  BY DEF ConstantsAssumption, Inv, TypeOK, LookUpOrder, HandledIdsExist, FilterLabels, Get, Handles, IsValid, IsMyPackage, Answer
<1> QED  BY <1>1, <1>2, <1>3, <1>4 DEF Inv

LEMMA GetArchivedInv ==
  ASSUME ConstantsAssumption, Inv, NEW r \in Requests, GetArchived(r)
  PROVE  Inv'
<1>1. TypeOK'
  BY DEF ConstantsAssumption, Inv, TypeOK, PackageActionTypes, ListTypes, GetArchived, Answer
<1>2. SentIsFound' /\ LookUpOrder'
  BY DEF ConstantsAssumption, Inv, TypeOK, SentIsFound, LookUpOrder, SentOrder, FilterLabels, SendLabels, GetArchived, Answer
<1>3. OwnPackagesOnly' /\ SentOrder'
  BY DEF ConstantsAssumption, Inv, TypeOK, OwnPackagesOnly, SentOrder, FilterLabels, SendLabels, GetArchived, Answer
<1>4. HandledIdsExist'
  BY DEF ConstantsAssumption, Inv, TypeOK, LookUpOrder, HandledIdsExist, FilterLabels, GetArchived, Answer
<1> QED  BY <1>1, <1>2, <1>3, <1>4 DEF Inv

LEMMA ListInv ==
  ASSUME ConstantsAssumption, Inv, NEW r \in Requests, List(r)
  PROVE  Inv'
<1>1. TypeOK'
  BY DEF ConstantsAssumption, Inv, TypeOK, PackageActionTypes, ListTypes, List, Handles, IsValid, IsMyPackage, ListTypes, Answer
<1>2. SentIsFound' /\ LookUpOrder'
  BY DEF ConstantsAssumption, Inv, TypeOK, SentIsFound, LookUpOrder, SentOrder, FilterLabels, SendLabels, List, Handles, IsValid, IsMyPackage, ListTypes, Answer
<1>3. OwnPackagesOnly' /\ SentOrder'
  BY DEF ConstantsAssumption, Inv, TypeOK, OwnPackagesOnly, SentOrder, FilterLabels, SendLabels, List, Handles, IsValid, IsMyPackage, ListTypes, Answer
<1>4. HandledIdsExist'
  BY DEF ConstantsAssumption, Inv, TypeOK, LookUpOrder, HandledIdsExist, FilterLabels, List, Handles, IsValid, IsMyPackage, ListTypes, Answer
<1> QED  BY <1>1, <1>2, <1>3, <1>4 DEF Inv

LEMMA StopPackagesInv ==
  ASSUME ConstantsAssumption, Inv, NEW r \in Requests, StopPackages(r)
  PROVE  Inv'
<1>1. TypeOK'
  BY DEF ConstantsAssumption, Inv, TypeOK, PackageActionTypes, ListTypes, StopPackages, Handles, IsValid, IsMyPackage
<1>2. SentIsFound' /\ LookUpOrder'
  BY DEF ConstantsAssumption, Inv, TypeOK, SentIsFound, LookUpOrder, SentOrder, FilterLabels, SendLabels, StopPackages, Handles, IsValid, IsMyPackage
<1>3. OwnPackagesOnly' /\ SentOrder'
  BY DEF ConstantsAssumption, Inv, TypeOK, OwnPackagesOnly, SentOrder, FilterLabels, SendLabels, StopPackages, Handles, IsValid, IsMyPackage
<1>4. HandledIdsExist'
  BY DEF ConstantsAssumption, Inv, TypeOK, LookUpOrder, HandledIdsExist, FilterLabels, StopPackages, Handles, IsValid, IsMyPackage
<1> QED  BY <1>1, <1>2, <1>3, <1>4 DEF Inv

LEMMA StopTransferInv ==
  ASSUME ConstantsAssumption, Inv, NEW r \in Requests, NEW p \in rest[r], StopTransfer(r, p)
  PROVE  Inv'
<1>1. TypeOK'
  BY DEF ConstantsAssumption, Inv, TypeOK, PackageActionTypes, ListTypes, StopTransfer, Registry!Archive
<1>2. SentIsFound' /\ LookUpOrder'
  <2>1. p \in Packages
    BY DEF Inv, TypeOK
  <2>2. CASE Registry!Archive(p)
    BY <2>1, <2>2 DEF ConstantsAssumption, Inv, TypeOK, SentIsFound, LookUpOrder, SentOrder, FilterLabels, SendLabels, StopTransfer, Registry!Archive
  <2>3. CASE UNCHANGED phase
    BY <2>3 DEF ConstantsAssumption, Inv, SentIsFound, LookUpOrder, StopTransfer
  <2> QED  BY <2>2, <2>3 DEF StopTransfer
<1>3. OwnPackagesOnly' /\ SentOrder'
  <2>1. p \in Packages /\ (IsAdmin(r) \/ p \in sent[UserOf[r]])
    BY DEF Inv, TypeOK, SentOrder, StopTransfer
  <2>2. OwnPackagesOnly'
    BY <2>1 DEF ConstantsAssumption, Inv, TypeOK, OwnPackagesOnly, StopTransfer, Registry!Archive
  <2>3. SentOrder'
    BY <2>1 DEF ConstantsAssumption, Inv, TypeOK, SentOrder, FilterLabels, SendLabels, StopTransfer, Registry!Archive
  <2> QED  BY <2>2, <2>3
<1>4. HandledIdsExist'
  BY DEF ConstantsAssumption, Inv, TypeOK, LookUpOrder, HandledIdsExist, FilterLabels, StopTransfer, Registry!Archive
<1> QED  BY <1>1, <1>2, <1>3, <1>4 DEF Inv

LEMMA StopReturnsInv ==
  ASSUME ConstantsAssumption, Inv, NEW r \in Requests, StopReturns(r)
  PROVE  Inv'
<1>1. TypeOK'
  BY DEF ConstantsAssumption, Inv, TypeOK, PackageActionTypes, ListTypes, StopReturns, Answer
<1>2. SentIsFound' /\ LookUpOrder'
  BY DEF ConstantsAssumption, Inv, TypeOK, SentIsFound, LookUpOrder, SentOrder, FilterLabels, SendLabels, StopReturns, Answer
<1>3. OwnPackagesOnly' /\ SentOrder'
  BY DEF ConstantsAssumption, Inv, TypeOK, OwnPackagesOnly, SentOrder, FilterLabels, SendLabels, StopReturns, Answer
<1>4. HandledIdsExist'
  BY DEF ConstantsAssumption, Inv, TypeOK, LookUpOrder, HandledIdsExist, FilterLabels, StopReturns, Answer
<1> QED  BY <1>1, <1>2, <1>3, <1>4 DEF Inv

LEMMA ArchiveInv ==
  ASSUME ConstantsAssumption, Inv, NEW p \in Packages, Archive(p)
  PROVE  Inv'
<1>1. TypeOK'
  BY DEF ConstantsAssumption, Inv, TypeOK, PackageActionTypes, ListTypes, Archive, Registry!Archive
<1>2. SentIsFound' /\ LookUpOrder'
  BY DEF ConstantsAssumption, Inv, TypeOK, SentIsFound, LookUpOrder, SentOrder, FilterLabels, SendLabels, Archive, Registry!Archive
<1>3. OwnPackagesOnly' /\ SentOrder'
  BY DEF ConstantsAssumption, Inv, TypeOK, OwnPackagesOnly, SentOrder, FilterLabels, SendLabels, Archive, Registry!Archive
<1>4. HandledIdsExist'
  BY DEF ConstantsAssumption, Inv, TypeOK, LookUpOrder, HandledIdsExist, FilterLabels, Archive, Registry!Archive
<1> QED  BY <1>1, <1>2, <1>3, <1>4 DEF Inv

LEMMA RestartInv ==
  ASSUME ConstantsAssumption, Inv, Restart
  PROVE  Inv'
<1>1. TypeOK'
  BY DEF ConstantsAssumption, Inv, TypeOK, PackageActionTypes, ListTypes, Restart
<1>2. SentIsFound' /\ LookUpOrder'
  BY DEF ConstantsAssumption, Inv, TypeOK, SentIsFound, LookUpOrder, SentOrder, FilterLabels, SendLabels, Restart
<1>3. OwnPackagesOnly' /\ SentOrder'
  BY DEF ConstantsAssumption, Inv, TypeOK, OwnPackagesOnly, SentOrder, FilterLabels, SendLabels, Restart
<1>4. HandledIdsExist'
  BY DEF ConstantsAssumption, Inv, TypeOK, LookUpOrder, HandledIdsExist, FilterLabels, Restart
<1> QED  BY <1>1, <1>2, <1>3, <1>4 DEF Inv

-----------------------------------------------------------------------------
(* The initial state and a step of the server.                             *)

LEMMA InitInv == ASSUME ConstantsAssumption, Init PROVE Inv
<1>1. TypeOK /\ OwnPackagesOnly
  BY DEF ConstantsAssumption, Init, Registry!Init, TypeOK, OwnPackagesOnly
<1>2. SentIsFound /\ HandledIdsExist /\ LookUpOrder
  BY DEF Init, SentIsFound, HandledIdsExist, LookUpOrder, FilterLabels
<1>3. SentOrder
  BY DEF ConstantsAssumption, Init, SentOrder, FilterLabels, SendLabels
<1> QED  BY <1>1, <1>2, <1>3 DEF Inv

LEMMA NextInv == ASSUME ConstantsAssumption, Inv, [Next]_vars PROVE Inv'
<1>1. ASSUME NEW r \in Requests, SendPackage(r) PROVE Inv'
  BY <1>1, StartTransferInv, LookUpInv, LookUpArchiveInv, LoadToAddInv,
     SaveAddedInv, AddFailsInv, StartFailsInv, RefreshNonceFailsInv
     DEF SendPackage
<1>2. ASSUME NEW r \in Requests, Execute(r) PROVE Inv'
  <2>1. CASE GetExistentPackageIds(r)
    BY <2>1, FilterRunningInv, FilterArchiveInv DEF GetExistentPackageIds
  <2>2. CASE HandleAction(r)
    BY <2>2, HandleFailsInv, GetInv, GetArchivedInv, ListInv, StopPackagesInv,
       StopReturnsInv, StopTransferInv DEF HandleAction
  <2> QED
    BY <1>2, <2>1, <2>2, AskInv, LoadIdsInv, SaveIdsInv, ExecuteFailsInv DEF Execute
<1>3. ASSUME UNCHANGED vars PROVE Inv'
  BY <1>3 DEF vars, Inv, TypeOK, SentIsFound, OwnPackagesOnly, HandledIdsExist,
              SentOrder, LookUpOrder
<1> QED  BY <1>1, <1>2, <1>3, ArchiveInv, RestartInv DEF Next

(* Whatever requests do at a time, what is stored, loaded and shown for a  *)
(* user was sent by that user, lookups do not miss a package that moves    *)
(* from one list to the other, and filtered Ids are those of existing      *)
(* packages.                                                               *)
THEOREM Invariance == Spec => []Inv
<1> USE ConstantsAssumption
<1>1. Init => Inv
  BY InitInv
<1>2. Inv /\ [Next]_vars => Inv'
  BY NextInv
<1> QED  BY <1>1, <1>2, PTL DEF Spec

(* Every variable keeps its type.                                          *)
THEOREM TypeCorrectness == Spec => []TypeOK
<1>1. Inv => TypeOK
  BY DEF Inv
<1> QED  BY <1>1, Invariance, PTL

(* A package that has started is found by the request that has started it. *)
THEOREM LookUpSafety == Spec => []SentIsFound
<1>1. Inv => SentIsFound
  BY DEF Inv
<1> QED  BY <1>1, Invariance, PTL

(* A user who is no administrator sees and stops packages of his own only. *)
THEOREM OwnershipSafety == Spec => []OwnPackagesOnly
<1>1. Inv => OwnPackagesOnly
  BY DEF Inv
<1> QED  BY <1>1, Invariance, PTL

(* The actions work on Ids of packages that exist.                         *)
THEOREM FilterSafety == Spec => []HandledIdsExist
<1>1. Inv => HandledIdsExist
  BY DEF Inv
<1> QED  BY <1>1, Invariance, PTL

(* A request to get a package that exists finds it.                        *)
THEOREM GetSafety == Spec => GetFindsExisting
<1>1. ASSUME Inv, Next, NEW r \in Requests, pc[r] = "getArchived",
             pc'[r] = "idle", Exists(package[r])'
      PROVE  package[r] \in shown'[r]
  <2>1. pc = [q \in Requests |-> pc[q]] /\ shown = [q \in Requests |-> shown[q]]
    BY <1>1 DEF Inv, TypeOK
  <2>2. GetArchived(r) \/ Restart
    <3>1. ASSUME NEW q \in Requests, SendPackage(q)
          PROVE  FALSE
      BY <1>1, <2>1, <3>1 DEF SendPackage, StartTransfer, LookUp, LookUpArchive, LoadToAdd,
                             SaveAdded, AddFails, StartFails, RefreshNonceFails, Answer
    <3>2. ASSUME NEW q \in Requests, Execute(q), ~GetArchived(r)
          PROVE  FALSE
      <4>1. CASE HandleAction(q)
        BY <1>1, <2>1, <3>2, <4>1 DEF HandleAction, HandleFails, Get, GetArchived, List,
                 StopPackages, StopReturns, StopTransfer, Handles, Answer
      <4> QED
        BY <1>1, <2>1, <3>2, <4>1 DEF Execute, Ask, LoadIds, GetExistentPackageIds, FilterRunning,
                 FilterArchive, SaveIds, ExecuteFails, Answer
    <3> QED  BY <1>1, <3>1, <3>2 DEF Next, Archive
  <2>3. CASE GetArchived(r)
    BY <1>1, <2>1, <2>3 DEF GetArchived, Answer, Inv, TypeOK, SentOrder, LookUpOrder
  <2>4. CASE Restart
    BY <1>1, <2>4 DEF Restart, Inv, TypeOK, SentOrder
  <2> QED  BY <2>2, <2>3, <2>4
<1>2. ASSUME Inv, [Next]_vars
      PROVE  [\A r \in Requests :
                pc[r] = "getArchived" /\ pc'[r] = "idle" /\ Exists(package[r])' =>
                  package[r] \in shown'[r]]_vars
  BY <1>1, <1>2
<1> QED  BY <1>2, Invariance, PTL DEF Spec, GetFindsExisting

-----------------------------------------------------------------------------
(* Every action keeps SerialInv when no two requests have the same user.   *)

LEMMA StartTransferSerial ==
  ASSUME ConstantsAssumption, Serial, Inv, SerialInv, NEW r \in Requests, NEW p \in Packages, StartTransfer(r, p)
  PROVE  SerialInv'
BY SMTT(30) DEF ConstantsAssumption, Serial, Inv, TypeOK, SentOrder, LookUpOrder, SerialInv, SerialOrder, Remembered, SendLabels, FilterLabels, StartTransfer, Registry!Register

LEMMA StartFailsSerial ==
  ASSUME ConstantsAssumption, Serial, Inv, SerialInv, NEW r \in Requests, StartFails(r)
  PROVE  SerialInv'
BY DEF ConstantsAssumption, Serial, Inv, TypeOK, SentOrder, LookUpOrder, SerialInv, SerialOrder, Remembered, SendLabels, FilterLabels, StartFails, Answer

LEMMA LookUpSerial ==
  ASSUME ConstantsAssumption, Serial, Inv, SerialInv, NEW r \in Requests, LookUp(r)
  PROVE  SerialInv'
BY DEF ConstantsAssumption, Serial, Inv, TypeOK, SentOrder, LookUpOrder, SerialInv, SerialOrder, Remembered, SendLabels, FilterLabels, LookUp

LEMMA LookUpArchiveSerial ==
  ASSUME ConstantsAssumption, Serial, Inv, SerialInv, NEW r \in Requests, LookUpArchive(r)
  PROVE  SerialInv'
BY DEF ConstantsAssumption, Serial, Inv, TypeOK, SentOrder, LookUpOrder, SerialInv, SerialOrder, Remembered, SendLabels, FilterLabels, LookUpArchive

LEMMA RefreshNonceFailsSerial ==
  ASSUME ConstantsAssumption, Serial, Inv, SerialInv, NEW r \in Requests, RefreshNonceFails(r)
  PROVE  SerialInv'
BY DEF ConstantsAssumption, Serial, Inv, TypeOK, SentOrder, LookUpOrder, SerialInv, SerialOrder, Remembered, SendLabels, FilterLabels, RefreshNonceFails, Answer

LEMMA LoadToAddSerial ==
  ASSUME ConstantsAssumption, Serial, Inv, SerialInv, NEW r \in Requests, LoadToAdd(r)
  PROVE  SerialInv'
BY DEF ConstantsAssumption, Serial, Inv, TypeOK, SentOrder, LookUpOrder, SerialInv, SerialOrder, Remembered, SendLabels, FilterLabels, LoadToAdd

LEMMA SaveAddedSerial ==
  ASSUME ConstantsAssumption, Serial, Inv, SerialInv, NEW r \in Requests, SaveAdded(r)
  PROVE  SerialInv'
BY DEF ConstantsAssumption, Serial, Inv, TypeOK, SentOrder, LookUpOrder, SerialInv, SerialOrder, Remembered, SendLabels, FilterLabels, SaveAdded, Save, Answer

LEMMA AddFailsSerial ==
  ASSUME ConstantsAssumption, Serial, Inv, SerialInv, NEW r \in Requests, AddFails(r)
  PROVE  SerialInv'
BY DEF ConstantsAssumption, Serial, Inv, TypeOK, SentOrder, LookUpOrder, SerialInv, SerialOrder, Remembered, SendLabels, FilterLabels, AddFails, Answer

LEMMA AskSerial ==
  ASSUME ConstantsAssumption, Serial, Inv, SerialInv, NEW r \in Requests, NEW type \in PackageActionTypes, NEW p \in Packages \cup {NoPackage}, Ask(r, type, p)
  PROVE  SerialInv'
<1> SUFFICES ASSUME NEW q \in Requests
             PROVE  SerialOrder(q)'
  BY DEF SerialInv
<1>1. UNCHANGED <<phase, sent, recentIds, unrecorded, ids, rest, current>>
  BY DEF Ask
<1>2. CASE q = r
  <2>1. pc[q] = "idle" /\ pc'[q] = "loadIds"
    BY <1>2 DEF Inv, TypeOK, Ask
  <2> QED
    BY <1>1, <2>1 DEF SerialInv, SerialOrder, Remembered, SendLabels
<1>3. CASE q # r
  <2>1. pc'[q] = pc[q] /\ package'[q] = package[q]
    BY <1>3 DEF Inv, TypeOK, Ask
  <2> QED
    BY <1>1, <2>1 DEF SerialInv, SerialOrder, Remembered
<1> QED  BY <1>2, <1>3

LEMMA LoadIdsSerial ==
  ASSUME ConstantsAssumption, Serial, Inv, SerialInv, NEW r \in Requests, LoadIds(r)
  PROVE  SerialInv'
BY SMTT(30) DEF ConstantsAssumption, Serial, Inv, TypeOK, SentOrder, LookUpOrder, SerialInv, SerialOrder, Remembered, SendLabels, FilterLabels, LoadIds

LEMMA FilterRunningSerial ==
  ASSUME ConstantsAssumption, Serial, Inv, SerialInv, NEW r \in Requests, NEW p \in rest[r], FilterRunning(r, p)
  PROVE  SerialInv'
<1> SUFFICES ASSUME NEW q \in Requests
             PROVE  SerialOrder(q)'
  BY DEF SerialInv
<1>1. CASE q = r
  <2>1. CASE phase[p] = "running"
    BY <1>1, <2>1 DEF Inv, TypeOK, SerialInv, SerialOrder, Remembered, FilterRunning
  <2>2. CASE phase[p] # "running"
    BY <1>1, <2>2, SMTT(30) DEF Inv, TypeOK, SerialInv, SerialOrder, Remembered, SendLabels, FilterRunning
  <2> QED  BY <2>1, <2>2
<1>2. CASE q # r
  <2>1. /\ pc'[q] = pc[q] /\ ids'[q] = ids[q]
        /\ rest'[q] = rest[q] /\ current'[q] = current[q]
    BY <1>2 DEF Inv, TypeOK, FilterRunning
  <2>2. UNCHANGED <<phase, sent, recentIds, unrecorded, package>>
    BY DEF FilterRunning
  <2> QED
    BY <2>1, <2>2 DEF SerialInv, SerialOrder, Remembered
<1> QED  BY <1>1, <1>2

LEMMA FilterArchiveSerial ==
  ASSUME ConstantsAssumption, Serial, Inv, SerialInv, NEW r \in Requests, FilterArchive(r)
  PROVE  SerialInv'
BY DEF ConstantsAssumption, Serial, Inv, TypeOK, SentOrder, LookUpOrder, SerialInv, SerialOrder, Remembered, SendLabels, FilterLabels, FilterArchive

LEMMA SaveIdsSerial ==
  ASSUME ConstantsAssumption, Serial, Inv, SerialInv, NEW r \in Requests, SaveIds(r)
  PROVE  SerialInv'
BY DEF ConstantsAssumption, Serial, Inv, TypeOK, SentOrder, LookUpOrder, SerialInv, SerialOrder, Remembered, SendLabels, FilterLabels, SaveIds, Save

LEMMA ExecuteFailsSerial ==
  ASSUME ConstantsAssumption, Serial, Inv, SerialInv, NEW r \in Requests, ExecuteFails(r)
  PROVE  SerialInv'
BY DEF ConstantsAssumption, Serial, Inv, TypeOK, SentOrder, LookUpOrder, SerialInv, SerialOrder, Remembered, SendLabels, FilterLabels, ExecuteFails, Answer

LEMMA HandleFailsSerial ==
  ASSUME ConstantsAssumption, Serial, Inv, SerialInv, NEW r \in Requests, HandleFails(r)
  PROVE  SerialInv'
BY DEF ConstantsAssumption, Serial, Inv, TypeOK, SentOrder, LookUpOrder, SerialInv, SerialOrder, Remembered, SendLabels, FilterLabels, HandleFails, Answer

LEMMA GetSerial ==
  ASSUME ConstantsAssumption, Serial, Inv, SerialInv, NEW r \in Requests, Get(r)
  PROVE  SerialInv'
BY DEF ConstantsAssumption, Serial, Inv, TypeOK, SentOrder, LookUpOrder, SerialInv, SerialOrder, Remembered, SendLabels, FilterLabels, Get, Handles, Answer

LEMMA GetArchivedSerial ==
  ASSUME ConstantsAssumption, Serial, Inv, SerialInv, NEW r \in Requests, GetArchived(r)
  PROVE  SerialInv'
BY DEF ConstantsAssumption, Serial, Inv, TypeOK, SentOrder, LookUpOrder, SerialInv, SerialOrder, Remembered, SendLabels, FilterLabels, GetArchived, Answer

LEMMA ListSerial ==
  ASSUME ConstantsAssumption, Serial, Inv, SerialInv, NEW r \in Requests, List(r)
  PROVE  SerialInv'
BY DEF ConstantsAssumption, Serial, Inv, TypeOK, SentOrder, LookUpOrder, SerialInv, SerialOrder, Remembered, SendLabels, FilterLabels, List, Handles, Answer

LEMMA StopPackagesSerial ==
  ASSUME ConstantsAssumption, Serial, Inv, SerialInv, NEW r \in Requests, StopPackages(r)
  PROVE  SerialInv'
BY DEF ConstantsAssumption, Serial, Inv, TypeOK, SentOrder, LookUpOrder, SerialInv, SerialOrder, Remembered, SendLabels, FilterLabels, StopPackages, Handles

LEMMA StopTransferSerial ==
  ASSUME ConstantsAssumption, Serial, Inv, SerialInv, NEW r \in Requests, NEW p \in rest[r], StopTransfer(r, p)
  PROVE  SerialInv'
BY DEF ConstantsAssumption, Serial, Inv, TypeOK, SentOrder, LookUpOrder, SerialInv, SerialOrder, Remembered, SendLabels, FilterLabels, StopTransfer, Registry!Archive

LEMMA StopReturnsSerial ==
  ASSUME ConstantsAssumption, Serial, Inv, SerialInv, NEW r \in Requests, StopReturns(r)
  PROVE  SerialInv'
BY DEF Inv, TypeOK, SerialInv, SerialOrder, Remembered, SendLabels, StopReturns, Answer

LEMMA ArchiveSerial ==
  ASSUME ConstantsAssumption, Serial, Inv, SerialInv, NEW p \in Packages, Archive(p)
  PROVE  SerialInv'
BY DEF ConstantsAssumption, Serial, Inv, TypeOK, SentOrder, LookUpOrder, SerialInv, SerialOrder, Remembered, SendLabels, FilterLabels, Archive, Registry!Archive

LEMMA RestartSerial ==
  ASSUME ConstantsAssumption, Serial, Inv, SerialInv, Restart
  PROVE  SerialInv'
BY DEF ConstantsAssumption, Serial, Inv, TypeOK, SentOrder, LookUpOrder, SerialInv, SerialOrder, Remembered, SendLabels, FilterLabels, Restart

LEMMA NextSerial ==
  ASSUME ConstantsAssumption, Serial, Inv, SerialInv, [Next]_vars
  PROVE  SerialInv'
<1>1. ASSUME NEW r \in Requests, SendPackage(r) PROVE SerialInv'
  BY <1>1, StartTransferSerial, LookUpSerial, LookUpArchiveSerial, LoadToAddSerial,
     SaveAddedSerial, AddFailsSerial, StartFailsSerial, RefreshNonceFailsSerial
     DEF SendPackage
<1>2. ASSUME NEW r \in Requests, Execute(r) PROVE SerialInv'
  <2>1. CASE GetExistentPackageIds(r)
    BY <2>1, FilterRunningSerial, FilterArchiveSerial DEF GetExistentPackageIds
  <2>2. CASE HandleAction(r)
    BY <2>2, HandleFailsSerial, GetSerial, GetArchivedSerial, ListSerial, StopPackagesSerial,
       StopReturnsSerial, StopTransferSerial DEF HandleAction
  <2> QED
    BY <1>2, <2>1, <2>2, AskSerial, LoadIdsSerial, SaveIdsSerial, ExecuteFailsSerial DEF Execute
<1>3. ASSUME UNCHANGED vars PROVE SerialInv'
  BY <1>3 DEF vars, SerialInv, SerialOrder, Remembered
<1> QED  BY <1>1, <1>2, <1>3, ArchiveSerial, RestartSerial DEF Next

(* When no two requests have the same user at a time, the stored Ids are   *)
(* the existing packages of the user, up to the one that is being added    *)
(* and those whose requests have failed after the start.                   *)
THEOREM SerialInvariance == ASSUME Serial PROVE Spec => []SerialInv
<1> USE ConstantsAssumption, Serial
<1>1. Init => Inv /\ SerialInv
  BY InitInv DEF ConstantsAssumption, Init, SerialInv, SerialOrder, Remembered, SendLabels
<1>2. Inv /\ SerialInv /\ [Next]_vars => Inv' /\ SerialInv'
  BY NextInv, NextSerial
<1> QED  BY <1>1, <1>2, PTL DEF Spec

(* A user whose requests come one after the other is never denied a        *)
(* package that was sent and still exists, unless the request that sent it *)
(* has failed or could not store its Id.                                   *)
THEOREM SerialSafety == ASSUME Serial PROVE Spec => []OwnPackageIsValid
<1> USE ConstantsAssumption, Serial
<1>1. Inv /\ SerialInv => OwnPackageIsValid
  BY DEF SerialInv, SerialOrder, Remembered, OwnPackageIsValid, IsValid, IsMyPackage, SendLabels
<1>2. Spec => []SerialInv
  BY SerialInvariance
<1> QED  BY <1>1, <1>2, Invariance, PTL

(* A user whose requests come one after the other is shown every package   *)
(* that is remembered: no list loses one between loading and answering.    *)
THEOREM ListSafety == ASSUME Serial PROVE Spec => ListIsComplete
<1> USE ConstantsAssumption, Serial
<1>1. ASSUME Inv, SerialInv, Next, NEW r \in Requests, pc[r] = "handle",
             pc'[r] = "idle", action[r] \in {"list", "listRecent"},
             NEW p \in Remembered(r)',
             phase'[p] = (IF action[r] = "list" THEN "running" ELSE "archived")
      PROVE  p \in shown'[r]
  <2>1. pc = [q \in Requests |-> pc[q]] /\ shown = [q \in Requests |-> shown[q]]
    BY <1>1 DEF Inv, TypeOK
  <2>2. List(r) \/ Restart
    <3>1. ASSUME NEW q \in Requests, SendPackage(q)
          PROVE  FALSE
      BY <1>1, <2>1, <3>1 DEF SendPackage, StartTransfer, LookUp, LookUpArchive, LoadToAdd,
                             SaveAdded, AddFails, StartFails, RefreshNonceFails, Answer
    <3>2. ASSUME NEW q \in Requests, Execute(q), ~List(r)
          PROVE  FALSE
      <4>1. CASE HandleAction(q)
        BY <1>1, <2>1, <3>2, <4>1 DEF HandleAction, HandleFails, Get, GetArchived, List,
                 StopPackages, StopReturns, StopTransfer, Handles, IsValid, Answer
      <4> QED
        BY <1>1, <2>1, <3>2, <4>1 DEF Execute, Ask, LoadIds, GetExistentPackageIds, FilterRunning,
                 FilterArchive, SaveIds, ExecuteFails, Answer
    <3> QED  BY <1>1, <3>1, <3>2 DEF Next, Archive
  <2>3. CASE List(r)
    <3>1. p \in Remembered(r) /\ p \in Packages /\ phase'[p] = phase[p]
      BY <1>1, <2>3 DEF List, Remembered, ConstantsAssumption, Inv, TypeOK
    <3>2. p \in ids[r]
      BY <1>1, <3>1 DEF SerialInv, SerialOrder, SendLabels
    <3> QED  BY <1>1, <2>1, <2>3, <3>1, <3>2 DEF List, Answer, ListTypes
  <2>4. CASE Restart
    BY <1>1, <2>4 DEF Restart, Remembered, ConstantsAssumption, Inv, TypeOK
  <2> QED  BY <2>2, <2>3, <2>4
<1>2. ASSUME Inv, SerialInv, [Next]_vars
      PROVE  [\A r \in Requests :
                pc[r] = "handle" /\ pc'[r] = "idle" /\ action[r] \in {"list", "listRecent"} =>
                  \A p \in Remembered(r)' :
                    phase'[p] = (IF action[r] = "list" THEN "running" ELSE "archived") =>
                      p \in shown'[r]]_vars
  BY <1>1, <1>2
<1>3. Spec => []SerialInv
  BY SerialInvariance
<1> QED  BY <1>2, <1>3, Invariance, PTL DEF Spec, ListIsComplete
=============================================================================
