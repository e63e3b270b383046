SPECIFICATION Spec
CONSTANTS
    Spinners = {"maxNumberOfRequests", "maxNumberOfItems"}
    HiddenOptions = {"archiveDurationMinutes"}
    Values = {1, 2}
    Default = 2
    Invalid = Invalid
    Absent = Absent
    Packages = {p1, p2}
    Mine = {p1}
    Requests = {q1, q2}
    NoPackage = NoPackage
    UnknownId = UnknownId
CHECK_DEADLOCK FALSE
SYMMETRY Symmetry
INVARIANTS StringIsCurrent SavedIsValid NumberMeansListed ToldStoppedWasStopped
PROPERTY UneditedIsKept
