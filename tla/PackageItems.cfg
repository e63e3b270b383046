SPECIFICATION Spec
CONSTANTS
    d = d
    e = e
    g = g
    p8 = p8
    cm = cm
    Documents = {d, e, g}
    Repository <- MCRepository
    FileName <- MCFileName
    Numbered <- MCNumbered
    Maxima = {0, 1, 3, 5}
    IntegerMax = 4
    DefaultMax = 2
    MaxSelected = 3
    Absent = Absent
    NotRead = NotRead
CHECK_DEADLOCK FALSE
INVARIANTS NamesAreUnique
PROPERTY NothingIsCutOff
