SPECIFICATION Spec
CONSTANTS
    doc = doc
    other = other
    folder = folder
    Items <- MCItems
    Exportable <- MCExportable
    WithContent <- MCWithContent
    Selections <- MCSelections
    SenderFields = {"sender", "password"}
    PackageFields = {"title", "note"}
    RequiredFields = {"sender", "password", "title"}
    MaxNumberOfItems = 2
    Actions = {a1, a2}
    Requests = {r1, r2}
    Locales <- MCLocales
    None = None
CHECK_DEADLOCK FALSE
SYMMETRY Symmetry
INVARIANTS ClosedIsEmpty TitlesAreCurrent StartedIsFollowed TextsAreTranslated
PROPERTIES PostedIsComplete PostedAsShown
