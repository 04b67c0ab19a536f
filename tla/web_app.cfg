SPECIFICATION FairSpec
CONSTANTS
    Tabs = {here, there}
    Here = here
    MaxCalls = 2
    NoToken = NoToken
    NoTab = NoTab
    None = None
    Words = {w}
    NoWord = NoWord
    Mats <- ThreeMats
    Cats = {"food"}
    CatOf <- MCCatOf
    Places = {"shelf"}
    All = All
    Matches <- MCMatches
    Shelves <- MCShelves
    PageSize = 2
    MoveKinds <- MCMoves
    KindChoices <- MCKinds
    AllKinds <- AnyKind
    Found <- MCFound
    DateChoices = {0, 2}
    LogLimit = 1
    Names = {n1, n2}
    New = New
    Items = {x1, x2}
    n1 = n1
    x1 = x1
    Starts <- MCStarts
INVARIANTS
    WebTypeOK
    QuietViewIsCurrent
    TableInRange
    OneSubmissionAtATime
    FieldsForTheirRow
    StatsAddUp
PROPERTIES
    SignedOutTokenUnused
    ShutOutTabsFindOut
    FiltersAreAnswered
    ShoppingListSurvives
    BusyEnds
CHECK_DEADLOCK FALSE
