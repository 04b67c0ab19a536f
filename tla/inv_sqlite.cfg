SPECIFICATION StartSpec
CONSTANTS
    p1 = p1
    p2 = p2
    m1 = m1
    m2 = m2
    rice = rice
    NoRow = NoRow
    NoName = NoName
    NoId = NoId
    Driver = "sqlite"
    Procs <- TwoProcs
    MatIds <- TwoMats
    Names <- OneName
    MaxLots = 3
    Quantities <- NonZeroQuantities
    Dues = {1, 2}
    Ops = {"batch_inbound", "consume", "adjust", "void"}
    MaxRequests = 3
SYMMETRY Sym
INVARIANTS
    TypeOK
    LedgerBalanced
    StatusMatchesQuantity
    ConsumeExact
    NaturalKeyUnique
PROPERTIES
    ImplementsLedger
