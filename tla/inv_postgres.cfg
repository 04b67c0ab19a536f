SPECIFICATION StockedFairSpec
CONSTANTS
    p1 = p1
    p2 = p2
    m1 = m1
    m2 = m2
    rice = rice
    NoRow = NoRow
    NoName = NoName
    NoId = NoId
    Driver = "postgres"
    Procs <- TwoProcs
    MatIds <- OneMat
    Names <- OneName
    MaxLots = 3
    Quantities <- AnyQuantities
    Dues = {1, 2}
    Ops = {"inbound", "batch_consume", "adjust", "void", "update"}
    MaxRequests = 3
INVARIANTS
    StatusMatchesQuantity
    ConsumeExact
    NonNegativeOnHand
PROPERTIES
    EveryRequestEnds
