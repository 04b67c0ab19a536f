SPECIFICATION StockedSpec
CONSTANTS
    p1 = p1
    p2 = p2
    m1 = m1
    m2 = m2
    rice = rice
    NoRow = NoRow
    NoName = NoName
    NoId = NoId
    Driver = "sqlite"
    Procs <- TwoProcs
    MatIds <- OneMat
    Names <- OneName
    MaxLots = 3
    Quantities = {1, 3}
    Dues = {1, 2}
    Ops = {"consume", "update"}
    MaxRequests = 2
PROPERTIES
    InfoUpdateKeepsQuantity
