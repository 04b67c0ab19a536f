CONSTANTS
    Procs = {p1, p2}
    MaxCats = 1
    MatIds = {m1}
    Names = {dflt, a}
    DefaultName = dflt
    Ops = {"delete", "create"}
    Driver = "sqlite"
    MaxRequests = 2
    MaxCrashes = 1
    NoName = NoName
    NoCat = NoCat
    NoMat = NoMat
    Same = Same
    Gone = Gone
SPECIFICATION Spec
INVARIANTS SeedNeverRefused
