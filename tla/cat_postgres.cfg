CONSTANTS
    Procs = {p1, p2}
    MaxCats = 2
    MatIds = {m1}
    Names = {dflt, a}
    DefaultName = dflt
    Ops = {"create", "rename", "delete", "file"}
    Driver = "postgres"
    MaxRequests = 3
    MaxCrashes = 1
    NoName = NoName
    NoCat = NoCat
    NoMat = NoMat
    Same = Same
    Gone = Gone
SPECIFICATION FairSpec
INVARIANTS CategoryNamesUnique ReferencesExist
PROPERTIES EveryRequestEnds
