CONSTANTS
    Procs = {p1, p2}
    MaxCats = 2
    MatIds = {m1}
    Names = {dflt, a}
    DefaultName = dflt
    Ops = {"create", "rename", "delete", "file"}
    Driver = "sqlite"
    MaxRequests = 4
    MaxCrashes = 1
    NoName = NoName
    NoCat = NoCat
    NoMat = NoMat
    Same = Same
    Gone = Gone
SPECIFICATION Spec
SYMMETRY Sym
INVARIANTS TypeOK
PROPERTIES ImplementsBook
