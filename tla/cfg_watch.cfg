SPECIFICATION FairSpec
CONSTANTS
    Savers = {s1, s2}
    Reloaders = {r1}
    keys = keys
    endpoints = endpoints
    days = days
    Zero = Zero
    new = new
    env = env
    Fields <- Settings
    Saved <- SavedByHandlers
    Omitempty <- Settings
    Values = {Zero, new}
    Default <- DefaultConfig
    Env <- Environment
    EnvValues = {env}
    Edits <- ByHand
    FirstFiles <- NoFile
    HotReload = TRUE
    EarlyChanges = FALSE
    MaxSaves = 2
    MaxReloads = 1
    MaxEdits = 1
    MaxCrashes = 1
    NoEnv = NoEnv
    NoCfg = NoCfg
    Nobody = Nobody
    Torn = Torn
    Absent = Absent
INVARIANTS
    TypeOK
    SavesAreKept
    EnvironmentStaysOut
PROPERTIES
    ChangesAreApplied
