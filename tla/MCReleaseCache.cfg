SPECIFICATION FairSpec
CONSTANTS
    a1 = a1  a2 = a2  a3 = a3  b3 = b3  agentApk = agentApk
    None = None
    Apks = {a1, a2, a3, b3}
    VersionOf <- Version
    CodeOf <- Code
    Offers <- Faulty
    Legacy = agentApk
    LegacyApk = a1
    Previews <- Both
    Withdrawals = TRUE
    Faults = {"net", "read", "write", "rename", "remove"}
    MaxMishaps = 4
INVARIANTS
    PointersResolve
    ServedFilesExist
    ServesWhatItSays
PROPERTIES
    LastGoodKept
    VersionsClimb
    MisbuiltChangesNothing
    RefinesAtomicCache
    Converges
