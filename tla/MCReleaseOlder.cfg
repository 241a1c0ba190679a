SPECIFICATION Spec
CONSTANTS
    a1 = a1  a2 = a2  a3 = a3  b3 = b3  agentApk = agentApk
    None = None
    Apks = {a1, a2, a3}
    VersionOf <- Version
    CodeOf <- CodeAstray
    Offers <- Channel
    Legacy = agentApk
    LegacyApk = None
    Previews <- StableOnly
    Withdrawals = FALSE
    Faults = {"rename"}
    MaxMishaps = 2
PROPERTIES
    ReplacementsClimb
