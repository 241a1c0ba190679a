SPECIFICATION Spec
CONSTANTS
    Clients = {k1}
    Verifiers = {v1}
    Addresses = {p1, p2}
    TrustedProxies = {p1, p2}
    Exchanges = {x1, x2}
    Limit = 1
    Window = 1
    Threshold = 1
    CleanEvery = 0
    CodeTTL = 1
    AccessTTL = 1
    RefreshTTL = 2
    MaxNow = 3
    MaxSecret = 2
    MaxCodes = 2
    MaxCount = 2
    None = None
    Posts = {h1}
    TimeoutsMs <- AllTimeouts
    DefaultMs = 3
    MaxMs = 3
    NsPerMs = 2
    HalfRange = 9
INVARIANTS ConsentBehindEveryCall Grounded
PROPERTIES SingleUse RefinesWindows
SYMMETRY Alike
CHECK_DEADLOCK FALSE
