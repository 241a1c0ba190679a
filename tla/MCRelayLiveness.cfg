SPECIFICATION TimerlessSpec
CONSTANTS
    c1 = c1  c2 = c2  c3 = c3  r1 = r1  r2 = r2  A = A  B = B  ip = ip
    None = None
    Conns = {c1, c2}
    Calls = {r1}
    IDs = {A}
    IPs = {ip}
    IDOf <- OneID
    IPOf <- OneIP
    MaxPending = 1
    MaxConnsPerIP = 2
    NetStates = {"up", "stalled"}
    Ticking = {c1}
PROPERTIES
    ReplacedIsReleased
    TornDownCallReturns
    BoundedExec
    BoundedStale
CHECK_DEADLOCK FALSE
