SPECIFICATION FairSpec
CONSTANTS
    c1 = c1  c2 = c2  c3 = c3  r1 = r1  r2 = r2  A = A  B = B  ip = ip
    None = None
    Conns = {c1}
    Calls = {r1}
    IDs = {A}
    IPs = {ip}
    IDOf <- OneID
    IPOf <- OneIP
    MaxPending = 1
    MaxConnsPerIP = 1
    NetStates = {"up", "stalled", "reset"}
    Ticking = {c1}
PROPERTIES
    ExecReturns
CHECK_DEADLOCK FALSE
