SPECIFICATION Spec
CONSTANTS
    c1 = c1  c2 = c2  c3 = c3  r1 = r1  r2 = r2  A = A  B = B  ip = ip
    None = None
    Conns = {c1, c2, c3}
    Calls = {r1, r2}
    IDs = {A, B}
    IPs = {ip}
    IDOf <- TwoIDs
    IPOf <- OneIP
    MaxPending = 1
    MaxConnsPerIP = 2
    NetStates = {"up"}
    Ticking = {}
INVARIANTS
    RegisteredIsAttached
    NoStrandedCaller
    PendingIsOwn
    SlotsExact
    AnswersAreTrue
    CleanExit
    TeardownsComplete
    CommandsRunOnce
    IInv
PROPERTIES
    NoResultLost
    RefinesService
SYMMETRY BothSymmetries
CHECK_DEADLOCK FALSE
