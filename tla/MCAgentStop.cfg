SPECIFICATION Spec
CONSTANTS
    m1 = m1  m2 = m2  s1 = s1  s2 = s2  s3 = s3  s4 = s4
    None = None
    Managers = {m1}
    Sockets = {s1, s2, s3}
    Configured = {TRUE, FALSE}
    Preempted = TRUE
    MaxMishaps = 2
SYMMETRY SocketSymmetry
INVARIANTS
    RetriesPaidFor
PROPERTIES
    StoppedOpensNothing
CHECK_DEADLOCK FALSE
