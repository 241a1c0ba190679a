SPECIFICATION FairSpec
CONSTANTS
    m1 = m1  m2 = m2  s1 = s1  s2 = s2  s3 = s3  s4 = s4
    None = None
    Managers = {m1, m2}
    Sockets = {s1, s2, s3, s4}
    Configured = {TRUE}
    Preempted = FALSE
    MaxMishaps = 1
INVARIANTS
    StatusIsTrue
    StraysPaidFor
PROPERTIES
    Reconnects
CHECK_DEADLOCK FALSE
