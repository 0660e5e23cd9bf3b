SPECIFICATION LocalRuntimeSpec
CONSTANTS
    q1 = q1
    q2 = q2
    m1 = m1
    s1 = s1
    s2 = s2
    s3 = s3
    Callers = {q1, q2}
    Models = {m1}
    Servers = {s1, s2, s3}
    NoServer = NoServer
    NoCaller = NoCaller
    NoModel = NoModel
    Shutdown = TRUE
SYMMETRY Symmetry
INVARIANTS OneAlways
CHECK_DEADLOCK FALSE
