SPECIFICATION FairEngine
CONSTANTS
    q1 = q1
    q2 = q2
    m1 = m1
    m2 = m2
    s1 = s1
    s2 = s2
    Callers = {q1, q2}
    Models = {m1, m2}
    Servers = {s1, s2}
    NoServer = NoServer
    NoCaller = NoCaller
    NoModel = NoModel
    Shutdown = TRUE
    j1 = j1
    j2 = j2
    w1 = w1
    c1 = c1
    Jobs = {j1, j2}
    Workspaces = {w1}
    Clients = {c1}
    NoJob = NoJob
    NoClient = NoClient
    NoWorkspace = NoWorkspace
    Slots = 1
    MaxJobs = 2
    MaxRestarts = 0
    StoreFaults = FALSE
INVARIANTS RuntimeInv OneServer
PROPERTIES ImplementsModelSlot OperationsEnd CancelledEnds ShutdownEnds
CHECK_DEADLOCK FALSE
