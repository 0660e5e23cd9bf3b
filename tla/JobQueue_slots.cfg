SPECIFICATION FairSpec
CONSTANTS
    j1 = j1
    j2 = j2
    w1 = w1
    w2 = w2
    c1 = c1
    Jobs = {j1, j2}
    Workspaces = {w1, w2}
    Clients = {c1}
    NoJob = NoJob
    NoClient = NoClient
    NoWorkspace = NoWorkspace
    Slots = 1
    MaxJobs = 2
    MaxRestarts = 0
    StoreFaults = TRUE
INVARIANTS IInv
PROPERTIES QueuedEnds
ACTION_CONSTRAINT NoShutdown
CHECK_DEADLOCK FALSE
