SPECIFICATION Spec
CONSTANTS
    j1 = j1
    j2 = j2
    w1 = w1
    c1 = c1
    c2 = c2
    Jobs = {j1, j2}
    Workspaces = {w1}
    Clients = {c1, c2}
    NoJob = NoJob
    NoClient = NoClient
    NoWorkspace = NoWorkspace
    Slots = 1
    MaxJobs = 2
    MaxRestarts = 0
    StoreFaults = FALSE
SYMMETRY Symmetry
PROPERTIES WaitersSeeRemoval
CHECK_DEADLOCK FALSE
