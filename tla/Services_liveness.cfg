SPECIFICATION FairServices
CONSTANTS
    r1 = r1
    r2 = r2
    txt = txt
    o1 = o1
    k1 = k1
    u1 = u1
    stopper = stopper
    reaper = reaper
    ls1 = ls1
    ls2 = ls2
    t1 = t1
    s1 = s1
    a1 = a1
    ar1 = ar1
    g1 = g1
    gr1 = gr1
    gs1 = gs1
    c1 = c1
    c2 = c2
    p1 = p1
    n1 = n1
    w1 = w1
    FocusedOn = {"approvals", "automations", "goals", "children", "compare", "background", "owners", "servers", "steering"}
    Requests = {r1, r2}
    Texts = {txt}
    Files = {}
    NoText = NoText
    Absent = Absent
    OwnJobs = {o1}
    MaxOwned = 2
    OwnFaults = TRUE
    LspKeys = {k1}
    LspTools = {u1}
    LspStoppers = {stopper}
    Reaper = reaper
    LspServers = {ls1, ls2}
    NoLsp = NoLsp
    MaxServers = 1
    LspHangs = TRUE
    Tasks = {t1}
    Vendors = {}
    Scopes = {s1}
    NoScope = NoScope
    MaxAsks = 1
    StoreFaults = TRUE
    AutomationIds = {a1}
    AutomationRuns = {ar1}
    NoRun = NoRun
    NoTime = NoTime
    Periods = {1}
    CatchUp = 0
    MaxTime = 1
    MaxAutomationRestarts = 1
    AutomationFaults = TRUE
    GoalIds = {g1}
    GoalRuns = {gr1}
    NoGoalRun = NoGoalRun
    Steps = 1
    GoalStoppers = {gs1}
    MaxGoalEdits = 1
    MaxGoalRestarts = 0
    GoalFaults = TRUE
    Calls = {c1, c2}
    Writers = {c1}
    MaxParallel = 1
    MaxPerTask = 2
    ChildFaults = TRUE
    LaneCount = 2
    MaxTurns = 2
    MaxOps = 2
    MaxOtherSaves = 0
    CompareFaults = TRUE
    MaxTaskTurns = 2
    MaxTaskCrashes = 1
    TaskFaults = TRUE
    Procs = {p1}
    ProcNames = {n1}
    ProcPlaces = {w1}
    MaxProcs = 2
    MaxPerPlace = 2
    MaxProcCrashes = 1
    ProcFaults = TRUE
PROPERTIES PromptsEnd PausesEnd StopsAreHeard CompareOpsEnd
CHECK_DEADLOCK FALSE
