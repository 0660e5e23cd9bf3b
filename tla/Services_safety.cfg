SPECIFICATION ServicesSpec
CONSTANTS
    r1 = r1
    txt = txt
    f1 = f1
    o1 = o1
    o2 = o2
    k1 = k1
    k2 = k2
    u1 = u1
    u2 = u2
    reaper = reaper
    ls1 = ls1
    ls2 = ls2
    t1 = t1
    s1 = s1
    s2 = s2
    a1 = a1
    ar1 = ar1
    ar2 = ar2
    g1 = g1
    gr1 = gr1
    gr2 = gr2
    gs1 = gs1
    c1 = c1
    c2 = c2
    c3 = c3
    p1 = p1
    p2 = p2
    n1 = n1
    w1 = w1
    FocusedOn = {"approvals", "automations", "goals", "children", "compare", "worktrees", "background", "owners", "servers"}
    Requests = {r1}
    Texts = {txt}
    Files = {f1}
    NoText = NoText
    Absent = Absent
    OwnJobs = {o1, o2}
    MaxOwned = 2
    OwnFaults = TRUE
    LspKeys = {k1, k2}
    LspTools = {u1, u2}
    LspStoppers = {}
    Reaper = reaper
    LspServers = {ls1, ls2}
    NoLsp = NoLsp
    MaxServers = 1
    LspHangs = FALSE
    Tasks = {t1}
    Vendors = {}
    Scopes = {s1, s2}
    NoScope = NoScope
    MaxAsks = 2
    StoreFaults = TRUE
    AutomationIds = {a1}
    AutomationRuns = {ar1, ar2}
    NoRun = NoRun
    NoTime = NoTime
    Periods = {1}
    CatchUp = 0
    MaxTime = 2
    MaxAutomationRestarts = 1
    AutomationFaults = FALSE
    GoalIds = {g1}
    GoalRuns = {gr1, gr2}
    NoGoalRun = NoGoalRun
    Steps = 2
    GoalStoppers = {gs1}
    MaxGoalEdits = 0
    MaxGoalRestarts = 1
    GoalFaults = TRUE
    Calls = {c1, c2, c3}
    Writers = {c1}
    MaxParallel = 1
    MaxPerTask = 2
    ChildFaults = TRUE
    LaneCount = 2
    MaxTurns = 1
    MaxOps = 4
    MaxOtherSaves = 1
    CompareFaults = TRUE
    MaxTaskTurns = 2
    MaxTaskCrashes = 1
    TaskFaults = TRUE
    Procs = {p1, p2}
    ProcNames = {n1}
    ProcPlaces = {w1}
    MaxProcs = 2
    MaxPerPlace = 2
    MaxProcCrashes = 1
    ProcFaults = TRUE
SYMMETRY RunSymmetry
INVARIANTS RunsWithConsent AnsweredOnce PromptsAreHeard EndsWithTask TimesFireOnce RunsAgree GoalsAgree ChildrenAgree ComparisonsAgree TreesAgree BackgroundAgrees OwnedAgree ServersAgree
PROPERTIES DoneIsEarned EndsAreKept
CHECK_DEADLOCK FALSE
