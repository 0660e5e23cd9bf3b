SPECIFICATION FairLanguageServers
CONSTANTS
    k1 = k1
    u1 = u1
    stopper = stopper
    reaper = reaper
    ls1 = ls1
    LspKeys = {k1}
    LspTools = {u1}
    LspStoppers = {stopper}
    Reaper = reaper
    LspServers = {ls1}
    NoLsp = NoLsp
    MaxServers = 1
    LspHangs = TRUE
PROPERTIES ShutdownMakesSure
CHECK_DEADLOCK FALSE
