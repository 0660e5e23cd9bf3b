SPECIFICATION CheckpointsSpec
CONSTANTS
    file1 = file1
    t1 = t1
    u1 = u1
    written = written
    edit1 = edit1
    CpFiles = {file1}
    CpTasks = {t1}
    CpUndos = {u1}
    Written = {written}
    UserTexts = {edit1}
    Missing = Missing
    Original = Original
    NoChange = NoChange
    NoCpTask = NoCpTask
    NoUndo = NoUndo
    NoContent = NoContent
    MaxCalls = 2
    MaxBreaks = 0
PROPERTIES RewindRefuses
CHECK_DEADLOCK FALSE
