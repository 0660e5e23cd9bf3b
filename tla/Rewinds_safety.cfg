SPECIFICATION RewindsSpec
CONSTANTS
    r1 = r1
    r2 = r2
    txt1 = txt1
    txt2 = txt2
    f1 = f1
    file1 = file1
    file2 = file2
    t1 = t1
    u1 = u1
    written = written
    edit1 = edit1
    Requests = {r1, r2}
    Texts = {txt1, txt2}
    Files = {f1}
    NoText = NoText
    Absent = Absent
    CpFiles = {file1, file2}
    CpTasks = {t1}
    CpUndos = {u1}
    Written = {written}
    UserTexts = {edit1}
    Missing = Missing
    Original = Original
    NoChange = NoChange
    NoCpTask = NoCpTask
    NoUndo = NoUndo
    NoContent = NoContent
    MaxCalls = 2
    MaxBreaks = 1
SYMMETRY RewindSymmetry
INVARIANTS ParkingAgrees CheckpointsAgree
PROPERTIES ChangesReported InstructionsKept EditsSurvive
CHECK_DEADLOCK FALSE
