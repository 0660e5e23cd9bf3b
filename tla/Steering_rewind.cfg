SPECIFICATION Spec
CONSTANTS
    r1 = r1
    t1 = t1
    f1 = f1
    Requests = {r1}
    Texts = {t1}
    Files = {f1}
    NoText = NoText
    Absent = Absent
SYMMETRY Symmetry
PROPERTIES RewindNoticed
CHECK_DEADLOCK FALSE
