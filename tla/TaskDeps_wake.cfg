SPECIFICATION LiveSpec
CONSTANTS
    a = a
    b = b
    c = c
    Tasks = {a, b, c}
    Graphs <- MCGraphs
    Looped = {a}
    WithPr = {a}
    MaxPrs = 1
    Edited = {b}
    MaxEdits = 1
    Procs = {p1, p2}
INVARIANTS TypeOK NoLostWakeUp NoStranded
PROPERTY ResolutionsEnd
CHECK_DEADLOCK FALSE
