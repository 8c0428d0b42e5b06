SPECIFICATION Spec
CONSTANTS
    Tasks = {t1, t2}
    Workers = {w1, w2, w3}
    Procs = {p1, p2}
    ReviewTasks = {}
    MaxConcurrentWorkers = 1
    MaxConcurrentSessions = 3
    Requests = {"claim", "edit"}
    NoTask = NoTask
    NoWorker = NoWorker
INVARIANTS CapOvershoot
SYMMETRY Symmetry
CHECK_DEADLOCK FALSE
