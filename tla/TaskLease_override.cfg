SPECIFICATION Spec
CONSTANTS
    Tasks = {t1}
    Workers = {w1, w2}
    Procs = {p1, p2}
    ReviewTasks = {t1}
    MaxConcurrentWorkers = 2
    MaxConcurrentSessions = 2
    Requests = {"claim", "report", "interrupt", "reassign", "recover"}
    NoTask = NoTask
    NoWorker = NoWorker
INVARIANTS OneOutcome
PROPERTY KeepsLease
SYMMETRY Symmetry
CHECK_DEADLOCK FALSE
