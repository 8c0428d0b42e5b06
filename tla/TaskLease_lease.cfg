SPECIFICATION Spec
CONSTANTS
    Tasks = {t1}
    Workers = {w1, w2}
    Procs = {p1, p2}
    ReviewTasks = {}
    MaxConcurrentWorkers = 2
    MaxConcurrentSessions = 2
    Requests = {"claim", "report", "edit", "waiting"}
    NoTask = NoTask
    NoWorker = NoWorker
INVARIANTS TypeOK GrantedIsTerminal OneOutcome OneLease SeatsReturned
SYMMETRY Symmetry
CHECK_DEADLOCK FALSE
