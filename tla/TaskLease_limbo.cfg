SPECIFICATION LiveSpec
CONSTANTS
    Tasks = {t1}
    Workers = {w1}
    Procs = {p1, p2}
    ReviewTasks = {}
    MaxConcurrentWorkers = 2
    MaxConcurrentSessions = 2
    Requests = {"claim", "report", "sweep", "orphans", "stalled", "offline", "cron", "crash"}
    NoTask = NoTask
    NoWorker = NoWorker
PROPERTY NoLimbo
CHECK_DEADLOCK FALSE
