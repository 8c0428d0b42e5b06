SPECIFICATION LiveSpec
CONSTANTS
    Starts <- MCStarts
    MaxPlan = 2
    MaxJobs = 2
    MaxCycles = 2
    MaxRetries = 2
    PauseAfter = 2
    Clients <- MCClients
INVARIANTS TypeOK RetriesBounded NoOrphanWork
PROPERTY ScheduleSettles
CHECK_DEADLOCK FALSE
