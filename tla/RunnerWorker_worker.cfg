SPECIFICATION LiveSpec
CONSTANTS
    Backends = {TRUE}
    MaxSessions = 3
    MaxFaults = 1
INVARIANTS TypeOK NotForgotten
PROPERTIES NoZombie Reconciled
CHECK_DEADLOCK FALSE
