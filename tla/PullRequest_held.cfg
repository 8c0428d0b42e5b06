SPECIFICATION Spec
CONSTANTS
    Starts <- MCHeld
    Conclusions = {"success", "failure"}
    Faults = {}
    MaxIterations = 1
    MaxConflictIterations = 1
    MaxHeads = 2
    MaxTasks = 3
INVARIANTS HeldForPeople
CHECK_DEADLOCK FALSE
