SPECIFICATION LiveSpec
CONSTANTS
    Starts <- MCStarts
    Conclusions = {"success", "failure"}
    Faults = {"checkRuns", "closed"}
    MaxIterations = 1
    MaxConflictIterations = 1
    MaxHeads = 2
    MaxTasks = 4
INVARIANTS TypeOK OneFollowUpPerCommit MergeAllowed
PROPERTIES GreenIsTried RedIsAnswered MergeIsLearned
CHECK_DEADLOCK FALSE
