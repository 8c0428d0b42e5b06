SPECIFICATION LiveSpec
CONSTANTS
    Workers = {w1}
    Saves = {m1}
    Flushes = {f1, f2}
    RetryLimit = 2
    MaxRequests = 3
INVARIANTS TypeOK OnePatchPerWorker Serviced
PROPERTY Drains
