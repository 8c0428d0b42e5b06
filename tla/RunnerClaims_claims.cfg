SPECIFICATION Spec
CONSTANTS
    Rows = {w1, w2}
    TenantRows = {w2}
    CodexRows = {w1, w2}
    Requests = {p1, p2}
    MaxConcurrent = 2
    MaxFailures = 2
    Backoff <- MCBackoff
    MaxPause = 2
INVARIANTS TypeOK SlotsKept OneCodex BackoffKept
SYMMETRY Symmetry
