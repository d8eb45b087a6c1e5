SPECIFICATION Spec
CONSTANTS
    r1 = r1
    r2 = r2
    worker = worker
    deliverer = deliverer
    Request <- TwoRequests
    Worker = worker
    Deliverer = deliverer
    Automated = FALSE
    MaxAttempts = 2
    MaxStarts = 4
    MaxRevision = 1
    MaxCrashes = 0
PROPERTY SentIsLocked
CHECK_DEADLOCK FALSE
