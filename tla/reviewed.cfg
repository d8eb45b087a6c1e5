SPECIFICATION Spec
CONSTANTS
    r1 = r1
    r2 = r2
    worker = worker
    deliverer = deliverer
    Request <- OneRequest
    Worker = worker
    Deliverer = deliverer
    Automated = FALSE
    MaxAttempts = 2
    MaxStarts = 2
    MaxRevision = 1
    MaxCrashes = 0
PROPERTY WorkerSparesReviewed
CHECK_DEADLOCK FALSE
