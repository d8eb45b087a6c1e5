SPECIFICATION FairSpec
CONSTANTS
    r1 = r1
    r2 = r2
    worker = worker
    deliverer = deliverer
    Request <- OneRequest
    Worker = worker
    Deliverer = deliverer
    Automated = TRUE
    MaxAttempts = 2
    MaxStarts = 2
    MaxRevision = 2
    MaxCrashes = 1
INVARIANTS OneAutomaticMail DeliveredMeansMailed
PROPERTIES AutoMailIsUntouched MinutesConclude
CHECK_DEADLOCK FALSE
