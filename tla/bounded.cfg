\* A process that ran jobs before it led: start() replaces its semaphore
SPECIFICATION Spec
CONSTANTS
    Proc = {p1, p2}
    Job = {j1, j2}
    Subject = {s1, s2}
    NoProc = NoProc
    DeadSession = DeadSession
    NoSubject = NoSubject
    Concurrency = 1
    MaxBoots = 2
    MaxFaults = 0
INVARIANT BoundedConcurrency
CHECK_DEADLOCK FALSE
