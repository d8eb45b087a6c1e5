\* One process at a time, crashing and restarting, with writes that fail
SPECIFICATION FairSpec
CONSTANTS
    Proc = {p1}
    Job = {j1, j2}
    Subject = {s1, s2}
    NoProc = NoProc
    DeadSession = DeadSession
    NoSubject = NoSubject
    Concurrency = 1
    MaxBoots = 3
    MaxFaults = 1
INVARIANTS
    OneActivePerSubject
    ToldTheOutcome
PROPERTIES FinalIsFinal EveryJobEnds
CHECK_DEADLOCK FALSE
