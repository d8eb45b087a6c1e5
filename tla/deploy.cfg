\* Two processes around a deploy and one more start; the lock connection may
\* drop.  Beside them the Research page, the providers, the notification center,
\* the sharing of a knowledge base and the teams, each alone; see MCDeploy.
SPECIFICATION DeploySpec
CONSTANTS
    Proc = {p1, p2}
    Job = {j1}
    Subject = {s1}
    NoProc = NoProc
    DeadSession = DeadSession
    NoSubject = NoSubject
    Concurrency = 1
    MaxBoots = 3
    MaxFaults = 1
    Searcher = {u1}
    Manager = {u1}
    Tab = {t1, t2}
    Setup = {k1, k2}
    Target = {c1}
    DailyLimit = 3
    FactCalls = 2
    MaxChanges = 3
    MaxAsks = 2
    MaxRows = 1
    MaxLosses = 1
    NoTab = NoTab
    Provider = {v1, v2}
    SavedKey = {w1}
    Thread = {h1, h2}
    MaxEdits = 3
    Teammate = {x1, x2}
    Named = x1
    Fact = {"joined", "left", "draft", "share"}
    FactKind <- FactKinds
    Announcer = {a1, a2}
    CacheSize = 1
    MaxStaff = 2
    MaxBreaks = 1
    Reader = {r1, r2}
    Creator = r1
    MaxShares = 3
    MaxMoves = 2
    MaxAsked = 2
    MaxUnsure = 1
    Team = {g1, g2}
    Account = {b1}
    Outside = {o1}
    Desk = {e1, e2}
    MaxWrites = 4
    MaxLeavers = 1
SYMMETRY DeploySymmetry
INVARIANTS
    TypeOK
    ClaimedAtMostOnce
    RunsInOnePlace
    OneLeader
    
    
PROPERTIES RowsSpec   TeamsAreFollowed
CHECK_DEADLOCK FALSE
