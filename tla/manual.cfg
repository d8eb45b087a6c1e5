SPECIFICATION EnrolmentSpec
CONSTANTS
    r1 = r1
    r2 = r2
    worker = worker
    deliverer = deliverer
    Request <- TwoRequests
    Worker = worker
    Deliverer = deliverer
    mine = mine
    team = team
    Owner <- TwoPeople
    Feed = {mine, team}
    FeedOwner <- OneEach
    Occasion = {1, 2}
    Scanner = {s1, s2}
    MaxPerScan = 1
    MaxTurns = 1
    Automated = FALSE
    MaxAttempts = 2
    MaxStarts = 5
    MaxRevision = 2
    MaxCrashes = 1
    q1 = q1
    q2 = q2
    n1 = n1
    n2 = n2
    Window = {y1, y2}
    Mate = {z1}
    MaxVersion = 5
    MaxTranscript = 2
    MaxStaffing = 2
    Seg = {q1, q2}
    Voice = {n1, n2}
    NoVoice = NoVoice
    Unknown = Unknown
    Order <- SpokenOrder
    Transcript <- Transcripts
    ModelDraft <- Answers
    Rewritten <- Edits
    MaxChanged = 1
SYMMETRY Slots
INVARIANTS TypeOK SentIsWhatWasEmailed  
PROPERTIES  RulesAreFollowed
CHECK_DEADLOCK FALSE
