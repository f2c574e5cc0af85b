SPECIFICATION Spec
CONSTANTS
    EventLimit = 10
    ByteLimit = 12
    r1 = r1
    r2 = r2
    r3 = r3
    n1 = n1
    s1 = s1
    c1 = c1
    t1 = t1
    t2 = t2
    NoTool = NoTool
    AnyTool = AnyTool
    NoRequest = NoRequest
    Requests = {r1, r2}
    Notifications = {n1}
    ServerRequests = {}
    ServerNotifications = {}
    StderrChunks = {}
    Tools = {t1}
    ToolOf <- OneTool
    Mutations <- DuplicateDenyLose
    Backpressure = TRUE
    StopsOn = {"SIGTERM"}
    Disturbances = {}
    SizeOf <- Sizes
INVARIANTS
    TypeOK
    CaptureIsSound
    CommitStatusIsTrue
    CallsKeepRank
