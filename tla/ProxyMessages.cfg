SPECIFICATION EvaluationSpec
CONSTANTS
    EventLimit = 20
    ByteLimit = 30
    r1 = r1
    r2 = r2
    n1 = n1
    s1 = s1
    t1 = t1
    t2 = t2
    count = count
    peek = peek
    NoTool = NoTool
    AnyTool = AnyTool
    NoRequest = NoRequest
    Requests = {r1}
    Notifications = {}
    ServerRequests = {s1}
    ServerNotifications = {}
    StderrChunks = {}
    Tools = {t1, t2}
    ToolOf <- OneTool
    Mutations <- DuplicateCalls
    Backpressure = TRUE
    StopsOn = {"SIGTERM"}
    Disturbances = {"interrupt", "client_gone"}
    SizeOf <- UnitSizes
    IdOf <- Ids
    ArgsOf <- Arguments
    Initial <- Zero
    Probes <- TwoProbes
    Pack <- SmallPack
INVARIANTS
    DuplicatesContained
    SuccessSettlesAll
    TrafficRecorded
    CountsAreTrue
    ResponsesPaired
