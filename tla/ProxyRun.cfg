SPECIFICATION FairSpec
CONSTANTS
    EventLimit = 0
    ByteLimit = 30
    r1 = r1
    r2 = r2
    r3 = r3
    n1 = n1
    s1 = s1
    c1 = c1
    t1 = t1
    t2 = t2
    NoTool = NoTool
    AnyTool = AnyTool
    NoRequest = NoRequest
    Requests = {r1, r2}
    Notifications = {}
    ServerRequests = {}
    ServerNotifications = {}
    StderrChunks = {c1}
    Tools = {t1}
    ToolOf <- OneTool
    Mutations <- StaleSecond
    Backpressure = TRUE
    StopsOn = {"SIGTERM"}
    Disturbances = {"invalid_line", "run_timeout", "target_exit", "interrupt", "interrupt_again",
                    "client_gone"}
    SizeOf <- UnitSizes
INVARIANTS
    AtMostOneResponse
    TimeoutIsFinal
    StaleWasSeen
PROPERTIES
    RunEnds
    TargetStopped
