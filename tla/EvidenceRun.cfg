SPECIFICATION EvidenceSpec
CONSTANTS
    EventLimit = 16
    ByteLimit = 30
    r1 = r1
    r2 = r2
    n1 = n1
    s1 = s1
    t1 = t1
    t2 = t2
    count = count
    peek = peek
    NoTool = NoTool
    AnyTool = AnyTool
    NoRequest = NoRequest
    Requests = {r1, r2}
    Notifications = {}
    ServerRequests = {}
    ServerNotifications = {}
    StderrChunks = {}
    Tools = {t1, t2}
    ToolOf <- OneTool
    Mutations <- LoseThenPartial
    Backpressure = FALSE
    StopsOn = {"eof"}
    Disturbances = {}
    SizeOf <- UnitSizes
    IdOf <- Ids
    ArgsOf <- Arguments
    Initial <- NoneOrZero
    Probes <- TwoProbes
    Pack <- SmallPack
    RecordLimit = 5
    StreamBound = 6
    Records <- AdapterRecords
    CapturedEvents <- SessionEvents
    CaptureBound = 4
    Confirmations <- Confirmable
INVARIANTS
    PassesAreTrue
    MutationsAreTold
    AcceptsWellFormed
    VerdictsNeedEvidence
    LossesAsReported
    PackFollowsTheSession
    FaultIsToldFromControl
