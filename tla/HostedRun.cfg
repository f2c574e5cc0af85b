\* The service may be stopped and started again at any time.
SPECIFICATION FairSpec
CONSTANTS
    u = u
    d = d
    g = g
    l = l
    Never = Never
    Service = Service
    Ids <- Files
    Requests = {u, d, g, l}
    Asked <- FourClients
    Existing = {2, 3, 4}
    Unreadable = {4}
    MaxStored = 1
    Retention = 2
    ListLimit = 1
    MaxTime = 2
    MaxMishaps = 1
INVARIANTS
    StopDrains
PROPERTIES
    LimitsKept
    RefinesStore
    RequestsAnswered
