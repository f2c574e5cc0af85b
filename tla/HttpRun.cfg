SPECIFICATION FairSpec
\* Handlers that have settled, or wait for a client that left, do nothing more.
CHECK_DEADLOCK FALSE
CONSTANTS
    client = client
    Requests = {client}
    Asked <- Posts
    Replies <- Either
    Mutation = "embedded"
    MaxBody = 5
    MaxEvent = 4
    MaxSession = 9
    Chunks <- Pieces
    MaxSource = 10
INVARIANTS
    UpstreamsAreTimed
    StreamConserved
    EndingsAreTrue
PROPERTIES
    HandlersSettle
    CloseReleases
