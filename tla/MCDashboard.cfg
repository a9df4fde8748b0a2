SPECIFICATION FairSpec
CONSTANTS
    example = example
    p1 = p1
    c1 = c1
    c2 = c2
    NoLink = NoLink
    NoReply = NoReply
    Page <- MCPage
    Conn <- MCConn
    Name <- MCName
    Kind = {"blocked", "hit"}
    QueueSize = 1
    HighWater = 1
    Ring = 2
    Shown = 2
    LogSize = 2
    MaxFetches = 2
    MaxEvents = 2
    MaxRestarts = 1
INVARIANTS
    TypeOK
    CountsNeverAhead
    RowsInOrder
    QueuesBelongToStreams
    TalliesAgree
PROPERTIES
    DeadSubscribersLeave
    QueuedIsShown
    ListsSettle
