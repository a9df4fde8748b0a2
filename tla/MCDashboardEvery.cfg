SPECIFICATION Spec
CONSTANTS
    example = example
    p1 = p1
    c1 = c1
    c2 = c2
    NoLink = NoLink
    NoReply = NoReply
    Page <- MCPage
    Conn <- MCConn
    Name <- MCName
    Kind = {"resolved"}
    QueueSize = 1
    HighWater = 1
    Ring = 2
    Shown = 2
    LogSize = 2
    MaxFetches = 1
    MaxEvents = 1
    MaxRestarts = 0
INVARIANT
    SettledPageCountsAll
