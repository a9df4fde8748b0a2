SPECIFICATION FilterSpec
CONSTANTS
    Name <- MCName
    RType <- MCRType
    RClass <- MCRClass
    Question <- MCQuestion
    Replies <- MCReplies
    Streamed <- MCStreamed
    Noise <- MCNoise
    Files <- MCFiles
    NoEntry = NoEntry
    Nothing = Nothing
    MinTtl = 0
    MaxTtl = 2
    TicksPerSecond = 1
    MaxTime = 2
    Task = {t1, t2}
    Upstreams = 1
    Timeout = 1
    MaxQueries = 2
    BlockMode = "nxdomain"
    BlockTtl = 1
INVARIANT
    NoAddressOfBlockedNames
