SPECIFICATION FairSpec
CONSTANTS
    www = www
    web = web
    ns = ns
    t1 = t1
    t2 = t2
    NoEntry = NoEntry
    Idle = Idle
    Nothing = Nothing
    Name <- MCName
    RType <- MCRType
    RClass <- MCRClass
    Task = {t1, t2}
    Question <- WalkQuestion
    Replies <- WalkReplies
    RootServers = 2
    MaxDepth = 1
    MaxDelegations = 2
    MaxQueries = 2
    MinTtl = 0
    MaxTtl = 2
    TicksPerSecond = 1
    MaxTime = 0
INVARIANTS
    TypeOK
    NestingBounded
    ControlReturns
    ChainLeadsFromQuestion
PROPERTY
    EveryQueryAnswered
