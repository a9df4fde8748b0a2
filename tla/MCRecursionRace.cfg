SPECIFICATION Spec
CONSTANTS
    www = www
    web = web
    ns = ns
    t1 = t1
    t2 = t2
    NoEntry = NoEntry
    Idle = Idle
    Nothing = Nothing
    Name <- MCName
    RType <- MCRType
    RClass <- MCRClass
    Task = {t1, t2}
    Question <- RaceQuestion
    Replies <- RaceReplies
    RootServers = 1
    MaxDepth = 2
    MaxDelegations = 2
    MaxQueries = 3
    MinTtl = 0
    MaxTtl = 2
    TicksPerSecond = 1
    MaxTime = 3
INVARIANT
    TargetsWithinLifetime
PROPERTY
    KeepsLeases
SYMMETRY
    TaskSymmetry
