SPECIFICATION Spec
CONSTANTS
    www = www
    web = web
    ns = ns
    t1 = t1
    NoEntry = NoEntry
    Idle = Idle
    Nothing = Nothing
    Name <- MCName
    RType <- MCRType
    RClass <- MCRClass
    Task = {t1}
    Question <- OneQuestion
    Replies <- RefusedReplies
    RootServers = 1
    MaxDepth = 2
    MaxDelegations = 2
    MaxQueries = 1
    MinTtl = 0
    MaxTtl = 2
    TicksPerSecond = 1
    MaxTime = 0
INVARIANT
    NoDataOnlyIfAServerSaidSo
