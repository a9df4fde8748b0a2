SPECIFICATION Spec
CONSTANTS
    www = www
    zone = zone
    ns = ns
    NoEntry = NoEntry
    NoReply = NoReply
    Name <- MCName
    RType <- MCRType
    RClass <- MCRClass
    Asked <- MCAsked
    Payload <- MCPayload
    MinTtl = 0
    MaxTtl = 2
    TicksPerSecond = 2
    MaxTime = 5
    MaxCalls = 2
INVARIANTS
    TypeOK
    CopiesWithinLifetime
PROPERTY
    KeepsLeases
