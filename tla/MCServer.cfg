SPECIFICATION FairSpec
CONSTANTS
    Conn = {c1, c2}
    HighWater = 1
    MaxQueries = 3
    Nothing = Nothing
INVARIANTS
    TypeOK
    TcpInOrder
    EveryQueryCounted
PROPERTIES
    SlowQueryStallsNoOther
    PipelinedIsAnswered
