SPECIFICATION Spec
CONSTANTS
    Conn = {c1}
    HighWater = 1
    MaxQueries = 2
    Nothing = Nothing
INVARIANT
    FailureIsAnswered
