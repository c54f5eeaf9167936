SPECIFICATION FairSpec
CONSTANTS
    MaxSets = 1
    MaxPerSet = 2
    MaxValue = 1
    MaxUndo = 1
    MaxGeneration = 1
    MaxWaiters = 3
    Pids = {1, 2}
    NS = 10
    Round = 3
    INT64_MAX = 127
    INT_MAX = 12
    t1 = t1
    t2 = t2
    u = u
    Tasks = {t1, t2, u}
    PidOf <- ProcessOf
    Starts <- TheStarts
    Socks = {1, 2, 3}
    MaxExchanges = 3
    ClockReadings <- Clock
    MaxId = 2
INVARIANTS TypeOK OwnAnswer RightActor DecidedOnce InStep OwnSocket TimeoutExact
PROPERTIES LossNoticed
\* Every process may have exited.
CHECK_DEADLOCK FALSE
