\* Three threads of one process; waits for two semaphores, timeouts, removal.
SPECIFICATION OrderSpec
CONSTANTS
    MaxSets = 1
    MaxPerSet = 2
    MaxValue = 1
    MaxUndo = 1
    MaxGeneration = 2
    MaxWaiters = 3
    Pids = {1}
    c1 = c1
    c2 = c2
    c3 = c3
    Conn = {c1, c2, c3}
    PidOf <- OneProcess
    Requests <- QueueRequests
    MaxWatchers = 0
    PidfdWorks = TRUE
    Mortal = {}
    Threaded = {}
    Inheritable = {}
SYMMETRY AnyConn
INVARIANTS TypeOK NoLostWakeup WaitCountsExact
PROPERTIES FifoGrants ImplementsService
