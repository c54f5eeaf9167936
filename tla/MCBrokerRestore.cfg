\* Liveness of timeouts and process exit.
SPECIFICATION FairSpec
CONSTANTS
    MaxSets = 1
    MaxPerSet = 1
    MaxValue = 2
    MaxUndo = 2
    MaxGeneration = 2
    MaxWaiters = 3
    Pids = {1, 2}
    c1 = c1
    c2 = c2
    c3 = c3
    Conn = {c1, c3}
    PidOf <- TwoProcesses
    Requests <- TimedRequests
    MaxWatchers = 2
    PidfdWorks = TRUE
    Mortal = {1, 2}
    Threaded = {}
    Inheritable = {}
\* Everybody may have exited.
CHECK_DEADLOCK FALSE
PROPERTIES TimedReturns ExitRestores
