\* As MCBrokerUndo, without pidfd_open.
SPECIFICATION Spec
CONSTANTS
    MaxSets = 1
    MaxPerSet = 1
    MaxValue = 2
    MaxUndo = 2
    MaxGeneration = 2
    MaxWaiters = 3
    Pids = {1, 2}
    c1 = c1
    c2 = c2
    c3 = c3
    Conn = {c1, c2, c3}
    PidOf <- TwoProcesses
    Requests <- UndoRequests
    MaxWatchers = 2
    PidfdWorks = FALSE
    Mortal = {}
    Threaded = {1}
    Inheritable = {}
PROPERTIES UndoOnlyAfterExit
