\* Removal while several requests wait; closed peers, one socket that a forked
\* child may keep for a while.
SPECIFICATION FairSpec
CONSTANTS
    MaxSets = 1
    MaxPerSet = 1
    MaxValue = 1
    MaxUndo = 1
    MaxGeneration = 2
    MaxWaiters = 3
    Pids = {1}
    c1 = c1
    c2 = c2
    c3 = c3
    Conn = {c1, c2, c3}
    PidOf <- OneProcess
    Requests <- ReleaseRequests
    MaxWatchers = 0
    PidfdWorks = TRUE
    Mortal = {}
    Threaded = {}
    Inheritable = {c1}
PROPERTIES HopelessLeave
