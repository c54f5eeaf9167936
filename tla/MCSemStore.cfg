\* Two slots, colliding keys, removals past the generation wrap; or one slot, two
\* semaphores, two processes: the undo table.
SPECIFICATION MCSpec
CONSTANTS
    MaxSets = 2
    MaxPerSet = 2
    MaxValue = 2
    MaxUndo = 2
    MaxGeneration = 3
    MaxWaiters = 1
    Pids = {1, 2}
    Keys = {0, 7}
    SetSizes <- AnySize
    GetFlags <- AnyGet
    Identities <- Callers
    Semids <- AllSemids
    SemNums = {0, 1}
    Values = {2, 3}
    OpArrays <- UndoArrays
    Modes = {384, 512}
    WaitKinds = {FALSE}
    MaxCreates = 4
INVARIANTS TypeOK UndoLive UndoBounded UndoConserved KeyUnique NoEarlyIdReuse
