\* The preloaded libraries: chains of execs, concurrent mprotect calls, the
\* views of /proc, robust lists.
SPECIFICATION Spec
CONSTANTS
    Files <- MCFiles
    Default = {"/lib/ld-linux"}
    HostInterp = {"/system/ld"}
    Path <- MCPath
    Absolute <- MCAbsolute
    Beneath <- MCBeneath
    Shells = {"/bin/sh", "/usr/bin/sh"}
    Starts <- MCStarts
    Threads = {t1, t2}
    Pages = {1, 2}
    PageSize = 2
    Ranges <- MCRanges
    Protections = {{"R", "X"}, {"W", "X"}}
    Writes <- MCWrites
    PATH_MAX = 6
    SIZE_MAX = 15
    Targets <- MCTargets
    Rests = {0, 1, 2, 3, 6, 7}
    Workers = {w1, w2}
    Mutexes = {m1, m2}
INVARIANTS
    NoDeadInterpreter
    SelfNamed
    PreloadPolicy
    ArgumentsKept
    ByteIdentical
    OneFile
    PathFits
    ListMatchesHolder
