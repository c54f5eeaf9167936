\* As MCPreload, with calls of mprotect only.
SPECIFICATION Spec
CONSTANTS
    Files <- MCFiles
    Default = {"/lib/ld-linux"}
    HostInterp = {"/system/ld"}
    Path <- MCPath
    Absolute <- MCAbsolute
    Beneath <- MCBeneath
    Shells = {"/bin/sh", "/usr/bin/sh"}
    Starts <- NoExec
    Threads = {t1, t2}
    Pages = {1, 2}
    PageSize = 2
    Ranges <- MCRanges
    Protections = {{"R", "X"}, {"W", "X"}}
    Writes <- MCWrites
    PATH_MAX = 6
    SIZE_MAX = 15
    Targets <- NoTargets
    Rests = {0}
    Workers = {w1, w2}
    Mutexes = {m1, m2}
INVARIANT MappingIdentical
