SPECIFICATION Spec
CONSTANTS
    RvaMod = 1000
    PageSize = 4
    GuardSize = 8
    AddrMod = 64
    Targets <- NameTargets
    AVERAGE_STACK = 2
    BASE_THREADS = 1
    MAX_EXTRA_STACK = 2
    FUDGE = 1
    IP_MEMORY = 2
INVARIANT NamesReadBack
CHECK_DEADLOCK FALSE
