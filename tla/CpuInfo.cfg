SPECIFICATION Spec
CONSTANTS
    RvaMod = 1000
    Targets <- MCTargets
    BaseSize = 16
    MaxDsos = 6
    U8 = 5
    OpenFiles <- MCOpenFiles
INVARIANT IdRebuilt
CHECK_DEADLOCK FALSE
