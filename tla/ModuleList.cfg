SPECIFICATION Spec
CONSTANTS
    PageSize = 2
    GuardSize = 4
    AddrMod = 20
    Ids = {"exe", "wrong", "text", "lib", "new", "old", "apk", "vdso", "zero", "user"}
    ZeroId = "zero"
    Paths <- MCPaths
    LinuxGate = "linux-gate.so"
    WordSize = 1
    SmallInt = 1
    Span = 2
    Bits = 4
    Defaced = 99
    Kinds <- MCKinds
    Files <- MCFiles
    Devices = {"/dev/dri"}
    Versions <- MCVersions
    Configs <- MCConfigs
    MinSize = 2
    U32 = 16
INVARIANT TypeOK
INVARIANT MappingsPartition
 
 
INVARIANT IdOfMappedFile
INVARIANT CallerWins
 
INVARIANT InfoAgrees
CHECK_DEADLOCK FALSE
