SPECIFICATION Spec
CONSTANTS
    RvaMod = 1000
    PageSize = 2
    MaxString = 4
    NearEnd = 2
    ByteMax = 255
    Second = 10
    IpMemSize = 6
    MaxChanges = 2
    Dumps <- MCDumps
INVARIANT TypeOK
INVARIANT ThreadsReadBack
 
INVARIANT ModulesReadBack
 
INVARIANT StreamsApart
INVARIANT TimesExact
CHECK_DEADLOCK FALSE
