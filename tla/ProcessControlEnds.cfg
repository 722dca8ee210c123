SPECIFICATION FairSpec
CONSTANTS
    Threads = {leader, t1}
    Leader = leader
    Signals = {hup}
    RtSignals = {}
    STOP = sigstop
    None = none
PROPERTY DumpEnds
CHECK_DEADLOCK FALSE
