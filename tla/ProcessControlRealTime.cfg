SPECIFICATION Spec
CONSTANTS
    Threads = {leader}
    Leader = leader
    Signals = {}
    RtSignals = {rt}
    STOP = sigstop
    None = none
INVARIANT NoSignalLost
CHECK_DEADLOCK FALSE
