SPECIFICATION Spec
CONSTANTS
    Threads = {leader, t1}
    Leader = leader
    Signals = {hup}
    RtSignals = {rt}
    STOP = sigstop
    None = none
INVARIANT TypeOK
INVARIANT SuspendedWhileWriting
INVARIANT TracedIsKnown
INVARIANT LeftRunning
INVARIANT ConsistentSnapshot
INVARIANT NamedSignalsKept
CHECK_DEADLOCK FALSE
