SPECIFICATION Spec
CONSTANTS
    Calls <- MCCalls
    Self = 1
    MaxSuspend = 3
INVARIANT CleanReturn
CHECK_DEADLOCK FALSE
