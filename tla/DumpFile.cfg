SPECIFICATION Spec
CONSTANTS
    RvaMod = 1000
    Android = FALSE
    Shapes <- MCShapes
    Prior <- MCPrior
    MaxSoftErrors = 2
INVARIANT TypeOK
INVARIANT FileMirrorsImage
INVARIANT FileIsImage
INVARIANT PriorKept
INVARIANT MostlyIntact
PROPERTY ImplementsMinidump
CHECK_DEADLOCK FALSE
