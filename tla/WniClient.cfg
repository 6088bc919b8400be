SPECIFICATION FairSpec
CONSTANTS
    Bodies <- MCBodies
    ServerAwaitsAck = TRUE
    MaxBlocks = 3
INVARIANT TypeOK
INVARIANT InOrder
INVARIANT CaughtUp
INVARIANT PingsAnswered
INVARIANT DispatchedBeforeEnd
PROPERTY ShutdownNoticed
