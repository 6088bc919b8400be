SPECIFICATION Spec
CONSTANTS
    Bodies <- MCBodies
    ServerAwaitsAck = FALSE
    MaxBlocks = 2
INVARIANT CaughtUp
