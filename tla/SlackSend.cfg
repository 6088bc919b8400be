SPECIFICATION Spec
CONSTANTS
    Send = {s1, s2, s3}
    MaxAttempts = 3
    RequestTimeout = 3
    Deadline = 9
    DefaultWait = 1
    MaxWait = 3
    Header <- MCHeader
    Period = 1
    MaxErring = 1
INVARIANT TypeOK
INVARIANT PostedOnce
INVARIANT EndsInTime
INVARIANT FailsForCause
INVARIANT BurstGetsThrough
PROPERTY Returns
CHECK_DEADLOCK FALSE
