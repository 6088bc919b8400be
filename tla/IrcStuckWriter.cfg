CONSTANTS
    q1 = q1
    all = all
    limited = limited
    NoNotice = NoNotice
    NoQuake = NoQuake
    EqID <- MCOneQuake
    All <- MCAll
    Limited <- MCLimited
    MaxReport = 1
    Capacity = 1
    InitialBackoff = 1
    MaxBackoff = 3
    DropsBeforeWelcome = TRUE
    MaxSessions = 2
    MaxFailures = 1
SPECIFICATION FairSpec
PROPERTIES
    QueueIsDrained
