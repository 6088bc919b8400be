CONSTANTS
    q1 = q1
    all = all
    limited = limited
    NoNotice = NoNotice
    NoQuake = NoQuake
    EqID <- MCOneQuake
    All <- MCAll
    Limited <- MCLimited
    MaxReport = 2
    Capacity = 1
    InitialBackoff = 1
    MaxBackoff = 3
    DropsBeforeWelcome = TRUE
    MaxSessions = 2
    MaxFailures = 2
SPECIFICATION FairSpec
INVARIANTS
    TypeOK
    NeverClosedTwice
    ReadyMeansJoined
    NothingLeftBehind
PROPERTIES
    PacedReconnect
    ComesBack
    ShutdownCompletes
    DrainedUnlessOrphaned
