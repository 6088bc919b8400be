CONSTANTS
    q1 = q1
    all = all
    limited = limited
    NoNotice = NoNotice
    NoQuake = NoQuake
    EqID <- MCOneQuake
    All <- MCAll
    Limited <- MCLimited
    MaxReport = 2
    Capacity = 1
    InitialBackoff = 1
    MaxBackoff = 3
    DropsBeforeWelcome = FALSE
    MaxSessions = 1
    MaxFailures = 1
SPECIFICATION WatchedSpec
PROPERTIES
    LimitedNotForgotten
