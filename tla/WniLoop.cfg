SPECIFICATION FairSpec
CONSTANTS
    Conns <- MCConns
    Servers <- MCServers
    FetchMayHang = TRUE
INVARIANT TypeOK
INVARIANT BackoffCountsFailures
INVARIANT DialsNewestList
PROPERTY ShutdownCompletes
PROPERTY ListErrorsSurvived
