SPECIFICATION FairSpec
CONSTANTS
    Conns <- MCConns
    Servers <- MCServers
    FetchMayHang = TRUE
PROPERTY ListOutageSurvived
