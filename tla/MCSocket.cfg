CONSTANTS
    A = A
    B = B
    NONE = NONE
    Urls <- MCUrls
    NoUrl = NONE
    MaxActors = 2
    InboxCap = 1
    ReportCap = 2
    MaxReports = 3
    MaxDatagrams = 1
SPECIFICATION SocketSpec
INVARIANTS
    TasksAccounted
PROPERTIES
    HomeServed
    StatusSettles
    Delivered
    Stops
CHECK_DEADLOCK FALSE
