CONSTANTS
    A = A
    B = B
    NONE = NONE
    Urls <- MCUrls
    NoUrl = NONE
    MaxActors = 2
    InboxCap = 1
    ReportCap = 2
    MaxReports = 3
    MaxDatagrams = 0
SPECIFICATION FairSpec
PROPERTIES
    StaleWritesDropped
CHECK_DEADLOCK FALSE
