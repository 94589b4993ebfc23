SPECIFICATION Spec
CONSTANTS
    cut = cut
    none = none
    None = none
    Truncated = cut
    Filings = {"k1", "k2", "q1"}
    Contents = {"k1_htm", "k2_htm", "k2_xml", "q1_htm", "ex"}
    Document <- KDocument
    Accepted <- KAccepted
    YearDays = 365
    Seen = {2}
    Feed <- KFeed
    Form <- KForm
    Date <- KDate
    Packages <- KPackages
    Groups <- KGroups
    ContinueOnError = TRUE
    MaxDeliveries = 1
    MaxFaults = 1
    MaxBatches = 1
INVARIANTS
    TypeOK
    BatchCoversFeed
    FetchedIsOnDisk
    ParsedIsComplete
    NoDoubleCount
CHECK_DEADLOCK FALSE
