CONSTANTS
    Run = {1, 2}
    Flow = {"f", "g"}
    Node <- KNode
    Order <- KOrder
    Inputs <- KInputs
    Cell <- KCell
    Domain = {"source", "plan"}
    Noop = {"left", "right"}
    Checked = {"plan"}
    AsOf <- KAsOf
    Readable <- KReadable
    Instant <- KInstant
    Same = Same
    Error = Error
SPECIFICATION Spec
INVARIANTS
    RowsFollowOrder
    InputsOfRun
    NoLookahead
    RejectionExplained
    LineageComplete
    ReplayMatches
CHECK_DEADLOCK FALSE
