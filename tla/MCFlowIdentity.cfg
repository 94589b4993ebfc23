CONSTANTS
    Run = {1, 2}
    Flow = {"f", "g"}
    Node <- KNode
    Order <- KOrder
    Inputs <- KInputs
    Cell <- KCell
    Domain = {"source", "plan"}
    Noop = {"left", "right"}
    Checked = {"plan"}
    AsOf <- KAsOf
    Readable <- KReadable
    Instant <- KInstant
    Same = Same
    Error = Error
SPECIFICATION Spec
INVARIANT
    OutputIdentity
CHECK_DEADLOCK FALSE
