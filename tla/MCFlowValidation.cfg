CONSTANTS
    Node <- KNode
    MaxEdges = 12
    MaxNodes = 8
    Workflows <- KWorkflows
SPECIFICATION ValidateSpec
INVARIANTS
    OrderRespectsEdges
    VerdictIsExact
    ExecutorCanRun
    AuthorityChain
    ClassAFromClassA
    ModeBoundsAuthority
CHECK_DEADLOCK FALSE
