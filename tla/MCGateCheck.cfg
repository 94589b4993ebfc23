SPECIFICATION Spec
CONSTANTS
    known = known
    unknown = unknown
    NonFinite = NonFinite
    KMaxIntents = 2
    Id = {1, 2, 3}
    Security <- KnownSecurity
    Intents <- BatchIntents
    Securities <- Tables
    Limits <- CallLimits
CHECK_DEADLOCK FALSE
INVARIANTS
    ApprovedWithinCash
    SmallerBatchKeepsApprovals
