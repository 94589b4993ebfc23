SPECIFICATION Spec
CONSTANTS
    none = none
    None = none
    Truncated = "cut"
    Filings = {"a", "b", "c", "x"}
    Contents = {"a_htm", "b_htm", "c_htm", "x_htm"}
    Document <- KDocument
    Accepted <- KAccepted
    YearDays = 365
    Primary <- KPrimary
    Times = {420, 790, 890, 900, 950, 1400}
    AsOf = {420, 900}
    MaxAge = 550
    Prompt = {TRUE, FALSE}
    MaxRuns <- KRuns
    MaxFeats = 2
INVARIANTS
    TypeOK
    PointInTime
    ComparableIfAny
    KnownIfPrompt
    SameAnswer
CHECK_DEADLOCK FALSE
