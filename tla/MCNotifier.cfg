SPECIFICATION FairSpec
CONSTANTS
    n1 = n1
    n2 = n2
    Proc = {n1, n2}
    WorkLimit = 2
    MaxEvents = 4
INVARIANTS
    SentInOrder
    CursorBehindSent
PROPERTIES
    EveryEventSent
