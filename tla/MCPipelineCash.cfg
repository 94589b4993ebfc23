SPECIFICATION Spec
CONSTANTS
    i1 = i1
    i2 = i2
    run1 = run1
    run2 = run2
    g = g
    s = s
    b = b
    b2 = b2
    sec = sec
    NonFinite = NonFinite
    KMaxIntents = 2
    Proc = {g, s, b}
    Kind <- Single
    Run = {run1, run2}
    Intent = {i1, i2}
    RunOf <- TwoRuns
    Order <- Buys
    Securities <- Table
    Policy <- GateArgs
    Mode = {"observe", "paper"}
    Cash = {10}
    Limit = 1
    MaxAge = 1
    MaxTx = 6
INVARIANTS
    ApprovedBuysFitCash
