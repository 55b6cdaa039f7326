CONSTANTS
    w1 = w1  w2 = w2
    Workers = {w1, w2}
    NoWorker = NoWorker
    Values = {0, 2}
    Window = 2
    Limits <- MCLimits
    Rules <- MCRules
    JumpArguments <- MCJumpArguments
    GapArguments = {0, 1, 2}
    MaxTime = 4
SPECIFICATION FairSpec
INVARIANTS BusAgrees
PROPERTIES RaisesAndClearsAlternate Settles
