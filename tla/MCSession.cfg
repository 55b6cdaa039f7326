CONSTANTS
    c1 = c1  c2 = c2  c3 = c3
    i1 = i1  i2 = i2
    Calls = {c1, c2, c3}
    Ids = {i1, i2}
    NoCall = NoCall
    IdOf <- MCIdOf
    Idempotent = {c1}
    TooLarge = {}
    MaxAttempts <- MCMaxAttempts
    Kinds = {"invalid", "other"}
    QueueCap = 1
    WireCap = 2
SPECIFICATION Spec
INVARIANTS NobodyForgotten SentWithinPolicy ResultsMatch
CHECK_DEADLOCK FALSE
