CONSTANTS
    BusCap = 1
    QueueCap = 1
    BatchSize = 2
    MaxStage = 3
    MaxRuns = 2
    MaxRows = 3
SPECIFICATION FairSpec
INVARIANTS LossCounted CauseStoredFirst
PROPERTIES ImplementsAtLeastOnce Drains
