CONSTANTS
    MaxTimestamp = 2
    MaxTime = 1
    LastChannel = 1
    Configs <- MCConfigs
    WithCanFd = TRUE
    QueueCap = 1
    Clocked = 0
    Watched <- MCWatched
    Timeout = 2
    ErrorTypes = {5}
    Frames <- MCFrames
    MaxRequests = 1
SPECIFICATION FairIngressSpec
INVARIANTS DifferencesDefined NothingLeftBehind AlarmsTrue
PROPERTIES Monotone SpacingKept SilenceNoticed
CHECK_DEADLOCK FALSE
