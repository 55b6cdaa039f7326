CONSTANTS
    k1 = k1  k2 = k2  c1 = c1
    Keys = {k1}
    Alarms = {warn}
    NoAlarm = NoAlarm
    Channels = {}
    Timeouts <- NoTimeouts
    ChannelOf <- NoChannelOf
    MaxHistory = 2
    MaxAlarms = 2
    MaxEpoch = 2
    AlarmCap = 2
    ClientCap = 1
    WireCap = 1
    UiCap = 1
SPECIFICATION Spec
INVARIANT EveryAlarmInHistory
