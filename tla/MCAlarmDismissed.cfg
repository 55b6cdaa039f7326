CONSTANTS
    k1 = k1  k2 = k2  c1 = c1
    Keys = {k1}
    Alarms = {warn}
    NoAlarm = NoAlarm
    Channels = {c1}
    Timeouts <- OneTimeout
    ChannelOf <- OneChannelOf
    MaxHistory = 1
    MaxAlarms = 1
    MaxEpoch = 1
    AlarmCap = 1
    ClientCap = 1
    WireCap = 1
    UiCap = 1
SPECIFICATION FairSpec
PROPERTY HiddenUntilNewData
