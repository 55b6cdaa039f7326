CONSTANTS
    u1 = u1  u2 = u2  d1 = d1
    Uis = {u1, u2}
    Grain = 2
    NoText <- MCNoText
    TypedTorque <- MCTypedTorque
    TypedAngle <- MCTypedAngle
    TypedGap = {2}
    TypedCan <- MCTypedCan
    MaxRequests = 3
    MaxCollectorRestarts = 1
    Groups = {"can", "sent"}
    PageSize = 2
    MaxRows = 3
    MaxLoads = 3
    InboxCap = 2
    Nothing = Nothing
    Devices = {d1}
    DevicesOf <- MCDevicesOf
    NoDevice = NoDevice
    MaxReplays = 2
    Window = 4
    MaxPoints = 7
    Span = 7
    Values = {0, 1}
    Steps = {0, 1}
    MaxSamples = 8
SPECIFICATION UiSpec
INVARIANTS ThresholdsAgree WholeList EveryLoadLands SeriesIsSuffix SpikesKept
CHECK_DEADLOCK FALSE
SYMMETRY MCSymmetry
