CONSTANTS
    Keys = {k1, k2}
    Alarms = {warn}
    NoAlarm = NoAlarm
    MaxRevision = 3
    MaxEpoch = 2
SPECIFICATION Spec
INVARIANTS OrderIrrelevant TrackerExact
PROPERTY ReplicaSpec
