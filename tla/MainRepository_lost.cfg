SPECIFICATION Spec
CONSTANTS
    Coroutines = {k1, k2}
    Ids = {i1}
    NoId = NoId
    Uuids = {u1, u2}
    NoUuid = NoUuid
    Limit = 1
    HourlyCount = 1
    Frequencies = {"continuously"}
    MaxLogs = 1
    MaxFaults = 1
    MaxCopies = 4
SYMMETRY Symmetry
INVARIANTS
    ClearedOnlyWhenTransmitted
