SPECIFICATION Spec
CONSTANTS
    Coroutines = {k1, k2}
    Ids = {i1}
    NoId = NoId
    Uuids = {u1}
    NoUuid = NoUuid
    Limit = 1
    HourlyCount = 1
    Frequencies = {"continuously", "hourly"}
    MaxLogs = 2
    MaxFaults = 0
    MaxCopies = 4
PROPERTIES
    DeliversWhileApart
