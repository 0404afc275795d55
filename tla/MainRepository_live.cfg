SPECIFICATION FairSpec
CONSTANTS
    Coroutines = {k1}
    Ids = {i1}
    NoId = NoId
    Uuids = {u1, u2, u3, u4}
    NoUuid = NoUuid
    Limit = 1
    HourlyCount = 1
    Frequencies = {"continuously"}
    MaxLogs = 1
    MaxFaults = 1
    MaxCopies = 3
PROPERTIES
    EventuallyDelivered
