SPECIFICATION Spec
CONSTANTS
    Coroutines = {k1, k2}
    Ids = {i1}
    NoId = NoId
    Uuids = {u1}
    NoUuid = NoUuid
    Limit = 1
    HourlyCount = 0
    Frequencies = {"continuously"}
    MaxLogs = 1
    MaxFaults = 1
    MaxCopies = 5
SYMMETRY Symmetry
INVARIANTS
    NothingLost
    CopiesBounded
