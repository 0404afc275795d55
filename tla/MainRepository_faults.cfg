SPECIFICATION Spec
CONSTANTS
    Coroutines = {k1}
    Ids = {i1}
    NoId = NoId
    Uuids = {u1, u2, u3}
    NoUuid = NoUuid
    Limit = 2
    HourlyCount = 1
    Frequencies = {"continuously"}
    MaxLogs = 2
    MaxFaults = 2
    MaxCopies = 4
INVARIANTS
    VerifiedIsBacked
    Recognised
    TypeOK
PROPERTIES
    ImplementsDelivery
