SPECIFICATION Spec
CONSTANTS
    Sessions = {s1, s2}
    Truckers = {t1, t2}
    Uuids = {u1, u2}
    l1 = l1
    l2 = l2
    Logs = {l1, l2}
    Batches <- MCBatches
    WebRequests = {w1}
    NoSession = NoSession
    NoDevice = NoDevice
    MaxRows = 2
    MaxFaults = 1
SYMMETRY Symmetry
INVARIANTS
    TypeOK
    HolderIsOwner
    ClaimIsExclusive
    BatchFromOwner
    AcknowledgedLogsStored
PROPERTIES
    ImplementsRegistry
    RowsFromOwner
    NoDisplacement
