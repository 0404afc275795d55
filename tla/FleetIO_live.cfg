SPECIFICATION FairSpec
CONSTANTS
    Sessions = {s1, s2}
    Truckers = {t1}
    Uuids = {u1}
    l1 = l1
    l2 = l2
    Logs = {l1, l2}
    Batches <- MCBatches
    WebRequests = {}
    NoSession = NoSession
    NoDevice = NoDevice
    MaxRows = 2
    MaxFaults = 1
PROPERTIES
    RequestsAnswered
