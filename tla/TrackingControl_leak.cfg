SPECIFICATION Spec
CONSTANTS
    MaxToggles = 3
    MaxDepartures = 0
    MaxCrashes = 0
    Unset = Unset
INVARIANTS
    IdleMeansNoLogging
CHECK_DEADLOCK FALSE
