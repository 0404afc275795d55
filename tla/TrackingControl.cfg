SPECIFICATION Spec
CONSTANTS
    MaxToggles = 4
    MaxDepartures = 1
    MaxCrashes = 1
    Unset = Unset
INVARIANTS
    TypeOK
    UIAgreesAtRest
    LogsWhileOn
    NoLeakUnlessHasty
PROPERTIES
    LastToggleWins
CHECK_DEADLOCK FALSE
