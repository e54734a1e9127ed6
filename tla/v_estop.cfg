SPECIFICATION Spec
CONSTANTS
    SafetyEnabled = TRUE
    StationBound = FALSE
    StaleAfter = 1
    ClearDelay = 2
    Inputs = {"weather", "estop"}
INVARIANT
    EStopStops
