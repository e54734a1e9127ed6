SPECIFICATION Spec
CONSTANTS
    SafetyEnabled = TRUE
    StationBound = TRUE
    StaleAfter = 1
    ClearDelay = 2
    Inputs = {"station"}
PROPERTY
    StaleIsUnsafe
