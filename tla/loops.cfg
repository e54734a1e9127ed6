SPECIFICATION MCFairSpec
CONSTANTS
    SafetyEnabled = TRUE
    StationBound = TRUE
    StaleAfter = 3
    ClearDelay = 2
    Inputs = {"weather", "station", "sun", "estop", "override"}
    Cands = {}
    Plans = {p1}
    Tasks = {t1}
    Scheduler = sched
    MaxBlocks = 3
    None = none
INVARIANTS
    TypeOK
    NeverBetterThanSeen
PROPERTIES
    SafeIsEarned
    ImplementsGate
    EStopLatches
    SafeComesBack
    DuePlansRun
