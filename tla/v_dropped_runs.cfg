SPECIFICATION Spec
CONSTANTS
    Nowhere = nowhere
    NoBlock = none
    Handlers = {1}
    Targets = {1, 2}
    Blocks = {1, 2}
    NSteps = 2
    Kinds <- NightKinds
    Dispatch <- NightDispatch
    AutoExecute = FALSE
    PlanBlocks = {}
    SafetyEnabled = TRUE
    Explored = {"launch", "cancel"}
    MaxEvents = 2
INVARIANT
    DroppedNeverRuns
