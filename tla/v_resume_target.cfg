SPECIFICATION Spec
CONSTANTS
    Nowhere = nowhere
    NoBlock = none
    Handlers = {1}
    Targets = {1}
    Blocks = {1}
    NSteps = 2
    Kinds <- SlewKinds
    Dispatch <- SlewDispatch
    AutoExecute = FALSE
    PlanBlocks = {1}
    SafetyEnabled = TRUE
    Explored = {"launch", "abort", "resume_plan"}
    MaxEvents = 3
INVARIANT
    FramesOnTarget
