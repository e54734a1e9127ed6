SPECIFICATION FairSpec
CONSTANTS
    Nowhere = nowhere
    NoBlock = none
    Handlers = {1}
    Targets = {1, 2}
    Blocks = {1, 2}
    NSteps = 2
    Kinds <- AutoKinds
    Dispatch <- AutoDispatch
    AutoExecute = TRUE
    PlanBlocks = {2}
    SafetyEnabled = TRUE
    Explored = {"launch", "manual", "abort", "weather", "override", "link", "error"}
    MaxEvents = 2
PROPERTIES
    AbortEndsRun
    LaunchedStarts
    RunningEnds
