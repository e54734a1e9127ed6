SPECIFICATION Spec
CONSTANTS
    Nowhere = nowhere
    NoBlock = none
    Handlers = {h1, h2}
    Targets = {1, 2}
    Blocks = {1, 2}
    NSteps = 2
    Kinds <- NightKinds
    Dispatch <- TimedDispatch
    AutoExecute = FALSE
    PlanBlocks = {1}
    SafetyEnabled = TRUE
    Explored = {"pause", "abort", "cancel", "resume_plan", "error", "crash"}
    MaxEvents = 2
SYMMETRY HandlersAlike
INVARIANTS
    TypeOK
    RowsFollowSequencer
    DoneMeansSettled
    DoneFramesArchived
    AbortHitsItsBlock
PROPERTIES
    NeverRetaken
    PromptAnswered
    RunGoesOn
    RowsAsAgreed
