SPECIFICATION MCFairSpec
CONSTANTS
    Devices = {camera, mount}
    Cameras = {camera}
    MaxClients = 2
    None = none
    Roles = {mount, camera, guide, filter}
    Mount = mount
    Wheel = filter
    Cams = {camera, guide}
    Guide = guide
    Shots = {1, 2}
    Slots = {1, 2}
    MaxObjects = 2
    Callers = {1, 2}
    MaxIter = 2
    Points = 3
    Backlash = 1
    MaxFocus = 2
    MaxEvents = 2
    MaxSamples = 1
INVARIANTS
    TypeOK
    AdaptersAreLive
    FrameIsOwn
    FramesAsFiled
    SweepReadsTrue
    GuidingShown
PROPERTIES
    LinkComesBack
    ImplementsLink
    ResultsHold
    WorkEnds
