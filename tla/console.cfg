SPECIFICATION MCSpec
SYMMETRY HandlersAlike
CONSTANTS
    Cands = {c1}
    Plans = {p1}
    Tasks = {t1, t2}
    Scheduler = sched
    MaxBlocks = 2
    None = none
    MaxEntries = 2
    MaxCount = 2
    MaxRepeat = 2
    Routes = {r1, r2}
    Points = 3
    LastNoon = 5
    Passes = {q1, q2}
    Oids = {o1, o2}
    Kinds = 2
    MaxProb = 1
    MaxPages = 2
    MaxListed = 3
    Mine = q1
    First = o1
INVARIANTS
    TypeOK
    ApprovedHasRequest
    AuditAgrees
    AnnouncedOnce
    FirstComeFirst
    OneWaiting
    RecipesExpand
    AnswersHold
    FeedIsBest
PROPERTIES
    DecisionsStand
    ScheduleServed
