\* Two institutions and the smallest sets with a choice to get wrong.
CONSTANTS
    MaxSteps = 3
    MaxCalls = 2
    Institutions = {"a", "b"}
    OwnName = "me"
    Names = {"you"}
    GroupIds = {1, 2, 3}
    GroupNames = {"n1", "n2"}
    Scenarios = {"1", "3"}
    Limit = 3
    Dates = {"p", "q"}
    Types = {"intersect", "modeling"}
SPECIFICATION Spec
INVARIANTS
    TypeOK
    OverlayEnds
    ShownIsStored
    SentKeepsRules
\* The user stops after MaxSteps, and every page rests.
CHECK_DEADLOCK FALSE
