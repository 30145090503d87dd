CONSTANTS
    MaxSteps = 3
    MaxCalls = 2
    Institutions = {"a", "b"}
    More = "c"
    Groups <- SmallGroups
    Scenarios = {"1", "3"}
    Limit = 3
SPECIFICATION Spec
INVARIANTS
    TypeOK
    OverlayEnds
    ShownIsStored
    SentBelongsTogether
\* The user stops after MaxSteps, and every page rests.
CHECK_DEADLOCK FALSE
