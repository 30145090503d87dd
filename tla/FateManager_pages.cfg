CONSTANTS
    MaxSteps = 3
    MaxCalls = 2
    Others = {"a"}
    Dates = {"p", "q"}
    OwnSites = {1, 2}
    Partners <- SmallPartners
    Sites = {"s"}
    Types = {"intersect", "modeling"}
SPECIFICATION Spec
INVARIANTS
    TypeOK
    OverlayEnds
    ShownIsCurrent
PROPERTIES
    SentAsEdited
    OneApplication
\* The user stops after MaxSteps, and every page rests.
CHECK_DEADLOCK FALSE
