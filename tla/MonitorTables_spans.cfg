\* Two institutions: the one chosen is put on top of the other.
CONSTANTS
    MaxSteps = 3
    MaxCalls = 2
    Institutions = {"a", "b"}
    Dates = {"p", "q"}
SPECIFICATION Spec
INVARIANTS
    SpansFit
CHECK_DEADLOCK FALSE
