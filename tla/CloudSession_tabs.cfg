\* Two tabs of one user.
CONSTANTS
    Tabs = {t1, t2}
    MaxSteps = 3
SPECIFICATION Spec
INVARIANTS
    TypeOK
    ProtectedNeedsOrganization
    NobodyWaitsInVain
PROPERTIES
    NavigationEnds
    PutOut
\* Once the user has done all it may, the tabs rest.
CHECK_DEADLOCK FALSE
