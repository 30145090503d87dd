SPECIFICATION FairSpec
CONSTANTS
    Sites = {s1}
    Entrances = {e1, e2}
    Flags = {1, 2}
    Exchanges = {x1, x2}
    Choices <- FewChoices
    Users = {u1}
    Deciders = {d1}
    Editors = {a1}
    MaxRows = 2
    MaxFaults = 1
    Registered <- OneSetting
    None = None
INVARIANTS TypeOK SettledAgree UsedIsDecided
PROPERTIES DecidedOnce DecisionIsLogged
