\* One application and one administrator's request at a time, all scenarios.
CONSTANTS
    Institutions = {i1, i2, i3}
    Guests = {i1, i2}
    Hosts = {i1, i3}
    Scenarios = {1, 2, 3}
    Applicants = {t1}
    Admins = {a1}
    Pollers = {i1}
    MaxBatches = 3
    None = None
SPECIFICATION Spec
INVARIANTS
    TypeOK
    OneCurrentRow
PROPERTIES
    ImplementsLedger
    AuthorityReachesManager
\* Once every institution is deleted nothing is left to do.
CHECK_DEADLOCK FALSE
