SPECIFICATION Spec
CONSTANTS
    r1 = r1
    r2 = r2
    x1 = x1
    x2 = x2
    RollSites = {r1, r2}
    Exchanges = {x1, x2}
    Deployments <- FirstManaged
    Parties = {p1, p2}
    Addresses = {a1, a2}
    Threads = {t1}
    MaxEvents = 3
    None = None
INVARIANT TypeOK
INVARIANT JoinedIsRouted
PROPERTY WaitingEditsKept
PROPERTY SyncConverges
