\* One administrator, every operation that keeps the count of party ids.
CONSTANTS
    Sites = {s1, s2}
    Groups = {g1, g2}
    PartyIds = {p1, p2}
    Institutions = {i1}
    Admins = {a1}
    Installers = {t1}
    Operations = {"update", "delete", "reactivate", "group", "institution", "exchange"}
    Links = {"long"}
    None = None
SPECIFICATION Spec
SYMMETRY Symmetry
INVARIANTS
    TypeOK
    ActivePartyUnique
    ActiveSitesInRange
    RangesDisjoint
    UsedCountExact
PROPERTIES
    ImplementsRegistry
