\* Two installers with short links and an administrator who reactivates.
CONSTANTS
    Sites = {s1, s2}
    Groups = {g1}
    PartyIds = {p1, p2}
    Institutions = {i1}
    Admins = {a1}
    Installers = {t1, t2}
    Operations = {"reactivate", "group"}
    Links = {"short"}
    None = None
SPECIFICATION Spec
SYMMETRY Symmetry
INVARIANTS
    JoinedHasRoute
PROPERTIES
    ImplementsRegistry
