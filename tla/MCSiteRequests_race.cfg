\* Two administrators race: counts drift, checks are overtaken.
CONSTANTS
    Sites = {s1, s2}
    Groups = {g1}
    PartyIds = {p1}
    Institutions = {i1}
    Admins = {a1, a2}
    Installers = {t1}
    Operations = {"update", "delete", "institution", "user", "group", "torn"}
    Links = {"long"}
    None = None
SPECIFICATION Spec
SYMMETRY Symmetry
PROPERTIES
    RemovedIsFinal
