\* An institution is deleted after its party id went to another one.
CONSTANTS
    Sites = {s1, s2}
    Groups = {g1}
    PartyIds = {p1, p2}
    Institutions = {i1, i2}
    Admins = {a1}
    Installers = {}
    Operations = {"delete", "institution", "exchange"}
    Links = {"long"}
    None = None
SPECIFICATION Spec
PROPERTIES
    RouteFollowsSite
