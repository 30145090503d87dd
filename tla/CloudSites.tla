------------------------------ MODULE CloudSites ------------------------------
(***************************************************************************)
(* The pages of Cloud Manager's sites and exchanges.  The frame shows one  *)
(* page at a time, and a page that is left leaves nothing behind: its      *)
(* requests are answered to nobody.  Each page and each dialog is a module *)
(* of its own; section tells whose state view and server are.              *)
(***************************************************************************)
EXTENDS Page

CONSTANTS
    Institutions,  \* the institutions of the tables of sites; the list has More as well
    More,
    Groups,        \* the groups of party ids
    Scenarios,     \* what the manager may say of the authorities
    Limit          \* rows of the dialog of the addresses

ASSUME InstitutionsAssumption == IsFiniteSet(Institutions)
ASSUME GroupsAssumption ==
    /\ IsFiniteSet(Groups)
    /\ \A g, h \in Groups :
        /\ g.groupId \in Nat \ {0} /\ g.role \in Nat \ {0} /\ g.range \subseteq (Nat \ {0})
        /\ g # h => g.groupId # h.groupId /\ g.range \cap h.range = {}
ASSUME LimitAssumption == Limit \in Nat \ {0, 1}   \* the field has two addresses at most at first

VARIABLE section   \* the page or the dialog shown

\* The value of Groups for the checks: a group of two party ids and one of a
\* single one, for different roles.
SmallGroups ==
    {[groupId |-> 1, role |-> 1, range |-> {1, 2}], [groupId |-> 2, role |-> 2, range |-> {3}]}

vars == <<section, pageVars>>

SF == INSTANCE SiteForm WITH MaxSteps <- MaxSteps + 2
SL == INSTANCE SiteList WITH Institutions <- Institutions \cup {More}
ST == INSTANCE SiteTable
RF == INSTANCE RollSiteForm WITH MaxSteps <- MaxSteps + 3
EX == INSTANCE Exchanges
EF == INSTANCE ExchangeForm WITH MaxSteps <- MaxSteps + 4
AL == INSTANCE AddressList WITH MaxSteps <- MaxSteps + 4
IC == INSTANCE IpCases WITH MaxSteps <- MaxSteps + 2

Init ==
    \/ section = "siteadd" /\ SF!Init
    \/ section = "Site Manage" /\ SL!Init
    \/ section = "sitetable" /\ ST!Init
    \/ section = "ipaddrollsite" /\ RF!Init
    \/ section = "ipexchange" /\ EX!Init
    \/ section = "Add an Exchange" /\ EF!Init
    \/ section = "ipeditadd" /\ AL!Init
    \/ section = "IP Manage" /\ IC!Init

Next ==
    \/ section = "siteadd" /\ SF!Next /\ UNCHANGED section
    \/ section = "Site Manage" /\ SL!Next /\ UNCHANGED section
    \/ section = "sitetable" /\ ST!Next /\ UNCHANGED section
    \/ section = "ipaddrollsite" /\ RF!Next /\ UNCHANGED section
    \/ section = "ipexchange" /\ EX!Next /\ UNCHANGED section
    \/ section = "Add an Exchange" /\ EF!Next /\ UNCHANGED section
    \/ section = "ipeditadd" /\ AL!Next /\ UNCHANGED section
    \/ section = "IP Manage" /\ IC!Next /\ UNCHANGED section

Spec == Init /\ [][Next]_vars

-----------------------------------------------------------------------------
\* Every page sends its own requests only, and nothing passes the bounds.
TypeOK ==
    CASE section = "siteadd" -> CallsOK(SF!Requests)
      [] section = "Site Manage" -> CallsOK(SL!Requests)
      [] section = "sitetable" -> CallsOK(ST!Requests)
      [] section = "ipaddrollsite" -> CallsOK(RF!Requests)
      [] section = "ipexchange" -> CallsOK(EX!Requests)
      [] section = "Add an Exchange" -> CallsOK(EF!Requests)
      [] section = "ipeditadd" -> CallsOK(AL!Requests)
      [] section = "IP Manage" -> CallsOK(IC!Requests)

\* The overlay has an end: it is up only while a request is under way that will
\* take it down.  The page of the sites raises it by itself and takes it down
\* with the last answer of a list, so there a request that fails leaves it up.
OverlayEnds ==
    IF section = "Site Manage" THEN mishaps = {} => SL!OverlayEnds ELSE OverlayHasCall

\* The properties of the pages, each while its page is shown; each of them
\* stands, with what it speaks of, in the module of its page.

\* What the pages show is stored.  With everything answered each institution
\* has the authorities and the application the manager keeps (site.vue), every
\* unfolded table has asked and has the rows of its own last question
\* (sitetable.vue), every table of an exchange its own roll sites
\* (ipexchangetable.vue), and every row the history of its own site (ip.vue);
\* the dialog after a save has the link of the site saved (siteadd.vue).
ShownIsStored ==
    /\ section = "Site Manage" => SL!AuthoritiesAreCurrent
    /\ section = "sitetable" => ST!UnfoldedHasAsked /\ ST!RowsAreCurrent
    /\ section = "ipexchange" => EX!TablesAreCurrent
    /\ section = "IP Manage" => IC!HistoriesAreCurrent
    /\ section = "siteadd" => SF!LinkOfSaved

\* What the pages send belongs together and nothing of it is lost.  A site is
\* submitted with a party id of its group (siteadd.vue), a decision is about
\* an application of the institution it names (site.vue), the routes sent with
\* a roll site or a network are its own (ipaddrollsite.vue), an exchange is
\* left stored or by consent (ipaddexchange.vue), addresses are accepted, each
\* once, and within the limit (ipeditadd.vue), and switches are codes (ip.vue).
SentBelongsTogether ==
    /\ section = "siteadd" => SF!GroupOfSubmission
    /\ section = "Site Manage" => SL!DecisionIsOfInstitution
    /\ section = "ipaddrollsite" => RF!UpdateIsOfRollSite /\ RF!AddedIsOfNetwork
    /\ section = "Add an Exchange" => EF!LeftIsStoredOrAgreed
    /\ section = "ipeditadd" => AL!LimitKept /\ AL!SavedAreAccepted
    /\ section = "IP Manage" => IC!CodeIsSent
=============================================================================
