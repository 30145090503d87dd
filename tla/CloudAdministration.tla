------------------------- MODULE CloudAdministration --------------------------
(***************************************************************************)
(* The pages of Cloud Manager's settings and monitors.  The frame shows one*)
(* page at a time, as in CloudSites; section tells whose state view and    *)
(* server are.                                                             *)
(***************************************************************************)
EXTENDS Page, SequencesExt

CONSTANTS
    Institutions,          \* the institutions
    OwnName, Names,        \* the administrators: the user, and the names to be added
    GroupIds, GroupNames,  \* the groups of party ids
    Scenarios,             \* the scenarios of the authorization
    Limit,                 \* how many certificate types there may be
    Dates,                 \* the periods of the monitors
    Types                  \* the types of job

ASSUME LimitAssumption == Limit \in Nat \ {0}

VARIABLE section   \* the page or the dialog shown

vars == <<section, pageVars>>

PI == INSTANCE PartyIds WITH MaxSteps <- MaxSteps + 2
PU == INSTANCE PartyUsers
SW == INSTANCE Switches WITH MaxSteps <- MaxSteps + 4
AC == INSTANCE Access WITH MaxSteps <- MaxSteps + 1
CT == INSTANCE CertificateTypes WITH MaxSteps <- MaxSteps + 3
CE == INSTANCE Certificates WITH MaxSteps <- MaxSteps + 2
MT == INSTANCE MonitorToday WITH MaxSteps <- MaxSteps - 1
MB == INSTANCE MonitorTables
JM == INSTANCE JobMonitor WITH Periods <- Dates

Init ==
    \/ section = "Party ID" /\ PI!Init
    \/ section = "partyuser" /\ PU!Init
    \/ section = "System Function Switch" /\ SW!Init
    \/ section = "Admin Access" /\ AC!Init
    \/ section = "certiAddType" /\ CT!Init
    \/ section = "Certificate" /\ CE!Init
    \/ section = "Site Monitor" /\ MT!Init
    \/ section = "monitortoday" /\ MB!Init
    \/ section = "Job Monitor" /\ JM!Init

Next ==
    \/ section = "Party ID" /\ PI!Next /\ UNCHANGED section
    \/ section = "partyuser" /\ PU!Next /\ UNCHANGED section
    \/ section = "System Function Switch" /\ SW!Next /\ UNCHANGED section
    \/ section = "Admin Access" /\ AC!Next /\ UNCHANGED section
    \/ section = "certiAddType" /\ CT!Next /\ UNCHANGED section
    \/ section = "Certificate" /\ CE!Next /\ UNCHANGED section
    \/ section = "Site Monitor" /\ MT!Next /\ UNCHANGED section
    \/ section = "monitortoday" /\ MB!Next /\ UNCHANGED section
    \/ section = "Job Monitor" /\ JM!Next /\ UNCHANGED section

Spec == Init /\ [][Next]_vars

-----------------------------------------------------------------------------
\* Every page sends its own requests only, and nothing passes the bounds.
TypeOK ==
    CASE section = "Party ID" -> CallsOK(PI!Requests)
      [] section = "partyuser" -> CallsOK(PU!Requests)
      [] section = "System Function Switch" -> CallsOK(SW!Requests)
      [] section = "Admin Access" -> CallsOK(AC!Requests)
      [] section = "certiAddType" -> CallsOK(CT!Requests)
      [] section = "Certificate" -> CallsOK(CE!Requests)
      [] section = "Site Monitor" -> CallsOK(MT!Requests)
      [] section = "monitortoday" -> CallsOK(MB!Requests)
      [] section = "Job Monitor" -> CallsOK(JM!Requests)

\* The overlay has an end: it is up only while a request is under way that will
\* take it down, or a timer is running.
OverlayEnds == IF section = "Job Monitor" THEN JM!OverlayHasEnd ELSE OverlayHasCall

\* The properties of the pages, each while its page is shown; each of them
\* stands, with what it speaks of, in the module of its page.

\* What the pages show is stored and of one question.  With everything
\* answered the tables have what the manager keeps for the search asked last
\* (partyid.vue, partyuser.vue, access.vue, certificate.vue), a switch that was
\* not confirmed is back (switch.vue), what was cancelled is forgotten
\* (certiAddType.vue), and all of a monitor is of one period, one institution
\* and one choice (monitortoday.vue, jobMonitor.vue).
ShownIsStored ==
    /\ section = "Party ID" => PI!TableIsCurrent
    /\ section = "partyuser" => PU!RowsOfLastSearch /\ PU!ChoicesOfRadio
    /\ section = "System Function Switch" => SW!SwitchIsStored
    /\ section = "Admin Access" => AC!ListIsOfRadio
    /\ section = "certiAddType" => CT!CancelledIsForgotten
    /\ section = "Certificate" => CE!TableIsCurrent
    /\ section = "Site Monitor" => MT!PartsAgree
    /\ section = "monitortoday" => MB!TablesAgree
    /\ section = "Job Monitor" => JM!ChartsAreOfSelection

\* What the pages send keeps the rules the manager leaves to them.  A group
\* has a name that was called free (partyidadd.vue) and the ranges that were
\* typed, also after it was opened again (idRangeRule.js); the authorization
\* has a scenario (switch.vue); an update is of one manager, unless the form
\* was taken for another before an answer (access.vue); the names of types
\* differ unless one slipped past the dialog (certiAddType.vue); a certificate
\* names sites of its institution (certificate.vue), and a search a site of
\* its own (jobMonitor.vue).
SentKeepsRules ==
    /\ section = "Party ID" =>
        PI!SavedNameWasFree /\ PI!SubmittedRangeIsTyped /\ PI!EditRoundTrip
    /\ section = "System Function Switch" => SW!OnHasScenario
    /\ section = "Admin Access" => AC!UpdateIsOfManager
    /\ section = "certiAddType" => CT!TypeNamesDiffer
    /\ section = "Certificate" => CE!SitesAreOfInstitution
    /\ section = "Job Monitor" => JM!SiteIsOfInstitution
=============================================================================
