---------------------------- MODULE FateManager ----------------------------
(***************************************************************************)
(* The pages of FATE Manager's front end: its sites, a site, and the two   *)
(* monitors.  The frame shows one page at a time, and a page that is left  *)
(* leaves nothing behind: its requests are answered to nobody.  section    *)
(* tells whose state view and server are.                                  *)
(***************************************************************************)
EXTENDS Page, SequencesExt

CONSTANTS
    Others,          \* the other institutions
    Dates,           \* the periods of the cooperation and of the jobs
    OwnSites,        \* the sites of the institution, by number
    Partners,        \* the sites of others they had jobs with
    Sites,           \* the sites whose jobs are looked at
    Types            \* the types of job

VARIABLE section   \* the page shown

\* The value of Partners for the checks: two institutions; the names of the
\* sites of the first are in the other order.
SmallPartners ==
    {[institution |-> 1, name |-> <<1, 0>>], [institution |-> 1, name |-> <<3, 0>>],
     [institution |-> 2, name |-> <<2, 0>>]}

vars == <<section, pageVars>>

MS == INSTANCE ManagerSites WITH MaxSteps <- MaxSteps + 1
SD == INSTANCE SiteDetail WITH MaxSteps <- MaxSteps + 2
CO == INSTANCE Cooperation WITH MaxSteps <- MaxSteps - 1
JM == INSTANCE ManagerJobs WITH MaxSteps <- MaxSteps + 1, Periods <- Dates

Init ==
    \/ section = "sitemanage" /\ MS!Init
    \/ section = "siteinfo" /\ SD!Init
    \/ section = "cooperation" /\ CO!Init
    \/ section = "jobmonitor" /\ JM!Init

Next ==
    \/ section = "sitemanage" /\ MS!Next /\ UNCHANGED section
    \/ section = "siteinfo" /\ SD!Next /\ UNCHANGED section
    \/ section = "cooperation" /\ CO!Next /\ UNCHANGED section
    \/ section = "jobmonitor" /\ JM!Next /\ UNCHANGED section

Spec == Init /\ [][Next]_vars

-----------------------------------------------------------------------------
\* Every page sends its own requests only, nothing passes the bounds, and what
\* a site is updated with are codes, not the switches of the form.
TypeOK ==
    CASE section = "sitemanage" -> CallsOK(MS!Requests)
      [] section = "siteinfo" ->
            /\ CallsOK(SD!Requests)
            /\ \A f \in SD!Switches : server.site[f] \in {1, 2}
      [] section = "cooperation" -> CallsOK(CO!Requests)
      [] section = "jobmonitor" -> CallsOK(JM!Requests)

\* The overlay has an end: it is up only while a request is under way that will
\* take it down.  The page of the jobs keeps it when it has no period.
OverlayEnds == IF section = "jobmonitor" THEN JM!OverlayHasAnswer ELSE OverlayHasCall

\* The properties of the pages, each while its page is shown; each of them
\* stands, with what it speaks of, in the module of its page.

\* What the pages show is current.  With everything answered in order all of a
\* monitor is of the period and the search shown (cooperationdata.vue,
\* jobMonitor.vue), its table having a row for every site, the cells that an
\* own site's name does not make it lose, and fitting spans;
\* the page of the sites knows whether an application waits and has no history
\* twice (sitemanage.vue); the page of a site that says "under review" is on
\* its way to the decision, and out of edit shows what was loaded, so that
\* nothing of a cancelled edit is left to be sent (sitedetail.vue).
ShownIsCurrent ==
    /\ section = "cooperation" => CO!AllOfPeriod /\ CO!SiteTableComplete
    /\ section = "jobmonitor" => JM!JobsAreOfSearch
    /\ section = "sitemanage" => MS!StatusIsCurrent /\ MS!HistoryOnce
    /\ section = "siteinfo" => SD!WaitsForDecision /\ SD!CancelRestores

\* sitedetail.vue: what is sent for review is what the form shows, switches
\* and addresses.
SentAsEdited == SD!SentAsEdited

\* sitemanage.vue: the form of a second application is not opened while one
\* waits and the page could know.
OneApplication == MS!OneApplication
=============================================================================
