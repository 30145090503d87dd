----------------------------- MODULE JobMonitor -----------------------------
(***************************************************************************)
(* The page of the finished jobs (jobMonitor.vue with its three charts).   *)
(* The summary of a search is asked first; when it comes, the charts of    *)
(* every type of job are asked for, and 300 ms later, under an overlay of  *)
(* the page's own, those of the selected type are copied to the charts,    *)
(* whether they have come or not.  Two fields of view are history: late,   *)
(* what is selected has come after it was copied, and early, a site was    *)
(* chosen while the sites to choose from were under way.                   *)
(***************************************************************************)
EXTENDS Page, SequencesExt

CONSTANTS
    Types,         \* the types of job
    Periods,       \* the periods the user picks
    Institutions   \* the institutions, each with one site

Requests == {"getFinished", "getType", "institutionsListDropdown", "getSiteAll"}

\* The type of the first bar.
First == Head(SetToSeq(Types))
None == <<"none">>   \* what was not answered yet

\* What the manager answers is told apart by what was asked.
NoSite == <<"site", "">>
Site(institution) == <<"site", institution>>

-----------------------------------------------------------------------------
getProgressData(v) == <<Ask("getFinished", v.search)>>

\* The watcher of the period asks at once, and the page as it is created.
Init ==
    /\ server = {}
    /\ view = [search |-> [period |-> CHOOSE p \in Periods : TRUE, institutions |-> "", site |-> NoSite],
               totalData |-> None, allChartData |-> [k \in Types |-> None],
               selected |-> "", bar |-> First, charts |-> None, institutionsSelectList |-> {},
               sitesSelectList |-> "", timers |-> 0, late |-> FALSE, early |-> FALSE]
    /\ Created(getProgressData(view) \o getProgressData(view)
                 \o <<Ask("institutionsListDropdown", "")>>)

pickTime(period) ==
    /\ period # view.search.period
    /\ view' = [view EXCEPT !.search.period = period]
    /\ Click(getProgressData(view'))

\* The site is taken back with the institution it is of.
Searched(v, institution) ==
    [v EXCEPT !.search.institutions = institution, !.search.site = NoSite]

changeInstitution(institution) ==
    /\ institution # view.search.institutions
    /\ view' = Searched(view, institution)
    /\ Click((IF institution = "" THEN <<>> ELSE <<Ask("getSiteAll", institution)>>)
                \o getProgressData(view'))

\* The sites to choose from are those that came last.
changeSite(site) ==
    /\ view.search.institutions # "" /\ site # view.search.site
    /\ view' = [view EXCEPT !.search.site = site,
                            !.early = \E i \in DOMAIN calls : calls[i].op = "getSiteAll"]
    /\ Click(getProgressData(view'))

SearchControls ==
    \/ \E period \in Periods : pickTime(period)
    \/ \E institution \in view.institutionsSelectList \cup {""} : changeInstitution(institution)
    \/ \E site \in {NoSite, Site(view.sitesSelectList)} : changeSite(site)

\* What changeProgressType does at once; its timer copies what is selected then.
Selected(v, name) == [v EXCEPT !.selected = name, !.timers = @ + 1]

clickProgress(name) ==
    /\ UserActs /\ ~busy
    /\ Raised(<<>>)
    /\ view' = [Selected(view, name) EXCEPT !.bar = name]

Copy ==
    /\ view.timers > 0
    /\ view' = [view EXCEPT !.timers = @ - 1, !.late = FALSE,
                            !.charts = <<view.selected, view.allChartData[view.selected]>>]
    /\ busy' = FALSE
    /\ UNCHANGED <<server, calls, steps, mishaps>>

-----------------------------------------------------------------------------
(* Answers.                                                                *)

\* The summary is that of every type; the charts are asked for with the search as it is by then.
FinishedThen(i) ==
    /\ Arrives(i, "getFinished")
    /\ view' = [Selected(view, First) EXCEPT !.totalData = calls[i].arg, !.bar = First]
    /\ HandledUnder(i, [k \in 1 .. Cardinality(Types) |-> AskFrom(SetToSeq(Types)[k], "getType", view.search)], TRUE)

\* The two requests of a type count when both are answered.
TypeThen(i) ==
    /\ Arrives(i, "getType")
    /\ view' = [view EXCEPT !.allChartData[calls[i].part] = calls[i].arg,
                            !.late = @ \/ (calls[i].part = view.selected /\ view.timers = 0)]
    /\ Handled(i, <<>>)

InstitutionsThen(i) ==
    /\ Arrives(i, "institutionsListDropdown")
    /\ view' = [view EXCEPT !.institutionsSelectList = Institutions]
    /\ Handled(i, <<>>)

SitesThen(i) ==
    /\ Arrives(i, "getSiteAll")
    /\ view' = [view EXCEPT !.sitesSelectList = calls[i].arg]
    /\ Handled(i, <<>>)

-----------------------------------------------------------------------------
Next ==
    \/ SearchControls
    \/ \E name \in Types : clickProgress(name)
    \/ Copy
    \/ \E i \in DOMAIN calls :
          FinishedThen(i) \/ TypeThen(i) \/ InstitutionsThen(i) \/ SitesThen(i) \/ Fail(i) \/ Ignores(i)

Spec == Init /\ [][Next]_pageVars

-----------------------------------------------------------------------------
Ordered == mishaps \cap {"failed", "crossed"} = {}

\* When everything has come the totals are those of the search, and the
\* charts those of the selected type and the search, unless the type has
\* come more than 300 ms after it was asked for: nothing copies it then.
ChartsAreOfSelection ==
    calls = <<>> /\ view.timers = 0 /\ Ordered =>
        /\ view.totalData = view.search
        /\ view.selected = view.bar
        /\ (~view.late => view.charts = <<view.selected, view.search>>)

\* A search is for a site of the institution searched for, unless the site
\* was chosen before the sites of the institution came.
SiteIsOfInstitution ==
    Ordered /\ ~view.early => view.search.site \in {NoSite, Site(view.search.institutions)}

\* The overlay has an end: a request that will be answered, or a timer.
OverlayHasEnd == busy => view.timers > 0 \/ \E i \in DOMAIN calls : ~calls[i].quiet
=============================================================================
