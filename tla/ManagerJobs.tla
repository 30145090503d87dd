----------------------------- MODULE ManagerJobs -----------------------------
(***************************************************************************)
(* FATE Manager's page of the jobs (its own jobMonitor.vue): one request   *)
(* brings the data of all types, of which the charts show one.  The page   *)
(* raises the overlay itself before it builds the request, so a request    *)
(* that cannot be built leaves it up.                                      *)
(***************************************************************************)
EXTENDS Page, SequencesExt

CONSTANTS
    Types,    \* the types of job
    Periods,  \* the periods the user picks
    Sites     \* the sites of the institution

Requests == {"getSiteOptions", "getJobs"}

None == <<"none">>
First == Head(SetToSeq(Types))
All == "ALL"

-----------------------------------------------------------------------------
Search(v) == <<v.timevalue, v.party_id>>

\* Without a period the request cannot be built.
getJobs(v) == IF v.timevalue = "" THEN <<>> ELSE <<Ask("getJobs", Search(v))>>
initi(v) == <<Ask("getSiteOptions", "")>> \o getJobs(v)

Init ==
    /\ server = {}
    /\ view = [timevalue |-> CHOOSE p \in Periods : TRUE, party_id |-> All, siteOptions |-> {},
               detail |-> None, chartData |-> None, selectData |-> <<"", None>>, bar |-> First]
    /\ Created(initi(view))

pickTime(period) ==
    /\ period # view.timevalue
    /\ view' = [view EXCEPT !.timevalue = period]
    /\ UserActs /\ ~busy /\ Len(calls) < MaxCalls
    /\ Raised(initi(view'))

selectSite(site) ==
    /\ site # view.party_id
    /\ view' = [view EXCEPT !.party_id = site]
    /\ UserActs /\ ~busy /\ Len(calls) < MaxCalls
    /\ Raised(getJobs(view'))

SearchControls ==
    \/ \E period \in Periods \cup {""} : pickTime(period)
    \/ \E site \in view.siteOptions : selectSite(site)

\* Before there is data the bar moves and the charts do not.
Selected(v, name) ==
    IF v.detail = None THEN v ELSE [v EXCEPT !.selectData = <<name, v.detail>>]

changeProgressType(name) ==
    /\ name # view.bar
    /\ Click(<<>>)
    /\ view' = [Selected(view, name) EXCEPT !.bar = name]

-----------------------------------------------------------------------------
OptionsThen(i) ==
    /\ Arrives(i, "getSiteOptions")
    /\ view' = [view EXCEPT !.siteOptions = Sites \cup {All}]
    /\ Handled(i, <<>>)

\* The first type is selected, and its bar.
JobsThen(i) ==
    /\ Arrives(i, "getJobs")
    /\ view' = [Selected([view EXCEPT !.detail = calls[i].arg], First) EXCEPT
                  !.chartData = calls[i].arg, !.bar = First]
    /\ HandledUnder(i, <<>>, FALSE)

-----------------------------------------------------------------------------
Next ==
    \/ SearchControls
    \/ \E name \in Types : changeProgressType(name)
    \/ \E i \in DOMAIN calls : OptionsThen(i) \/ JobsThen(i) \/ Fail(i) \/ Ignores(i)

Spec == Init /\ [][Next]_pageVars

-----------------------------------------------------------------------------
\* With everything answered in order the bars are of the search, and the
\* charts of the search and of the bar that is highlighted.
JobsAreOfSearch ==
    calls = <<>> /\ mishaps \cap {"failed", "crossed"} = {} /\ view.timevalue # "" =>
        view.chartData = Search(view) /\ view.selectData = <<view.bar, Search(view)>>

\* The overlay has an end as long as there is a period; without
\* one the next choice of a site raises the overlay and sends nothing.
OverlayHasAnswer == busy /\ view.timevalue # "" => \E i \in DOMAIN calls : ~calls[i].quiet
=============================================================================
