---------------------------- MODULE Cooperation ----------------------------
(***************************************************************************)
(* FATE Manager's page of the cooperation (cooperation.vue with            *)
(* cooperationdata.vue): the totals of a period and two tables.  A change  *)
(* of the radio takes the period back at once and asks for it 300 ms       *)
(* later; what the page showed is cleared as it asks.                      *)
(***************************************************************************)
EXTENDS Page, SiteMatrix

CONSTANT Dates   \* the periods of the cumulative data

Today == "today"
LastMonth == CHOOSE d \in Dates : TRUE

Requests == {"getTotal", "getInstitution", "getSite"}
None == <<"none">>

-----------------------------------------------------------------------------
Period(v) == <<v.timevalue>>
initi(v) ==
    <<Ask("getTotal", Period(v)), Ask("getInstitution", Append(Period(v), v.firstInstPageNum)),
      Ask("getSite", Append(Period(v), v.secondSitePageNum))>>
Cleared(v) ==
    [v EXCEPT !.totalList = None, !.institutionList = None, !.siteTable = None]

\* The manager answers the same table for every period.
Init ==
    /\ server \in Answers
    /\ view = [radio |-> "today", timevalue |-> Today, timers |-> 0,
               totalList |-> None, institutionList |-> None, siteTable |-> None,
               siteTableList |-> <<>>, lengthList |-> <<>>,
               firstInstPageNum |-> 1, secondSitePageNum |-> 1]
    /\ Created(initi(view))

tohandle(radio) ==
    /\ radio # view.radio
    /\ Click(<<>>)
    /\ view' = [view EXCEPT !.radio = radio, !.timers = @ + 1,
                            !.timevalue = IF radio = "today" THEN Today ELSE LastMonth]

RadioTimer ==
    /\ view.timers > 0
    /\ view' = Cleared([view EXCEPT !.timers = @ - 1])
    /\ Sends(initi(view))
    /\ UNCHANGED steps

handeldeDate(dates) ==
    /\ view.radio # "today" /\ dates # view.timevalue
    /\ view' = Cleared([view EXCEPT !.timevalue = dates])
    /\ Click(initi(view'))

\* The pages of the tables are not taken back with the period.
handleInstitutionCurrentChange(page) ==
    /\ page # view.firstInstPageNum
    /\ view' = [view EXCEPT !.firstInstPageNum = page, !.institutionList = None]
    /\ Click(<<Ask("getInstitution", Append(Period(view), page))>>)

handleSiteCurrentChange(page) ==
    /\ page # view.secondSitePageNum
    /\ view' = [view EXCEPT !.secondSitePageNum = page, !.siteTable = None]
    /\ Click(<<Ask("getSite", Append(Period(view), page))>>)

TimePicker == \E dates \in Dates : handeldeDate(dates)
InstitutionTable == \E page \in 1 .. 2 : handleInstitutionCurrentChange(page)
SiteTable == \E page \in 1 .. 2 : handleSiteCurrentChange(page)

-----------------------------------------------------------------------------
TotalThen(i) ==
    /\ Arrives(i, "getTotal")
    /\ view' = [view EXCEPT !.totalList = calls[i].arg]
    /\ Handled(i, <<>>)

InstitutionThen(i) ==
    /\ Arrives(i, "getInstitution")
    /\ view' = [view EXCEPT !.institutionList = calls[i].arg]
    /\ Handled(i, <<>>)

\* An answer without sites leaves the spans as they are.
SiteThen(i) ==
    LET rows == toGetSite(server)
    IN /\ Arrives(i, "getSite")
       /\ view' = [view EXCEPT !.siteTable = calls[i].arg, !.siteTableList = rows,
                               !.lengthList = IF rows = <<>> THEN @ ELSE lengthList(rows)]
       /\ Handled(i, <<>>)

-----------------------------------------------------------------------------
Next ==
    \/ \E radio \in {"today", "cumulative"} : tohandle(radio)
    \/ RadioTimer
    \/ TimePicker \/ InstitutionTable \/ SiteTable
    \/ \E i \in DOMAIN calls :
          TotalThen(i) \/ InstitutionThen(i) \/ SiteThen(i) \/ Fail(i) \/ Ignores(i)

Spec == Init /\ [][Next]_pageVars

-----------------------------------------------------------------------------
\* When everything has come, and what is of a kind in the order it was asked
\* for, all of the page is of the period shown: no part keeps an older one.
AllOfPeriod ==
    calls = <<>> /\ view.timers = 0 /\ mishaps \cap {"failed", "crossed"} = {} =>
        /\ view.totalList = Period(view)
        /\ view.institutionList = Append(Period(view), view.firstInstPageNum)
        /\ view.siteTable = Append(Period(view), view.secondSitePageNum)

\* Whatever the manager answers, the table of the sites has a row for every
\* site, and the spans of the first column are the rows of an institution
\* each.  A row has its first cell and those of all own sites whose name is
\* not a number; of an own site that has digits only for a name, a cell that
\* is not the first of its row is lost, and shown as 0.  It needs names that
\* differ, the case aside: of two sites that share a name one loses its row.
SiteTableComplete ==
    view.siteTable # None =>
        /\ (Unambiguous(server) => IsTableOf(view.siteTableList, server))
        /\ (view.siteTableList # <<>> => SpansOK(view.siteTableList, view.lengthList))
=============================================================================
