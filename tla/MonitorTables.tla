---------------------------- MODULE MonitorTables ----------------------------
(***************************************************************************)
(* The two tables of the page of the cooperation (monitortoday.vue): the   *)
(* jobs of an institution with the others, and those of its sites.  Which  *)
(* institutions there are to choose from is asked again with every change  *)
(* of the period, and both tables then go back to the first one.           *)
(***************************************************************************)
EXTENDS Page, SequencesExt

CONSTANTS
    Institutions,  \* the institutions
    Dates          \* the periods of the cumulative data the user picks

Today == "today"

\* "overview" stands for the requests of MonitorToday.
Requests == {"overview", "addInstitutionsList", "institutionsSata", "getSummarySite"}

\* The manager: how many sites every institution has jobs of.  What else it
\* answers is told apart by what was asked.
Known == SetToSeq(Institutions)
None == <<"none">>
NoTable == [about |-> None, rows |-> <<>>, lengthList |-> <<>>]
SitesOf == [Institutions -> 1 .. 2]

-----------------------------------------------------------------------------
Period(v) == IF v.type = "today" THEN Today ELSE v.timevalue

getinstitutionsdownList(v) == <<Ask("overview", ""), Ask("addInstitutionsList", "")>>
Cleared(v) == [v EXCEPT !.institutionsdownList = {}]

Init ==
    /\ server \in SitesOf
    /\ view = [type |-> "today", timevalue |-> CHOOSE d \in Dates : TRUE,
               institutionsdownList |-> {}, institutionStat |-> "", institutionSite |-> "",
               secondPageNum |-> 1, tableIntSateData |-> None, tableIntSiteData |-> NoTable]
    /\ Created(getinstitutionsdownList(view))

\* The radio of the page, and the picker of the dates.
changeType(type) ==
    /\ type # view.type
    /\ view' = Cleared([view EXCEPT !.type = type])
    /\ Click(getinstitutionsdownList(view'))
pickTime(dates) ==
    /\ view.type # "today" /\ dates # view.timevalue
    /\ view' = Cleared([view EXCEPT !.timevalue = dates])
    /\ Click(getinstitutionsdownList(view'))

toGetinstitutions(v) == <<Ask("institutionsSata", <<Period(v), v.institutionStat>>)>>
toGetIntSite(v) ==
    <<Ask("getSummarySite", <<Period(v), v.institutionSite, v.secondPageNum>>)>>

selectStat(institution) ==
    /\ institution # view.institutionStat
    /\ view' = [view EXCEPT !.institutionStat = institution]
    /\ Click(toGetinstitutions(view'))

\* The page of the table is not taken back.
selectSite(institution) ==
    /\ institution # view.institutionSite
    /\ view' = [view EXCEPT !.institutionSite = institution]
    /\ Click(toGetIntSite(view'))

handleInstitutionCurrentChange ==
    /\ view.institutionStat # ""
    /\ Click(toGetinstitutions(view))
    /\ UNCHANGED view

handleSiteCurrentChange(page) ==
    /\ page # view.secondPageNum /\ view.institutionSite # ""
    /\ view' = [view EXCEPT !.secondPageNum = page]
    /\ Click(toGetIntSite(view'))

\* The two parts of the page.
InstitutionControls ==
    \/ \E institution \in view.institutionsdownList : selectStat(institution)
    \/ handleInstitutionCurrentChange
SiteControls ==
    \/ \E institution \in view.institutionsdownList : selectSite(institution)
    \/ \E page \in 1 .. 2 : handleSiteCurrentChange(page)

-----------------------------------------------------------------------------
(* Answers.                                                                *)

OverviewThen(i) == Arrives(i, "overview") /\ Handled(i, <<>>) /\ UNCHANGED view

\* Both tables are those of the first institution.
DownListThen(i) ==
    /\ Arrives(i, "addInstitutionsList")
    /\ view' = [view EXCEPT !.institutionsdownList = Institutions, !.institutionStat = Head(Known),
                            !.institutionSite = Head(Known)]
    /\ Handled(i, toGetinstitutions(view') \o toGetIntSite(view'))

SataThen(i) ==
    /\ Arrives(i, "institutionsSata")
    /\ view' = [view EXCEPT !.tableIntSateData = calls[i].arg]
    /\ Handled(i, <<>>)

\* One row for every site, the institution's cell over all of its rows: the
\* first row has their number and the others 0.
RowsFor(institution) == [k \in 1 .. server[institution] |-> institution]
SpansFor(institution) == [k \in 1 .. server[institution] |-> IF k = 1 THEN server[institution] ELSE 0]

\* The table of the institutions of list, with the rows of top first.  The
\* spans of top are put in front once more with every institution.
Merged(list, top) ==
    FoldLeft(LAMBDA t, institution :
                LET spans == SpansFor(institution)
                    isTop == institution = top
                    topLength == IF isTop THEN t.topLength \o spans ELSE t.topLength
                IN [topLength |-> topLength,
                    lengthList |-> topLength \o t.lengthList \o (IF isTop THEN <<>> ELSE spans),
                    toparr |-> IF isTop THEN t.toparr \o RowsFor(institution) ELSE t.toparr,
                    arr |-> IF isTop THEN t.arr ELSE t.arr \o RowsFor(institution)],
             [topLength |-> <<>>, lengthList |-> <<>>, toparr |-> <<>>, arr |-> <<>>], list)

\* The rows on top are those of the institution chosen by then, not of the
\* one asked about.
getsiteSataData(i) ==
    LET table == Merged(Known, view.institutionSite)
    IN /\ Arrives(i, "getSummarySite")
       /\ view' = [view EXCEPT !.tableIntSiteData =
                      [about |-> calls[i].arg, rows |-> table.toparr \o table.arr,
                       lengthList |-> table.lengthList]]
       /\ Handled(i, <<>>)

-----------------------------------------------------------------------------
Next ==
    \/ \E type \in {"today", "cumulative"} : changeType(type)
    \/ \E dates \in Dates : pickTime(dates)
    \/ InstitutionControls \/ SiteControls
    \/ \E i \in DOMAIN calls :
          \/ OverviewThen(i) \/ DownListThen(i) \/ SataThen(i) \/ getsiteSataData(i)
          \/ Fail(i) \/ Ignores(i)

Spec == Init /\ [][Next]_pageVars

-----------------------------------------------------------------------------
\* The institution chosen is first in a table, the others as they came.
OnTop(rows, institution) ==
    /\ \A k \in 1 .. server[institution] : rows[k] = institution
    /\ \A other \in Institutions : Len(SelectSeq(rows, LAMBDA r : r = other)) = server[other]

\* However the period and the choices change while answers are on their way:
\* when they have all come, and those of a kind in the order they were asked
\* for, each table is that of the period and of its own choice, with the
\* rows of the choice on top.
TablesAgree ==
    calls = <<>> /\ mishaps \cap {"failed", "crossed"} = {} =>
        /\ view.tableIntSateData = <<Period(view), view.institutionStat>>
        /\ view.tableIntSiteData.about = <<Period(view), view.institutionSite, view.secondPageNum>>
        /\ OnTop(view.tableIntSiteData.rows, view.institutionSite)

\* "解决站点表格偶现的结构混乱问题", the occasional disorder of the table of
\* the sites is solved (monitortoday.vue:393): every row's span is the number
\* of the rows of its institution on the first of them, and 0 on the others.
SpansFit ==
    LET rows == view.tableIntSiteData.rows
    IN \A k \in DOMAIN rows :
          view.tableIntSiteData.lengthList[k] =
             IF k > 1 /\ rows[k - 1] = rows[k] THEN 0 ELSE server[rows[k]]
=============================================================================
