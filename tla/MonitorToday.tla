---------------------------- MODULE MonitorToday ----------------------------
(***************************************************************************)
(* The page of the cooperation (monitor.vue with monitortoday.vue): the    *)
(* institutions that were active today or in a period, and the sites of    *)
(* the one selected with their summary.  Every part asks for its own data, *)
(* with the period as it is when it asks; a list of institutions selects   *)
(* its first one as it comes.  The tables below are in MonitorTables.      *)
(***************************************************************************)
EXTENDS Page, SequencesExt

CONSTANTS
    Institutions,  \* the institutions
    Dates          \* the periods of the cumulative data the user picks

Today == "today"
Periods == Dates \cup {Today}

\* "tables" stands for the requests of MonitorTables.
Requests == {"institutionsList", "institutionsAll", "tables", "siteList", "siteAll"}

\* The manager: the institutions active in a period, none or all in an order
\* of its own.  What else it answers is told apart by what was asked.
Orders == {<<>>, SetToSeq(Institutions)}
None == <<"none">>

-----------------------------------------------------------------------------
Period(v) == IF v.type = "today" THEN Today ELSE v.timevalue
About(v, institution) == <<Period(v), institution>>

initi(v) ==
    <<Ask("institutionsList", Period(v)), Ask("institutionsAll", <<Period(v), v.instpageNum>>),
      Ask("tables", "")>>

Init ==
    /\ server \in [Periods -> Orders]
    /\ view = [type |-> "today", timevalue |-> CHOOSE d \in Dates : TRUE, instpageNum |-> 1,
               institutionsList |-> <<>>, nowInstitus |-> [row |-> "", index |-> 0],
               activejobs |-> None, siteList |-> None, activeSite |-> None]
    /\ Created(initi(view))

handleChahe(type) ==
    /\ type # view.type
    /\ view' = [view EXCEPT !.type = type]
    /\ Click(initi(view'))

\* The picker is there for the cumulative data.
pickTime(dates) ==
    /\ view.type # "today" /\ dates # view.timevalue
    /\ view' = [view EXCEPT !.timevalue = dates]
    /\ Click(initi(view'))

\* The page of the institutions is that of the totals only.
handleCurrentChangeInst(page) ==
    /\ page # view.instpageNum
    /\ view' = [view EXCEPT !.instpageNum = page]
    /\ Click(<<Ask("institutionsAll", <<Period(view), page>>)>>)

\* Selects a row, if there is one, and asks for its sites.
Selected(v, row, index) == [v EXCEPT !.nowInstitus = [row |-> row, index |-> index]]
getsite(v, row) == <<Ask("siteList", About(v, row))>>

SelectInstitution(index) ==
    LET row == view.institutionsList[index]
    IN /\ view' = Selected(view, row, index)
       /\ Click(getsite(view, row))

\* The selected row again, or the first one.
handleCurrentChangeJob ==
    LET row == IF view.nowInstitus.index > 1 THEN view.nowInstitus.row
               ELSE IF view.institutionsList = <<>> THEN "" ELSE Head(view.institutionsList)
    IN /\ view.type # "today"
       /\ view' = Selected(view, row, IF view.nowInstitus.index > 1 THEN view.nowInstitus.index ELSE 1)
       /\ Click(getsite(view, row))

TimePicker == \E dates \in Dates : pickTime(dates)
InstitutionControls ==
    \/ \E page \in 1 .. 2 : handleCurrentChangeInst(page)
    \/ \E index \in DOMAIN view.institutionsList : SelectInstitution(index)
JobControls == handleCurrentChangeJob

-----------------------------------------------------------------------------
(* Answers.                                                                *)

\* The first institution is selected, also where there is none.
ListThen(i) ==
    LET list == server[calls[i].arg]
        row == IF list = <<>> THEN "" ELSE Head(list)
    IN /\ Arrives(i, "institutionsList")
       /\ view' = Selected([view EXCEPT !.institutionsList = list], row, 1)
       /\ Handled(i, getsite(view, row))

AllThen(i) ==
    /\ Arrives(i, "institutionsAll")
    /\ view' = [view EXCEPT !.activejobs = calls[i].arg]
    /\ Handled(i, <<>>)

TablesThen(i) == Arrives(i, "tables") /\ Handled(i, <<>>) /\ UNCHANGED view

\* The summary is asked for with the period as it is by then.
SitesThen(i) ==
    /\ Arrives(i, "siteList")
    /\ view' = [view EXCEPT !.siteList = calls[i].arg]
    /\ Handled(i, <<Ask("siteAll", About(view, calls[i].arg[2]))>>)

SiteAllThen(i) ==
    /\ Arrives(i, "siteAll")
    /\ view' = [view EXCEPT !.activeSite = calls[i].arg]
    /\ Handled(i, <<>>)

-----------------------------------------------------------------------------
Next ==
    \/ \E type \in {"today", "cumulative"} : handleChahe(type)
    \/ TimePicker \/ InstitutionControls \/ JobControls
    \/ \E i \in DOMAIN calls :
          \/ ListThen(i) \/ AllThen(i) \/ TablesThen(i) \/ SitesThen(i) \/ SiteAllThen(i)
          \/ Fail(i) \/ Ignores(i)

Spec == Init /\ [][Next]_pageVars

-----------------------------------------------------------------------------
\* However the type, the dates and the institution change while answers are
\* on their way: when they have all come, and those of a kind in the order
\* they were asked for, every part of the page shows the one period, and the
\* sites and their summary are those of the institution selected.
PartsAgree ==
    calls = <<>> /\ mishaps \cap {"failed", "crossed"} = {} =>
        /\ view.activejobs = <<Period(view), view.instpageNum>>
        /\ view.institutionsList = server[Period(view)]
        /\ view.siteList = About(view, view.nowInstitus.row) /\ view.activeSite = view.siteList
=============================================================================
