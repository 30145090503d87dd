----------------------------- MODULE SiteTable -----------------------------
(***************************************************************************)
(* The tables of the sites (sitetable.vue), one under each institution of  *)
(* the list of site.vue, and the page of a site (sitedetail.vue).  A table *)
(* asks for its rows when it is created unfolded, when it is unfolded, and *)
(* after everything done in it.  Which tables are unfolded is kept by the  *)
(* browser: stored, Unwritten in one that has never folded anything.       *)
(*                                                                         *)
(* With the function on, a new list makes new tables; without it the list  *)
(* is changed in place and the tables stay.  The dialogs belong to one     *)
(* table.  Two fields are history: asked, what each table asked for last,  *)
(* and kept, whether the browser kept something when the page was entered. *)
(***************************************************************************)
EXTENDS Page

CONSTANT Institutions   \* the institutions of the list

Requests == {"sites", "delete", "reactivate", "siteInfo"}

PageSize == 1
Statuses == {1, 2, 3}        \* not joined, joined, deleted
Unwritten == <<"unwritten">>
AnyStatus == 0

Order == Enumerated(Institutions)

-----------------------------------------------------------------------------
(* The manager: its sites by id, with institution and status.              *)

SitesOf(query) ==
    LET rows == Ascending({id \in DOMAIN server.sites :
                    /\ server.sites[id].institutions = query.institutions
                    /\ query.status \in {AnyStatus, server.sites[id].status}})
    IN [list |-> Chunk([k \in DOMAIN rows |-> [id |-> rows[k], status |-> server.sites[rows[k]].status]],
                       PageSize, query.pageNum),
        totalRecord |-> Len(rows)]

-----------------------------------------------------------------------------
(* The tables.                                                             *)

NewTable == [tableData |-> <<>>, total |-> 0, pageNum |-> 1, status |-> AnyStatus]
Query(v, name) ==
    [institutions |-> name, pageNum |-> v.table[name].pageNum, status |-> v.table[name].status]

\* initList of these tables: the rows go at once.
initList(v, names) ==
    LET seq == Enumerated(names)
    IN [k \in DOMAIN seq |-> AskFrom(CHOOSE j \in DOMAIN Order : Order[j] = seq[k], "sites", Query(v, seq[k]))]
Emptied(v, names) ==
    [v EXCEPT !.table = [n \in Institutions |-> IF n \in names THEN [@[n] EXCEPT !.tableData = <<>>] ELSE @[n]],
              !.asked = [n \in Institutions |-> IF n \in names THEN Query(v, n) ELSE @[n]]]

\* getTable: a table that is created asks if the browser keeps it unfolded.
\* In a browser that keeps nothing that is a type error, and nothing is asked.
getTable(v) == IF v.stored = Unwritten THEN {} ELSE Range(v.stored) \cap Institutions

NoQuery == [institutions |-> "", pageNum |-> 0, status |-> AnyStatus]
Entered(stored) ==
    [stored |-> stored, activeName |-> IF stored = Unwritten THEN <<>> ELSE stored,
     table |-> [n \in Institutions |-> NewTable],
     asked |-> [n \in Institutions |-> NoQuery],
     dialog |-> "none", row |-> [institutions |-> "", id |-> 0],
     page |-> "table", form |-> <<>>, kept |-> stored # Unwritten]
Opened(stored) == Emptied(Entered(stored), getTable(Entered(stored)))

Site(institution, status) == [institutions |-> institution, status |-> status]

Init ==
    \E a \in {Order[1]}, b \in {Order[2]}, s \in {1, 3}, on \in BOOLEAN :
        /\ server = [siteState |-> on, sites |-> <<Site(a, 2), Site(a, s), Site(b, 1)>>]
        /\ \E stored \in {Unwritten, <<>>, <<a>>, <<b, a>>} :
            /\ view = Opened(stored)
            /\ Created(initList(view, getTable(view)))

Rows(v, name) == v.table[name].tableData
Ids(v, name) == {Rows(v, name)[k].id : k \in DOMAIN Rows(v, name)}

\* What can be clicked; a dialog covers the tables, and a table that is
\* folded shows nothing.
Unfolded(v) == IF v.page = "table" /\ v.dialog = "none" THEN Range(v.activeName) \cap Institutions ELSE {}
RowControls(status) ==
    {IF status = 1 THEN "siteInfo" ELSE "sitedetail"}
        \cup (IF status # 3 THEN {"delete"} ELSE {})
        \cup (IF status = 2 THEN {"reactivate"} ELSE {})
RowsWith(v, control) ==
    {r \in [institutions : Unfolded(v), id : DOMAIN server.sites] :
        \E k \in DOMAIN Rows(v, r.institutions) :
            /\ Rows(v, r.institutions)[k].id = r.id
            /\ control \in RowControls(Rows(v, r.institutions)[k].status)}
DialogControls(v) ==
    CASE v.dialog = "delete" -> {"okAction", "close"}
      [] v.dialog = "reactivate" -> {"reactivateSite", "close"}
      [] OTHER -> {}

\* The watcher of activeName writes what is unfolded into the browser.
Folded(v, names) == [v EXCEPT !.activeName = names, !.stored = names]

\* A browser that keeps "" counts as one that keeps one name.
StoredLength(stored) == IF stored = <<>> THEN 1 ELSE Len(stored)

\* The rows of the institution unfolded last are asked for when no fewer are
\* unfolded than the browser kept.
AsksRows(value, stored) ==
    stored # Unwritten /\ value # <<>> /\ Len(value) >= StoredLength(stored)

changeCollapse(name) ==
    LET value == IF name \in Range(view.activeName)
                 THEN Picked(view.activeName, {k \in DOMAIN view.activeName : view.activeName[k] # name})
                 ELSE Append(view.activeName, name)
        asks == IF AsksRows(value, view.stored) THEN {value[Len(value)]} ELSE {}
    IN /\ view.page = "table" /\ view.dialog = "none"
       /\ view' = Emptied(Folded(view, value), asks)
       /\ Click(initList(view, asks))

toFold ==
    LET asks == IF view.activeName # <<>> THEN {} ELSE Institutions
    IN /\ view.page = "table" /\ view.dialog = "none"
       /\ view' = Emptied(Folded(view, Enumerated(asks)), asks)
       /\ Click(initList(view, asks))

\* A search of the list, as the list arrives: new tables, or all ask again.
toSearch ==
    LET again == IF server.siteState THEN [Entered(view.stored) EXCEPT !.activeName = view.activeName]
                 ELSE view
        asks == IF server.siteState THEN getTable(view) ELSE Institutions
    IN /\ view.page = "table" /\ view.dialog = "none"
       /\ view' = Emptied(again, asks)
       /\ Click(initList(again, asks))

tofilter(name, status) ==
    LET v == [view EXCEPT !.table[name].status = status, !.table[name].pageNum = 1]
    IN /\ name \in Unfolded(view) /\ status # view.table[name].status
       /\ view' = Emptied(v, {name})
       /\ Click(initList(v, {name}))

handleCurrentChange(name, page) ==
    LET v == [view EXCEPT !.table[name].pageNum = page]
    IN /\ name \in Unfolded(view) /\ page # view.table[name].pageNum
       /\ view' = Emptied(v, {name})
       /\ Click(initList(v, {name}))

handleDelete(row) ==
    /\ row \in RowsWith(view, "delete")
    /\ Click(<<>>)
    /\ view' = [view EXCEPT !.dialog = "delete", !.row = row]

toReactivate(row) ==
    /\ row \in RowsWith(view, "reactivate")
    /\ Click(<<>>)
    /\ view' = [view EXCEPT !.dialog = "reactivate", !.row = row]

okAction ==
    /\ "okAction" \in DialogControls(view)
    /\ Click(<<Ask("delete", view.row)>>)
    /\ UNCHANGED view

reactivateSite ==
    /\ "reactivateSite" \in DialogControls(view)
    /\ Click(<<Ask("reactivate", view.row)>>)
    /\ UNCHANGED view

CloseDialog ==
    /\ "close" \in DialogControls(view)
    /\ Click(<<>>)
    /\ view' = [view EXCEPT !.dialog = "none"]

\* A site that waits is opened in the form (SiteForm), any other in its own
\* page; what the tables asked for reaches nobody.
Left(page, asked) ==
    /\ UserActs /\ ~busy
    /\ view' = [Entered(view.stored) EXCEPT !.page = page]
    /\ calls' = asked /\ busy' = Loud(asked)
    /\ UNCHANGED <<server, mishaps>>
siteInfo == RowsWith(view, "siteInfo") # {} /\ Left("form", <<>>)
sitedetail(row) ==
    row \in RowsWith(view, "sitedetail") /\ Left("detail", <<Ask("siteInfo", row.id)>>)

\* Back to the list: the tables are made anew from what the browser keeps.
Back ==
    /\ view.page # "table" /\ UserActs /\ ~busy
    /\ view' = Opened(view.stored)
    /\ calls' = initList(view', getTable(view')) /\ busy' = Loud(calls')
    /\ UNCHANGED <<server, mishaps>>

-----------------------------------------------------------------------------
(* What the manager does: only a joined site is set back.                  *)

Serve(i) ==
    \/ calls[i].op = "sites" /\ Reply(i, Ok(SitesOf(calls[i].arg))) /\ UNCHANGED server
    \/ /\ calls[i].op = "delete"
       /\ Reply(i, Ok(0)) /\ server' = [server EXCEPT !.sites[calls[i].arg.id].status = 3]
    \/ /\ calls[i].op = "reactivate"
       /\ IF server.sites[calls[i].arg.id].status = 2
          THEN Reply(i, Ok(0)) /\ server' = [server EXCEPT !.sites[calls[i].arg.id].status = 1]
          ELSE Reply(i, Refused) /\ UNCHANGED server

-----------------------------------------------------------------------------
(* Answers.                                                                *)

\* An answer for a table of a list that is gone is no longer asked for.
SitesThen(i) ==
    LET name == calls[i].arg.institutions
    IN /\ Got(i, "sites")
       /\ view' = IF view.asked[name] = NoQuery THEN view
                  ELSE [view EXCEPT !.table[name].tableData = Data(i).list,
                                    !.table[name].total = Data(i).totalRecord]
       /\ Handled(i, <<>>)

\* After a deletion, and after a reactivation.
Decided(i) ==
    LET name == calls[i].arg.institutions
    IN /\ Got(i, "delete") \/ Got(i, "reactivate")
       /\ view' = Emptied([view EXCEPT !.dialog = "none"], {name})
       /\ Handled(i, initList(view, {name}))

getKeySansLink(i) ==
    /\ Arrives(i, "siteInfo")
    /\ view' = [view EXCEPT !.form = <<server.sites[calls[i].arg]>>]
    /\ Handled(i, <<>>)

Acts ==
    \/ \E n \in Institutions : changeCollapse(n)
    \/ \E n \in Institutions, s \in {AnyStatus, 1, 3} : tofilter(n, s)
    \/ \E n \in Institutions : \E p \in PagesOf(view.table[n].total, PageSize) : handleCurrentChange(n, p)
    \/ \E row \in [institutions : Unfolded(view), id : DOMAIN server.sites] :
          handleDelete(row) \/ toReactivate(row) \/ sitedetail(row)
    \/ toFold \/ toSearch \/ okAction \/ reactivateSite \/ CloseDialog \/ siteInfo \/ Back

Next ==
    \/ Acts
    \/ \E i \in DOMAIN calls :
          Serve(i) \/ Fail(i) \/ SitesThen(i) \/ Decided(i) \/ getKeySansLink(i) \/ Ignores(i)

Spec == Init /\ [][Next]_pageVars

-----------------------------------------------------------------------------
\* The rows of every table that asked are those of its last question, however
\* the answers of the tables were mixed; only two answers of one table that
\* cross can leave older rows.
RowsAreCurrent ==
    Settled => \A n \in Institutions : view.asked[n] # NoQuery =>
        /\ Rows(view, n) = SitesOf(view.asked[n]).list
        /\ view.table[n].total = SitesOf(view.asked[n]).totalRecord

\* A table that is unfolded has asked for its rows, folded and unfolded as it
\* may have been, and after the page was left and entered again, in a browser
\* that kept what was unfolded when the page was entered.
UnfoldedHasAsked ==
    \A n \in Unfolded(view) : view.kept => view.asked[n] # NoQuery
=============================================================================
